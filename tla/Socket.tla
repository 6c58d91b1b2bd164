-------------------------------- MODULE Socket --------------------------------
(***************************************************************************)
(* A socket as Lua programs see it: usocket.c (non-blocking descriptors,   *)
(* and poll() to wait), timeout.c (the time an operation may wait),        *)
(* buffer.c (lines and counts out of a stream), ssl.c where the connection *)
(* is wrapped. A byte is a token, and the other side is a peer that may be *)
(* slow, refuse, close early or never answer.                              *)
(***************************************************************************)
EXTENDS Integers, Sequences

CONSTANTS
    Conns,      \* the connections that may be opened
    BUF_SIZE,   \* of the read buffer
    STEPSIZE,   \* of what one send() is given
    BLOCK,      \* the time an operation waits once settimeout() was called
    KERNEL      \* what the kernel holds in each direction

ASSUME SocketAssumption ==
    BUF_SIZE > 0 /\ STEPSIZE > 0 /\ BLOCK >= 0 /\ KERNEL > 0

VARIABLES
    sock,       \* the objects of the program
    net,        \* the kernel and the peers
    permitted,  \* net_operations_permitted
    op          \* the operation being made, one at a time

NoTimeout == -1
LF == <<"LF">>
CR == <<"CR">>
HELLO == <<"hello">>

Least(m, n) == IF m < n THEN m ELSE n

NewSock == [fd |-> "invalid", family |-> 0, tls |-> "no", block |-> NoTimeout, buf |-> <<>>]

Unconnected(n) ==
    [n EXCEPT !.peer = "none", !.coming = n.script, !.kernel = <<>>, !.eof = FALSE,
              !.out = <<>>, !.room = KERNEL]

Idle == [call |-> "none", conn |-> 0, pc |-> "call", pat |-> "", data |-> <<>>,
         count |-> 0, left |-> <<>>, waited |-> 0, err |-> ""]

\* What poll() is asked for: to read, to write, to be connected.
WAITFDS == {"WAITFD_R", "WAITFD_W", "WAITFD_C"}

Finished(err) == [op EXCEPT !.pc = "done", !.err = err]
Waiting(sw) == [op EXCEPT !.pc = sw]
Calling(call) == op.call = call /\ op.pc = "call"

\* LSEC_STATE_CONNECTED, of a socket that is not closed.
Usable(c) == sock[c].fd = "open" /\ sock[c].tls = "connected"

\* SSL_shutdown() is called with the descriptor blocking: it cannot send its
\* alert to a peer that reads no more, and has no time limit.
Stuck(c) == Usable(c) /\ net[c].room = 0 /\ ~net[c].eof

-----------------------------------------------------------------------------
(* Operations begin: timeout_markstart().                                  *)

StartConnect(c) == op' = [Idle EXCEPT !.call = "connect", !.conn = c, !.pc = "lookup"]

\* getaddrinfo() answers when it does: the time limit knows nothing of it.
Resolve ==
    /\ op.pc = "lookup"
    /\ LET addresses == net[op.conn].addresses
       IN op' = IF addresses = <<>> THEN Finished("host not found")
                ELSE [op EXCEPT !.pc = "call", !.left = addresses]
    /\ UNCHANGED <<sock, net, permitted>>

StartHandshake(c) == op' = [Idle EXCEPT !.call = "handshake", !.conn = c]

\* pat is "*l", "*a" or "n", then with the count that is wanted.
StartReceive(c, pat, wanted, part) ==
    op' = [Idle EXCEPT !.call = "receive", !.conn = c, !.pat = pat, !.count = wanted, !.data = part]

StartSend(c, data) == op' = [Idle EXCEPT !.call = "send", !.conn = c, !.data = data]

-----------------------------------------------------------------------------
(* connect(): each address of the name in turn, with the time anew.        *)

NextAddress(err) ==
    op' = IF Len(op.left) = 1
          THEN Finished(err)
          ELSE [op EXCEPT !.left = Tail(@), !.waited = 0, !.pc = "call"]

\* n is the connection the descriptor stands for, a new one or one on which
\* an attempt may be under way.
socket_connect(c, n) ==
    \/ /\ ~permitted
       /\ net' = [net EXCEPT ![c] = n] /\ NextAddress("closed")
    \/ /\ permitted /\ n.peer = "none"
       /\ \/ net' = [net EXCEPT ![c] = [n EXCEPT !.peer = "syn"]] /\ op' = Waiting("WAITFD_C")
          \/ net' = [net EXCEPT ![c] = n] /\ NextAddress("unreachable")
    \/ permitted /\ n.peer = "syn" /\ UNCHANGED net /\ NextAddress("already")
    \/ /\ permitted /\ n.peer = "refused"
       /\ net' = [net EXCEPT ![c].peer = "none"] /\ NextAddress("refused")
    \/ permitted /\ n.peer = "accepted" /\ UNCHANGED net /\ op' = Finished("")

\* A descriptor is made for a new family, and kept from one address to the
\* next of the same.
Connect ==
    /\ Calling("connect")
    /\ LET c == op.conn
           family == Head(op.left)
           fresh == sock[c].fd = "invalid" \/ sock[c].family # family
       IN /\ sock' = IF fresh THEN [sock EXCEPT ![c].fd = "open", ![c].family = family] ELSE sock
          /\ socket_connect(c, IF fresh THEN Unconnected(net[c]) ELSE net[c])
    /\ UNCHANGED permitted

-----------------------------------------------------------------------------
(* The TLS handshake: the peer's hello, or anything else.                  *)

Handshake ==
    /\ Calling("handshake")
    /\ LET c == op.conn IN
       \/ /\ net[c].kernel # <<>> /\ Head(net[c].kernel) = HELLO
          /\ net' = [net EXCEPT ![c].kernel = Tail(@)]
          /\ sock' = [sock EXCEPT ![c].tls = "connected"]
          /\ op' = Finished("")
       \/ /\ net[c].kernel # <<>> /\ Head(net[c].kernel) # HELLO
          /\ op' = Finished("ssl") /\ UNCHANGED <<sock, net>>
       \/ /\ net[c].kernel = <<>> /\ net[c].eof
          /\ op' = Finished("closed") /\ UNCHANGED <<sock, net>>
       \/ /\ net[c].kernel = <<>> /\ ~net[c].eof
          /\ op' = Waiting("WAITFD_R") /\ UNCHANGED <<sock, net>>
    /\ UNCHANGED permitted

-----------------------------------------------------------------------------
(* receive(): recvline(), recvraw() and recvall() over buffer_get().       *)

NotCR(t) == t # CR

FirstLF(data) ==
    IF \E i \in 1..Len(data) : data[i] = LF
    THEN CHOOSE i \in 1..Len(data) : data[i] = LF /\ \A j \in 1..(i - 1) : data[j] # LF
    ELSE 0

\* How much of what is in the buffer the pattern takes, what of that goes to
\* the program, and whether the operation is then over.
recvline(data) ==
    LET pos == FirstLF(data)
        upto == IF pos = 0 THEN Len(data) ELSE pos - 1
    IN [skip |-> IF pos = 0 THEN Len(data) ELSE pos,
        add |-> SelectSeq(SubSeq(data, 1, upto), NotCR), over |-> pos # 0]

\* A mutant: what is over in the buffer is lost.
recvrawSkipsAll(data) ==
    LET count == Least(Len(data), op.count - Len(op.data))
    IN [skip |-> Len(data), add |-> SubSeq(data, 1, count), over |-> Len(op.data) + count >= op.count]

recvraw(data) ==
    LET count == Least(Len(data), op.count - Len(op.data))
    IN [skip |-> count, add |-> SubSeq(data, 1, count), over |-> Len(op.data) + count >= op.count]

recvall(data) == [skip |-> Len(data), add |-> data, over |-> FALSE]

Taken(data) ==
    CASE op.pat = "*l" -> recvline(data)
      [] op.pat = "n" -> recvraw(data)
      [] op.pat = "*a" -> recvall(data)

Consume(c, data) ==
    LET t == Taken(data)
        more == [op EXCEPT !.data = @ \o t.add]
    IN /\ sock' = [sock EXCEPT ![c].buf = SubSeq(data, t.skip + 1, Len(data))]
       /\ op' = IF t.over THEN [more EXCEPT !.pc = "done"] ELSE more

ReceiveFails(err) ==
    /\ op' = Finished(IF op.pat = "*a" /\ err = "closed" /\ op.data # <<>> THEN "" ELSE err)
    /\ UNCHANGED <<sock, net>>

TakeKernel(c) ==
    LET kernel == net[c].kernel
        got == Least(BUF_SIZE, Len(kernel))
    IN /\ kernel # <<>>
       /\ Consume(c, SubSeq(kernel, 1, got))
       /\ net' = [net EXCEPT ![c].kernel = SubSeq(kernel, got + 1, Len(kernel))]

NoData(c) == net[c].kernel = <<>> /\ ~net[c].eof
NoRoom(c) == net[c].room = 0 /\ ~net[c].eof
WaitForData(c) == NoData(c) /\ op' = Waiting("WAITFD_R") /\ UNCHANGED <<sock, net>>

\* A peer that is gone has ended the stream, or broken it off.
socket_recv(c) ==
    \/ sock[c].fd # "open" /\ ReceiveFails("closed")
    \/ /\ sock[c].fd = "open"
       /\ \/ TakeKernel(c) \/ WaitForData(c)
          \/ /\ net[c].kernel = <<>> /\ net[c].eof
             /\ \E err \in {"closed", "reset"} : ReceiveFails(err)

\* An end without a closing alert is an end or an error, as OpenSSL has it,
\* and what is read may have to be answered first (SSL_ERROR_WANT_WRITE).
ssl_recv(c) ==
    \/ ~Usable(c) /\ ReceiveFails("closed")
    \/ /\ Usable(c)
       /\ \/ TakeKernel(c) \/ WaitForData(c)
          \/ NoRoom(c) /\ op' = Waiting("WAITFD_W") /\ UNCHANGED <<sock, net>>
          \/ /\ net[c].kernel = <<>> /\ net[c].eof
             /\ \E err \in {"closed", "reset", "ssl"} : ReceiveFails(err)

\* buffer_get() asks the kernel only when the buffer is empty.
Receive ==
    /\ Calling("receive")
    /\ LET c == op.conn IN
       IF sock[c].buf # <<>> THEN Consume(c, sock[c].buf) /\ UNCHANGED net
       ELSE IF sock[c].tls = "no" THEN socket_recv(c) ELSE ssl_recv(c)
    /\ UNCHANGED permitted

-----------------------------------------------------------------------------
(* send(): sendraw(), in steps of which the kernel may take a part.        *)

\* A mutant: total goes on by what was offered.
sendrawCountsStep(c) ==
    LET step == Least(STEPSIZE, Len(op.data) - op.count)
        done == Least(step, net[c].room)
    IN /\ net' = [net EXCEPT ![c].out = @ \o SubSeq(op.data, op.count + 1, op.count + done),
                             ![c].room = @ - done]
       /\ op' = [op EXCEPT !.count = @ + step]

sendraw(c) ==
    LET step == Least(STEPSIZE, Len(op.data) - op.count)
        done == Least(step, net[c].room)
    IN /\ net' = [net EXCEPT ![c].out = @ \o SubSeq(op.data, op.count + 1, op.count + done),
                             ![c].room = @ - done]
       /\ op' = [op EXCEPT !.count = @ + done]

WaitForRoom(c) == NoRoom(c) /\ op' = Waiting("WAITFD_W") /\ UNCHANGED net
SendFails(err) == op' = Finished(err) /\ UNCHANGED net

\* What is sent to a peer that has gone may still be taken, or fail with EPIPE.
socket_send(c) ==
    \/ sock[c].fd # "open" /\ SendFails("closed")
    \/ /\ sock[c].fd = "open"
       /\ \/ net[c].eof /\ \E err \in {"closed", "reset"} : SendFails(err)
          \/ net[c].room > 0 /\ sendraw(c)
          \/ WaitForRoom(c)

\* What is sent may have to wait for the peer (SSL_ERROR_WANT_READ).
ssl_send(c) ==
    \/ ~Usable(c) /\ SendFails("closed")
    \/ /\ Usable(c)
       /\ \/ net[c].eof /\ \E err \in {"closed", "reset", "ssl"} : SendFails(err)
          \/ net[c].room > 0 /\ sendraw(c)
          \/ WaitForRoom(c)
          \/ NoData(c) /\ op' = Waiting("WAITFD_R") /\ UNCHANGED net

Send ==
    /\ Calling("send")
    /\ LET c == op.conn IN
       IF op.count = Len(op.data) THEN op' = Finished("") /\ UNCHANGED net
       ELSE IF sock[c].tls = "no" THEN socket_send(c) ELSE ssl_send(c)
    /\ UNCHANGED <<sock, permitted>>

-----------------------------------------------------------------------------
(* socket_waitfd(): poll() with the time that is left.                     *)

Ready ==
    LET n == net[op.conn] IN
    CASE op.pc = "WAITFD_C" -> n.peer # "syn"
      [] op.pc = "WAITFD_W" -> n.room > 0 \/ n.eof
      [] op.pc = "WAITFD_R" -> n.kernel # <<>> \/ n.eof

Poll ==
    /\ op.pc \in WAITFDS /\ Ready
    /\ IF op.call # "connect" THEN op' = [op EXCEPT !.pc = "call"] /\ UNCHANGED net
       ELSE IF net[op.conn].peer = "accepted" THEN op' = Finished("") /\ UNCHANGED net
       ELSE net' = [net EXCEPT ![op.conn].peer = "none"] /\ NextAddress("refused")
    /\ UNCHANGED <<sock, permitted>>

timeout_getretry(c) == sock[c].block - op.waited

Tick ==
    /\ op.pc \in WAITFDS /\ ~Ready
    /\ sock[op.conn].block # NoTimeout /\ timeout_getretry(op.conn) > 0
    /\ op' = [op EXCEPT !.waited = @ + 1]
    /\ UNCHANGED <<sock, net, permitted>>

TimeOut ==
    /\ op.pc \in WAITFDS /\ ~Ready
    /\ sock[op.conn].block # NoTimeout /\ timeout_getretry(op.conn) <= 0
    /\ IF op.call = "connect" THEN NextAddress("timeout")
       ELSE op' = Finished(IF sock[op.conn].tls = "no" THEN "timeout" ELSE "ssl")
    /\ UNCHANGED <<sock, net, permitted>>

-----------------------------------------------------------------------------
(* What needs no waiting.                                                  *)

destroyed(s) == [s EXCEPT !.fd = "closed"]
wrapped(s) == [s EXCEPT !.tls = "new", !.block = NoTimeout, !.buf = <<>>]
timed(s) == [s EXCEPT !.block = BLOCK]

-----------------------------------------------------------------------------
(* The peer, and the network between.                                      *)

PeerThere(c) == sock[c].fd = "open" /\ net[c].peer = "accepted" /\ ~net[c].eof

\* A peer that has sent its script goes on with `again', for ever, if there
\* is any.
PeerSends(c) ==
    /\ PeerThere(c)
    /\ net[c].coming # <<>> /\ Len(net[c].kernel) < KERNEL
    /\ LET rest == Tail(net[c].coming)
       IN net' = [net EXCEPT ![c].coming = IF rest = <<>> THEN net[c].again ELSE rest,
                             ![c].kernel = Append(@, Head(net[c].coming))]
    /\ UNCHANGED <<sock, permitted, op>>

Peer(c) ==
    /\ \/ /\ sock[c].fd = "open" /\ net[c].peer = "syn"
          /\ \E answer \in {"accepted", "refused"} : net' = [net EXCEPT ![c].peer = answer]
       \/ PeerThere(c) /\ net' = [net EXCEPT ![c].eof = TRUE]
       \/ PeerThere(c) /\ net[c].room < KERNEL /\ net' = [net EXCEPT ![c].room = KERNEL]
    /\ UNCHANGED <<sock, permitted, op>>

Io == Connect \/ Handshake \/ Receive \/ Send \/ Poll
Clock == Tick \/ TimeOut
=============================================================================
