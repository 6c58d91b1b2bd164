-------------------------------- MODULE Clients --------------------------------
(***************************************************************************)
(* The protocols of luasocket on top of Socket: HTTP and HTTPS requests    *)
(* (http.lua, https.lua), sending mail (smtp.lua), fetching and storing    *)
(* files (ftp.lua), the last two with the replies of tp.lua. A client is a *)
(* list of steps; an action takes the first, and what a reply leads to is  *)
(* put in its place. `try' says what an error does: "guard" runs the       *)
(* finalizer of newtry(), "plain" only throws (socket.try), "raise" is an  *)
(* error of Lua that protect() does not turn into a result.                *)
(***************************************************************************)
EXTENDS Socket, SequencesExt

CONSTANTS
    BLOCKSIZE,      \* of socket.lua
    MAXREDIRECTS,
    Scenarios       \* [request, peers]: what a program asks for, and who answers

\* The source of a body gives it in pieces.
ASSUME ClientsAssumption ==
    \A s \in Scenarios :
        /\ {"kind", "scheme", "method", "source", "chunked", "redirects"} \subseteq DOMAIN s.request
        /\ s.request.kind \in {"http", "smtp", "get", "put"}
        /\ Len(s.request.source) \in Nat

VARIABLE cl

vars == <<sock, net, permitted, op, cl>>

Step(do, c) == [do |-> do, conn |-> c, try |-> "guard", then |-> "", next |-> "",
                data |-> <<>>, pat |-> "", count |-> 0, ok |-> {}]

Create(c) == Step("create", c)
SetTimeout(c) == Step("settimeout", c)
ConnectTo(c) == Step("connect", c)
Wrap(c) == Step("wrap", c)
Say(c, data) == [Step("send", c) EXCEPT !.data = data]
Close(c) == Step("close", c)
Line(c, then, next) == [Step("receive", c) EXCEPT !.pat = "*l", !.then = then, !.next = next]
Bytes(c, n, then) == [Step("receive", c) EXCEPT !.pat = "n", !.count = n, !.then = then]
Check(c, ok, next) == [Line(c, "reply", next) EXCEPT !.ok = ok]
IfPreliminary(c) == Step("preliminary", c)

\* socket.try: no finalizer knows of what the step leaves open.
Plain(step) == [step EXCEPT !.try = "plain"]

\* A length that is not there, and one that tonumber() does not take.
Absent == -1
Invalid == -2
NoHeaders == [length |-> Absent, encoding |-> "none", location |-> "none", last |-> "none"]

-----------------------------------------------------------------------------
(* The steps of each client.                                               *)

\* Mutants: h.try made only once the connection is there; no settimeout()
\* after ssl.wrap(), which starts with none.
http_openLateTry(c, scheme) ==
    IF scheme = "https"
    THEN <<Plain(Create(c)), SetTimeout(c), Plain(ConnectTo(c)), Wrap(c), SetTimeout(c),
           Plain(Step("handshake", c))>>
    ELSE <<Create(c), SetTimeout(c), Plain(ConnectTo(c))>>
http_openWrappedUntimed(c, scheme) ==
    IF scheme = "https"
    THEN <<Plain(Create(c)), SetTimeout(c), Plain(ConnectTo(c)), Wrap(c),
           Plain(Step("handshake", c))>>
    ELSE <<Create(c), SetTimeout(c), ConnectTo(c)>>

http_open(c, scheme) ==
    IF scheme = "https"
    THEN <<Plain(Create(c)), SetTimeout(c), Plain(ConnectTo(c)), Wrap(c), SetTimeout(c),
           Plain(Step("handshake", c))>>
    ELSE <<Create(c), SetTimeout(c), ConnectTo(c)>>

sendbody(c, r) ==
    IF r.chunked
    THEN [i \in 1..Len(r.source) |->
             Say(c, <<<<"size", Len(r.source[i])>>, LF>> \o r.source[i] \o <<LF>>)]
         \o <<Say(c, <<<<"size", 0>>, LF, LF>>)>>
    ELSE [i \in 1..Len(r.source) |-> Say(c, r.source[i])]

statusline(c, again) == [Bytes(c, 1, "http") EXCEPT !.next = again]

trequest(c, r) ==
    http_open(c, r.scheme) \o <<Say(c, <<<<r.method>>, LF>>), Say(c, <<<<"host">>, LF, LF>>)>>
    \o (IF r.source # <<>> THEN sendbody(c, r) ELSE <<>>) \o <<statusline(c, "first")>>

tp_connect(c) == <<Create(c), SetTimeout(c), ConnectTo(c)>>
command(c, cmd) == Say(c, <<<<cmd>>, LF>>)

smtp_send(c, r) ==
    tp_connect(c) \o
    <<Check(c, {2}, ""), command(c, "EHLO"), Check(c, {2}, ""),
      command(c, "MAIL"), Check(c, {2}, ""), command(c, "RCPT"), Check(c, {2}, ""),
      command(c, "DATA"), Check(c, {3}, "")>>
    \o [i \in 1..Len(r.source) |-> Say(c, r.source[i])] \o
    <<Say(c, <<<<".">>, LF>>), Check(c, {2}, ""), command(c, "QUIT"), Check(c, {2}, ""), Close(c)>>

\* d is the data connection.
pasvconnect(d) == <<Create(d), SetTimeout(d), ConnectTo(d)>>

ftp(c, d, cmd, transfer) ==
    tp_connect(c) \o
    <<Check(c, {1, 2}, ""), IfPreliminary(c),
      command(c, "user"), Check(c, {2, 331}, "login"),
      command(c, "epsv"), Check(c, {229}, "")>>
    \o pasvconnect(d) \o <<command(c, cmd)>>
    \o transfer \o <<command(c, "quit"), Check(c, {2}, ""), Close(d), Close(c)>>

ftp_get(c, d) == ftp(c, d, "retr", <<Check(c, {1, 2}, "retr")>>)

ftp_put(c, d, r) ==
    ftp(c, d, "stor",
        <<Check(c, {1, 2}, "")>> \o [i \in 1..Len(r.source) |-> Say(d, r.source[i])]
        \o <<Close(d), IfPreliminary(c)>>)

Program(r) ==
    CASE r.kind = "http" -> trequest(1, r)
      [] r.kind = "smtp" -> smtp_send(1, r)
      [] r.kind = "get" -> ftp_get(1, 2)
      [] r.kind = "put" -> ftp_put(1, 2, r)

-----------------------------------------------------------------------------
(* Sources of a body.                                                      *)

by_length(c, n) ==
    IF n <= 0 THEN <<>> ELSE <<[Bytes(c, Least(BLOCKSIZE, n), "by-length") EXCEPT !.next = n]>>

until_closed(c) == <<[Bytes(c, BLOCKSIZE, "until-closed") EXCEPT !.try = "closed"]>>

chunked(c) == <<Line(c, "size", "")>>

receivebody(c, headers) ==
    IF headers.encoding \notin {"none", "identity"} THEN chunked(c)
    ELSE IF headers.length >= 0 THEN by_length(c, headers.length)
    ELSE until_closed(c)

shouldreceivebody(r, code) ==
    r.method # "HEAD" /\ code \notin {204, 304} /\ ~(code \in 100..199)

shouldredirect(r, code, location) ==
    /\ location # "none"
    /\ r.scheme = "https" => location = "https"
    /\ code \in {301, 302, 303, 307}
    /\ r.method \in {"GET", "HEAD"}
    /\ r.redirects < MAXREDIRECTS

\* The method and the source are not passed on.
tredirect(r, location) ==
    [r EXCEPT !.method = "GET", !.source = <<>>, !.redirects = @ + 1,
              !.scheme = IF location = "relative" THEN @ ELSE location]

-----------------------------------------------------------------------------
(* How a step is taken.                                                    *)

First == Head(cl.todo)
c0 == First.conn
Running == cl.result = "running" /\ cl.todo # <<>>

\* Steps that wait for nobody.
Immediate ==
    /\ Running /\ op.call = "none"
    /\ \/ First.do = "create" /\ sock' = [sock EXCEPT ![c0] = NewSock]
       \/ First.do = "settimeout" /\ sock' = [sock EXCEPT ![c0] = timed(@)]
       \/ First.do = "wrap" /\ sock' = [sock EXCEPT ![c0] = wrapped(@)]
       \/ First.do = "close" /\ ~Stuck(c0) /\ sock' = [sock EXCEPT ![c0] = destroyed(@)]
       \/ First.do = "preliminary" /\ UNCHANGED sock
    /\ cl' = [cl EXCEPT
                 !.todo = IF First.do = "preliminary" /\ cl.code \div 100 = 1
                          THEN <<Check(c0, {2}, "")>> \o Tail(@) ELSE Tail(@),
                 !.closes = IF First.do = "create" /\ First.try = "guard" THEN @ \cup {c0} ELSE @]
    /\ UNCHANGED <<net, permitted, op>>

Begin ==
    /\ Running /\ op.call = "none"
    /\ \/ First.do = "connect" /\ StartConnect(c0)
       \/ First.do = "handshake" /\ StartHandshake(c0)
       \/ First.do = "receive" /\ StartReceive(c0, First.pat, First.count, First.data)
       \/ First.do = "send" /\ StartSend(c0, First.data)
    /\ UNCHANGED <<sock, net, permitted, cl>>

Return ==
    /\ cl.result = "running" /\ cl.todo = <<>>
    /\ cl' = [cl EXCEPT !.result = "ok"]
    /\ UNCHANGED <<sock, net, permitted, op>>

Over == Running /\ op.pc = "done"
Succeeded(then) == Over /\ op.err = "" /\ First.do = "receive" /\ First.then = then

\* finalize(): the finalizer, then the exception; protected_() returns it.
Throw ==
    /\ \A c \in cl.closes : ~Stuck(c)
    /\ sock' = [c \in Conns |-> IF c \in cl.closes THEN destroyed(sock[c]) ELSE sock[c]]
    /\ cl' = [cl EXCEPT !.result = "error"]
    /\ op' = Idle
    /\ UNCHANGED <<net, permitted>>

\* The step is done; others take its place.
Proceed(steps, new) ==
    /\ cl' = [new EXCEPT !.todo = steps \o Tail(cl.todo)]
    /\ op' = Idle
    /\ UNCHANGED <<sock, net, permitted>>

Fail ==
    /\ Over /\ op.err # "" /\ First.try \in {"guard", "plain", "raise"}
    /\ IF First.try = "guard" THEN Throw
       ELSE /\ cl' = [cl EXCEPT !.result = IF First.try = "raise" THEN "raised" ELSE "error"]
            /\ op' = Idle /\ UNCHANGED <<sock, net, permitted>>

\* connect(), handshake() and send() return nothing that is looked at, but
\* that an https connection can be closed only once it has a close().
Done ==
    /\ Over /\ op.err = "" /\ First.do # "receive"
    /\ Proceed(<<>>, [cl EXCEPT !.closes = IF First.do = "handshake" THEN @ \cup {c0} ELSE @])

-----------------------------------------------------------------------------
(* HTTP responses.                                                         *)

\* receivestatusline(): without HTTP/ the reply is a body of HTTP/0.9, and
\* after a 100 the code is nil.
StatusStart ==
    /\ Succeeded("http")
    /\ IF op.data = <<<<"HTTP/">>>> THEN Proceed(<<[Line(c0, "status", "") EXCEPT !.data = op.data]>>, cl)
       ELSE IF First.next = "again" THEN Proceed(<<Line(c0, "first", "nilcode")>>, cl)
       ELSE Proceed(until_closed(c0), [cl EXCEPT !.sunk = @ \o op.data, !.code = 200])

Status ==
    /\ Succeeded("status")
    /\ IF Len(op.data) < 2 \/ op.data[2][1] # "status" THEN Throw
       ELSE Proceed(<<Line(c0, "first", IF op.data[2][2] = 100 THEN "again" ELSE "body")>>,
                    [cl EXCEPT !.code = op.data[2][2], !.headers = NoHeaders])

\* A field that comes again is joined to the first with a comma: a length or
\* "identity" no more, while the place to go to begins as it did.
withheader(h, field) ==
    CASE field[2] = "content-length" ->
            [h EXCEPT !.length = IF @ = Absent THEN field[3] ELSE Invalid, !.last = "length"]
      [] field[2] = "transfer-encoding" ->
            [h EXCEPT !.encoding = IF @ = "none" THEN field[3] ELSE "other", !.last = "encoding"]
      [] field[2] = "location" ->
            [h EXCEPT !.location = IF @ = "none" THEN field[3] ELSE @, !.last = "location"]
      [] OTHER -> [h EXCEPT !.last = "other"]

\* What is folded adds to the value, a blank line of it only a blank.
unfolded(h, line) ==
    CASE h.last = "length" /\ Len(line) > 1 -> [h EXCEPT !.length = Invalid]
      [] h.last = "encoding" -> [h EXCEPT !.encoding = "other"]
      [] OTHER -> h

\* The next line may be the rest of this one: then the one after it is read
\* without a look at the error.
HeaderLine ==
    /\ \E then \in {"first", "next", "unfold"} : Succeeded(then)
    /\ op.data # <<>>
    /\ IF First.then # "first" /\ op.data[1] = <<" ">>
       THEN Proceed(<<[Line(c0, "unfold", First.next) EXCEPT !.try = "raise"]>>,
                    [cl EXCEPT !.headers = unfolded(@, op.data)])
       ELSE IF op.data[1][1] = "header"
       THEN Proceed(<<Line(c0, "next", First.next)>>,
                    [cl EXCEPT !.headers = withheader(@, op.data[1])])
       ELSE Throw

Blank == /\ \E then \in {"first", "next", "unfold"} : Succeeded(then)
         /\ op.data = <<>>

Continue100 == Blank /\ First.next = "again" /\ Proceed(<<statusline(c0, "again")>>, cl)

\* The code is compared with 100, except for HEAD.
NilCode ==
    /\ Blank /\ First.next = "nilcode"
    /\ IF cl.request.method = "HEAD" THEN Proceed(<<Close(c0)>>, cl)
       ELSE /\ cl' = [cl EXCEPT !.result = "raised"] /\ op' = Idle
            /\ UNCHANGED <<sock, net, permitted>>

Trailers == Blank /\ First.next = "trailers" /\ Proceed(<<>>, cl)

Redirect ==
    /\ Blank /\ First.next = "body"
    /\ shouldredirect(cl.request, cl.code, cl.headers.location) /\ cl.request.source = <<>>
    /\ LET r == tredirect(cl.request, cl.headers.location)
       IN Proceed(<<Close(c0)>> \o trequest(c0 + 1, r), [cl EXCEPT !.request = r])

Body ==
    /\ Blank /\ First.next = "body"
    /\ ~(shouldredirect(cl.request, cl.code, cl.headers.location) /\ cl.request.source = <<>>)
    /\ Proceed((IF shouldreceivebody(cl.request, cl.code) THEN receivebody(c0, cl.headers) ELSE <<>>)
               \o <<Close(c0)>>, cl)

Sink(chunk) == [cl EXCEPT !.sunk = @ \o chunk]

ByLength ==
    /\ Succeeded("by-length")
    /\ Proceed(by_length(c0, First.next - Len(op.data)), Sink(op.data))

UntilClosed ==
    /\ Succeeded("until-closed")
    /\ Proceed(until_closed(c0), Sink(op.data))

\* The end of the connection is the end of the body; any other error is one.
Closed ==
    /\ Over /\ First.try = "closed" /\ op.err # ""
    /\ IF op.err # "closed" THEN Throw
       ELSE /\ ~Stuck(c0)
            /\ sock' = [sock EXCEPT ![c0] = destroyed(@)]
            /\ cl' = [Sink(op.data) EXCEPT !.todo = Tail(@)]
            /\ op' = Idle
            /\ UNCHANGED <<net, permitted>>

ChunkSize ==
    /\ Succeeded("size")
    /\ IF op.data = <<>> \/ op.data[1][1] # "size" THEN Throw
       ELSE IF op.data[1][2] > 0 THEN Proceed(<<Bytes(c0, op.data[1][2], "chunk")>>, cl)
       ELSE Proceed(<<Line(c0, "first", "trailers")>>, cl)

\* Whether the line after the chunk can be read is not looked at.
Chunk ==
    /\ Succeeded("chunk")
    /\ Proceed(<<[Line(c0, "crlf", "") EXCEPT !.try = "ignore"]>> \o chunked(c0), Sink(op.data))

AfterChunk == Over /\ First.then = "crlf" /\ Proceed(<<>>, cl)

-----------------------------------------------------------------------------
(* get_reply() and check() of tp.lua.                                      *)

Matches(code, ok) == code \in ok \/ code \div 100 \in ok

login(c, code) == IF code = 331 THEN <<command(c, "pass"), Check(c, {2}, "")>> ELSE <<>>

\* A file that comes with the reply, or on the data connection.
retr(code) == IF code \div 100 = 2 THEN <<>> ELSE until_closed(2) \o <<IfPreliminary(c0), Close(2)>>

\* A reply of several lines ends with its first code and a space.
Reply ==
    /\ Succeeded("reply")
    /\ LET isreply == op.data # <<>> /\ op.data[1][1] = "reply"
           code == op.data[1][2]
           last == First.count
       IN IF last = 0 /\ ~isreply THEN Throw
          ELSE IF IF last = 0 THEN op.data[1][3] = "-"
                  ELSE ~isreply \/ code # last \/ op.data[1][3] # " "
          THEN Proceed(<<[First EXCEPT !.count = IF last = 0 THEN code ELSE last]>>, cl)
          ELSE IF ~Matches(code, First.ok) THEN Throw
          ELSE Proceed(CASE First.next = "login" -> login(c0, code)
                         [] First.next = "retr" -> retr(code)
                         [] OTHER -> <<>>,
                       [cl EXCEPT !.code = code,
                                  !.sunk = IF First.next = "retr" /\ code \div 100 = 2
                                           THEN op.data ELSE @])

-----------------------------------------------------------------------------
Init ==
    /\ sock = [c \in Conns |-> NewSock]
    /\ op = Idle
    /\ permitted \in BOOLEAN
    /\ \E s \in Scenarios :
          /\ net = [c \in Conns |->
                [script |-> s.peers[c].script, again |-> s.peers[c].again, body |-> s.peers[c].body, ending |-> s.peers[c].ending,
                 addresses |-> s.peers[c].addresses, peer |-> "none", coming |-> s.peers[c].script,
                 kernel |-> <<>>, eof |-> FALSE, out |-> <<>>, room |-> KERNEL]]
          /\ cl = [todo |-> Program(s.request), result |-> "running", asked |-> s.request,
                   request |-> s.request, code |-> 0, headers |-> NoHeaders, sunk |-> <<>>,
                   closes |-> {}]

Client ==
    \/ Immediate \/ Begin \/ Return \/ Fail \/ Done
    \/ StatusStart \/ Status \/ HeaderLine \/ Continue100 \/ NilCode \/ Trailers \/ Redirect \/ Body
    \/ ByLength \/ UntilClosed \/ Closed \/ ChunkSize \/ Chunk \/ AfterChunk \/ Reply

Process == Client \/ (Io /\ UNCHANGED cl)
Time == Clock /\ UNCHANGED cl

Environment == Resolve \/ \E c \in Conns : PeerSends(c) \/ Peer(c)

Next == Process \/ Time \/ (Environment /\ UNCHANGED cl)

\* The program runs and time passes; nothing is asked of the peers, nor of
\* those who know the addresses.
Spec == Init /\ [][Next]_vars /\ WF_vars(Process) /\ WF_vars(Time)

-----------------------------------------------------------------------------
\* A request that succeeds has delivered the body that the peer meant, all
\* of it where the body says how long it is, a beginning of it where only the
\* end of the connection does: through the lines, counts and chunks that
\* http.lua and ftp.lua take out of a stream that arrives in pieces
\* (buffer.c:150-243).
BodyWhole ==
    cl.result = "ok" =>
        LET n == net[IF cl.request.kind = "http" THEN cl.request.redirects + 1 ELSE 2]
        IN IF cl.request.method = "HEAD" \/ (cl.request.kind = "get" /\ n.ending = "reply")
           THEN n.ending # "reply" => cl.sunk = <<>>
           ELSE IF n.ending = "closed" THEN IsPrefix(cl.sunk, n.body)
           ELSE cl.sunk = n.body

Sends(steps, c) ==
    FlattenSeq([i \in 1..Len(steps) |->
        IF steps[i].do = "send" /\ steps[i].conn = c THEN steps[i].data ELSE <<>>])

NotPass(t) == t # <<"pass">>

\* What a request that succeeds has sent on each connection is everything it
\* had to say there, once and in order, however little the kernel took at a
\* time (sendraw(), buffer.c:150).
RequestSent ==
    cl.result = "ok" =>
        IF cl.request.kind = "http"
        THEN \A c \in 1..(cl.request.redirects + 1) :
                net[c].out = Sends(trequest(c, IF c = 1 THEN cl.asked ELSE tredirect(cl.asked, "http")), c)
        ELSE \A c \in 1..2 :
                LET said == SelectSeq(Sends(Program(cl.asked), c), NotPass)
                IN IF c = 1 /\ <<"pass">> \in {net[1].out[i] : i \in 1..Len(net[1].out)}
                   THEN Len(net[1].out) = Len(said) + 2
                   ELSE net[c].out = said

\* However a request ends, in a result or in the error that protect() makes of
\* an exception, its sockets are closed, but for those of an https connection
\* that was never secured, which http.lua's finalizer cannot close yet (the
\* collector closes them).
SocketsClosed ==
    cl.result \in {"ok", "error"} =>
        \A c \in Conns : sock[c].fd = "open" =>
            cl.request.scheme = "https" /\ sock[c].tls # "connected"

\* A request ends: nothing it asks of a connection waits without a time limit
\* (settimeout() on every connection, again after ssl.wrap()), whatever its
\* peer does or does not do. Three ways are left for it never to end: a peer
\* that goes on sending for ever, header after header or 100 after 100
\* (http.lua:356), addresses that are looked up for ever (inet.c:408), and the
\* alert with which a secured connection is closed, which its peer does not
\* read (ssl.c:90).
RequestEnds ==
    \/ <>(cl.result # "running")
    \/ []<><<\E c \in Conns : PeerSends(c)>>_vars
    \/ <>[](op.pc = "lookup")
    \/ <>[](op.pc \notin WAITFDS /\ \E c \in Conns : Stuck(c))
=============================================================================
