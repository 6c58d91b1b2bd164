------------------------------- MODULE Streams -------------------------------
(***************************************************************************)
(* What channels promise: each is a stream of messages that is only added  *)
(* to at its end, and received in that order, at most Size[c] messages     *)
(* behind.                                                                 *)
(***************************************************************************)
EXTENDS Integers, Sequences

CONSTANTS Channel, Message, Size

VARIABLES
    stream,   \* every message sent on the channel
    out       \* those received so far

Init ==
    /\ stream = [c \in Channel |-> <<>>]
    /\ out = [c \in Channel |-> <<>>]

Sent == {m \in Message : \E c \in Channel : \E k \in DOMAIN stream[c] : stream[c][k] = m}

\* A message goes into one stream, once.
Send(c) == \E m \in Message \ Sent : stream' = [stream EXCEPT ![c] = Append(@, m)]

\* What is received may be what is sent in the same step.
Receive(c) ==
    /\ Len(out[c]) < Len(stream'[c])
    /\ out' = [out EXCEPT ![c] = SubSeq(stream'[c], 1, Len(@) + 1)]

Next ==
    \E c \in Channel :
        /\ \/ Send(c) /\ UNCHANGED out
           \/ UNCHANGED stream /\ Receive(c)
           \/ Send(c) /\ Receive(c)
        /\ Len(stream'[c]) <= Len(out'[c]) + Size[c]

Spec == Init /\ [][Next]_<<stream, out>>
=============================================================================
