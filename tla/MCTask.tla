-------------------------------- MODULE MCTask --------------------------------
(* Three tasks on a rendezvous channel and on one with a buffer: sends and  *)
(* receives that wait, and a choice between the two channels, or between    *)
(* the two ends of the first.                                               *)
EXTENDS Task, TLC

CONSTANTS t1, t2, t3, c0, c1

MCTask == {t1, t2, t3}
MCChannel == {c0, c1}
MCSize == (c0 :> 0) @@ (c1 :> 2)

Send(c) == [c |-> c, op |-> "SEND"]
Recv(c) == [c |-> c, op |-> "RECV"]
Nop(c) == [c |-> c, op |-> "NOP"]

MCAltArray ==
    {<<Send(c)>> : c \in MCChannel} \cup {<<Recv(c)>> : c \in MCChannel} \cup
    {<<Recv(c0), Recv(c1)>>, <<Send(c0), Recv(c0)>>, <<Nop(c1), Send(c1), Recv(c0)>>}

Symmetry == Permutations(MCTask)
=============================================================================
