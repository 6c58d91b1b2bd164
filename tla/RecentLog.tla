------------------------------ MODULE RecentLog ------------------------------
(***************************************************************************)
(* What the "recent events" screen shows.  The log is the last Capacity    *)
(* events the running app caused, oldest first; a restart of the app (a    *)
(* new process) starts from an empty one.  A screen of h rows shows the    *)
(* first, that is the OLDEST, h events of the log: nothing scrolls.  A     *)
(* screen with more rows than the log has events may show one row more,    *)
(* below the latest event: the event the log gave up last, out of order.   *)
(***************************************************************************)
EXTENDS Naturals, Sequences

CONSTANTS Event, Capacity,   \* Capacity is at least 1
          Heights            \* the numbers of rows a screen may have

VARIABLES log, dropped, rows

\* The last Capacity elements of a sequence that is at most one too long.
Trimmed(s) == IF Len(s) > Capacity THEN Tail(s) ELSE s

Top(s, h) == [k \in 1 .. (IF Len(s) <= h THEN Len(s) ELSE h) |-> s[k]]

Screen(s) == [h \in Heights |-> Top(s, h)]

ShowsLog == rows = Screen(log) \/ rows = Screen(log \o dropped)

Init == log = <<>> /\ dropped = <<>> /\ ShowsLog

Record(e) ==
    /\ log' = Trimmed(Append(log, e))
    /\ dropped' = IF Len(log) = Capacity THEN <<Head(log)>> ELSE dropped

Restart == log' = <<>> /\ dropped' = <<>>

Next == (Restart \/ \E e \in Event : Record(e)) /\ ShowsLog'

Spec == Init /\ [][Next]_<<log, dropped, rows>>
=============================================================================
