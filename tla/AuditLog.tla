------------------------------- MODULE AuditLog -------------------------------
(***************************************************************************)
(* The audit log of teliva.c: every call of an app to a function with an   *)
(* effect (opening a file, a socket call, reading a key) is noted in a     *)
(* ring of NAUDIT slots, and the "recent events" screen of the big picture *)
(* lists the ring and lets the user pick one of its functions to edit.     *)
(* An event is the name of the calling function: the text of its line is   *)
(* formatting.  Heights are the values LINES - 1 may have: the terminal    *)
(* has any size and may be resized between two keys.                       *)
(***************************************************************************)
EXTENDS Integers, Sequences

CONSTANTS Func, NoFunc, NAUDIT, Heights

ASSUME AuditAssumption ==
    /\ NAUDIT \in Nat /\ NAUDIT >= 2
    /\ Heights \subseteq Nat \ {0}
    /\ NoFunc \notin Func

VARIABLES
    audit_event,   \* the slots; a slot never written is all zeroes: NoFunc
    naudit,        \* the slot the next event goes to
    iaudit,        \* the slot of the first row when the ring has wrapped
    screen,        \* "program" runs Lua code, "events" is events_view()
    cursor,        \* the local of events_view()
    definition     \* what events_view() last returned

vars == <<audit_event, naudit, iaudit, screen, cursor, definition>>
ring == <<audit_event, naudit, iaudit>>

Slots == 0 .. NAUDIT - 1

TypeOK ==
    /\ audit_event \in [Slots -> Func \cup {NoFunc}]
    /\ naudit \in Slots
    /\ iaudit \in Slots
    /\ screen \in {"program", "events"}
    /\ cursor \in Slots
    /\ definition \in Func \cup {NoFunc}

-----------------------------------------------------------------------------
\* Mutant: the index runs one past the last slot.
WrappedLate(i) == IF i > NAUDIT THEN 0 ELSE i

Wrapped(i) == IF i >= NAUDIT THEN 0 ELSE i

\* A new process image: the statics of teliva.c are zero.
Init ==
    /\ audit_event = [i \in Slots |-> NoFunc]
    /\ naudit = 0
    /\ iaudit = 0
    /\ screen = "program"
    /\ cursor = 0
    /\ definition = NoFunc

\* Mutant: a full ring does not give up its oldest row.
AppendWithoutDrop(name) ==
    /\ screen = "program"
    /\ audit_event' = [audit_event EXCEPT ![naudit] = name]
    /\ naudit' = Wrapped(naudit + 1)
    /\ UNCHANGED <<iaudit, screen, cursor, definition>>

\* The caller's name is known: a call without one is not recorded.
AppendToAuditLog(name) ==
    /\ screen = "program"
    /\ audit_event' = [audit_event EXCEPT ![naudit] = name]
    /\ naudit' = Wrapped(naudit + 1)
    /\ iaudit' = IF naudit' = iaudit THEN Wrapped(iaudit + 1) ELSE iaudit
    /\ UNCHANGED <<screen, cursor, definition>>

\* ^e in the big picture.
EnterEventsView ==
    /\ screen = "program"
    /\ screen' = "events"
    /\ cursor' = 0
    /\ UNCHANGED <<ring, definition>>

KeyUp ==
    /\ screen = "events"
    /\ cursor > 0
    /\ cursor' = cursor - 1
    /\ UNCHANGED <<ring, screen, definition>>

\* Mutant: the highlight may move past the last event.
KeyDownPastLast ==
    /\ screen = "events"
    /\ cursor < naudit
    /\ cursor' = cursor + 1
    /\ UNCHANGED <<ring, screen, definition>>

KeyDown ==
    /\ screen = "events"
    /\ cursor < naudit - 1
    /\ cursor' = cursor + 1
    /\ UNCHANGED <<ring, screen, definition>>

\* Enter: the function is edited, and the big picture may be entered again
\* with the same ring, after code that the reload runs.
Enter ==
    /\ screen = "events"
    /\ audit_event[cursor] # NoFunc
    /\ definition' = audit_event[cursor]
    /\ screen' = "program"
    /\ UNCHANGED <<ring, cursor>>

\* Leaving developer mode replaces the process: execv() in developer_mode().
\* ^x in the events view comes here too, since the big picture returns on it.
Restart ==
    /\ audit_event' = [i \in Slots |-> NoFunc]
    /\ naudit' = 0
    /\ iaudit' = 0
    /\ screen' = "program"
    /\ cursor' = 0
    /\ definition' = NoFunc

Next ==
    \/ \E name \in Func : AppendToAuditLog(name)
    \/ EnterEventsView
    \/ KeyUp
    \/ KeyDown
    \/ Enter
    \/ Restart

Spec == Init /\ [][Next]_vars

-----------------------------------------------------------------------------
\* render_events() in a terminal of h + 1 lines: the slot of row i, and the
\* rows it writes (the last three of them fall on the menu or below it).
SlotOfRowUnrotated(i) == i   \* mutant: rows in the order of the slots

SlotOfRow(i) ==
    IF iaudit = 0 THEN i
    ELSE IF iaudit + i >= NAUDIT THEN iaudit + i - NAUDIT ELSE iaudit + i

RowCount(h) ==
    LET n == IF iaudit = 0 THEN naudit ELSE NAUDIT
    IN  IF n <= h THEN n ELSE h

Rows(h) == [k \in 1 .. RowCount(h) |-> audit_event[SlotOfRow(k - 1)]]

-----------------------------------------------------------------------------
(* Properties *)

\* The events written last, the latest in the slot before naudit, and the one
\* before them, which the next event overwrites.
EventCount == IF iaudit = 0 THEN naudit ELSE NAUDIT - 1

EventSlot(k) ==
    LET i == naudit - EventCount + k - 1 IN IF i < 0 THEN i + NAUDIT ELSE i

Events == [k \in 1 .. EventCount |-> audit_event[EventSlot(k)]]

Spare ==
    IF audit_event[naudit] = NoFunc THEN <<>> ELSE <<audit_event[naudit]>>

Recent == INSTANCE RecentLog WITH
            Event <- Func, Capacity <- NAUDIT - 1,
            log <- Events, dropped <- Spare,
            rows <- [h \in Heights |-> Rows(h)]

\* Through any number of turns of append_to_audit_log()'s indices, the events
\* screen of every height shows the log of RecentLog: the oldest rows of the
\* last NAUDIT - 1 events in order, and, on a terminal higher than that, below
\* them in some states the row of the event before, which is out of order.
RecentEvents == Recent!Spec

\* Enter on the highlight finds a function whenever anything was recorded, so
\* events_view() returns NULL ("go back") on an empty log only.
EnterFindsAnEvent ==
    screen = "events" =>
        \A h \in Heights : audit_event[cursor] = NoFunc <=> Rows(h) = <<>>

\* How the two indices relate: they grow together once the ring has wrapped,
\* every slot that can be shown has been written, and none is before its turn.
RingInv ==
    /\ iaudit = 0 \/ iaudit = naudit + 1
    /\ \A i \in Slots : iaudit # 0 \/ i < naudit => audit_event[i] # NoFunc
    /\ iaudit = 0 /\ naudit < NAUDIT - 1 =>
          \A i \in Slots : i >= naudit => audit_event[i] = NoFunc
    /\ screen = "events" => cursor = 0 \/ cursor < naudit
=============================================================================
