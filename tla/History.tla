------------------------------- MODULE History -------------------------------
(***************************************************************************)
(* The table teliva_program: a program is the sequence of every change     *)
(* ever made to it.  An entry either gives a name new contents or undoes   *)
(* every change after an earlier entry; both may carry a note.  The        *)
(* operators here are the scans of teliva.c over that table.               *)
(***************************************************************************)
EXTENDS Integers, Sequences

CONSTANTS
    Name,       \* the names definitions can have
    Contents,   \* the texts they can have
    Missing,    \* look_up_definition() found nothing
    Note,       \* what __teliva_note can be
    NoNote,     \* the key is absent
    Undo        \* the key __teliva_undo, where a definition has its name

ASSUME HistoryAssumption ==
    /\ Missing \notin Contents
    /\ Undo \notin Name
    /\ NoNote \notin Note

\* "to" is the value of __teliva_undo; the field a kind lacks is 0 or Missing.
Definition(name, contents) ==
    [name |-> name, contents |-> contents, to |-> 0, note |-> NoNote]

UndoTo(cursor) ==
    [name |-> Undo, contents |-> Missing, to |-> cursor, note |-> NoNote]

Entry == [name : Name \cup {Undo}, contents : Contents \cup {Missing},
          to : Nat, note : Note \cup {NoNote}]

\* An undo leads back: the assert(next_i < i) of every scan.
WellFormed(p) ==
    /\ p \in Seq(Entry)
    /\ \A i \in DOMAIN p :
          IF p[i].name = Undo THEN p[i].to \in 1 .. i - 1
                              ELSE p[i].contents \in Contents

\* live[i] is the set of entries that a scan visits from entry i down: on an
\* undo it goes on at the entry that is undone to.
LiveFrom(p) ==
    LET live[i \in 0 .. Len(p)] ==
          IF i = 0 THEN {}
          ELSE IF p[i].name = Undo THEN live[p[i].to]
          ELSE live[i - 1] \cup {i}
    IN  live

Live(p) == LiveFrom(p)[Len(p)]

\* The scan goes down, so the first entry it finds is the latest one.
Bindings(p, name) == {i \in Live(p) : p[i].name = name}

LookUp(p, name) ==
    IF Bindings(p, name) = {} THEN Missing
    ELSE LET i == CHOOSE i \in Bindings(p, name) :
                     \A j \in Bindings(p, name) : j <= i
         IN  p[i].contents

\* The whole program as a scan sees it, now and after the first k changes.
Snapshot(p) == [name \in Name |-> LookUp(p, name)]

SnapshotAt(p, k) == Snapshot(SubSeq(p, 1, k))

-----------------------------------------------------------------------------
\* Mutant: every save of the editor makes an entry.
UpdateAlways(p, name, contents) == Append(p, Definition(name, contents))

\* update_definition(): contents that are unmodified make no entry.
UpdateDefinition(p, name, contents) ==
    IF LookUp(p, name) = contents THEN p ELSE Append(p, Definition(name, contents))

\* Mutant: the undo takes the entry under the cursor back as well.
AddUndoBelow(p, cursor) == Append(p, UndoTo(cursor - 1))

\* add_undo_event()
AddUndoEvent(p, cursor) == Append(p, UndoTo(cursor))

\* load_note_from_editor_buffer()
SetNote(p, cursor, note) == [p EXCEPT ![cursor].note = note]
=============================================================================
