-------------------------------- MODULE Image --------------------------------
(***************************************************************************)
(* The image of a program, in memory and on disk.  load_tlv() reads the    *)
(* file into teliva_program; the editor and the recent-changes view change *)
(* the table and then save_tlv() writes all of it to a new file and        *)
(* renames it over the image.  The process may end between any two steps:  *)
(* a crash, a kill, or the execv() that leaves developer mode.             *)
(***************************************************************************)
EXTENDS History

CONSTANT MaxHistory   \* bound on the number of changes to an image

ASSUME ImageAssumption == MaxHistory \in Nat

VARIABLES
    teliva_program,   \* the table, in memory
    image,            \* the file
    unsaved           \* a change was made and save_tlv() has not run yet

vars == <<teliva_program, image, unsaved>>

TypeOK ==
    /\ WellFormed(teliva_program)
    /\ WellFormed(image)
    /\ unsaved \in BOOLEAN

\* load_tlv()
Init ==
    /\ WellFormed(image)
    /\ Len(image) <= MaxHistory
    /\ teliva_program = image
    /\ unsaved = FALSE

\* load_editor_buffer_to_current_definition_in_image(), up to save_tlv()
Update(name, contents) ==
    /\ ~ unsaved
    /\ Len(UpdateDefinition(teliva_program, name, contents)) <= MaxHistory
    /\ teliva_program' = UpdateDefinition(teliva_program, name, contents)
    /\ unsaved' = TRUE
    /\ UNCHANGED image

\* Mutant: undo cuts the history off.
UndoByCutting(cursor) ==
    /\ ~ unsaved
    /\ cursor < Len(teliva_program)
    /\ teliva_program' = SubSeq(teliva_program, 1, cursor)
    /\ unsaved' = TRUE
    /\ UNCHANGED image

\* ^u in recent_changes_view(): not on the last change
UndoAfter(cursor) ==
    /\ ~ unsaved
    /\ cursor < Len(teliva_program)
    /\ Len(teliva_program) < MaxHistory
    /\ teliva_program' = AddUndoEvent(teliva_program, cursor)
    /\ unsaved' = TRUE
    /\ UNCHANGED image

\* ^e in recent_changes_view(), the editor having been left
EditNote(cursor, note) ==
    /\ ~ unsaved
    /\ teliva_program' = SetNote(teliva_program, cursor, note)
    /\ unsaved' = TRUE
    /\ UNCHANGED image

SaveTlv ==
    /\ unsaved
    /\ image' = teliva_program
    /\ unsaved' = FALSE
    /\ UNCHANGED teliva_program

\* Mutant: what was not saved comes back.
RestartWithTable == unsaved' = FALSE /\ UNCHANGED <<teliva_program, image>>

\* The process ends, and a new one loads the image.
Restart ==
    /\ teliva_program' = image
    /\ unsaved' = FALSE
    /\ UNCHANGED image

Next ==
    \/ \E name \in Name, contents \in Contents : Update(name, contents)
    \/ \E cursor \in 1 .. Len(teliva_program) : UndoAfter(cursor)
    \/ \E cursor \in 1 .. Len(teliva_program), note \in Note : EditNote(cursor, note)
    \/ SaveTlv
    \/ Restart

Spec == Init /\ [][Next]_vars

-----------------------------------------------------------------------------
(* Properties *)

Store == INSTANCE VersionedStore WITH
            versions <- [k \in 1 .. Len(image) + 1 |-> SnapshotAt(image, k - 1)]

\* The file keeps every version of the program: each save adds the version
\* that the user made or brought back, whatever undos the history holds, and
\* notes, unmodified contents, crashes and restarts add none and change none.
KeepsVersions == Store!Spec

\* Memory is at most one change ahead of the file, and agrees with it on all
\* the changes the file has.
Shape(p) == [i \in DOMAIN p |-> <<p[i].name, p[i].contents, p[i].to>>]

AtMostOneAhead ==
    /\ Len(image) <= Len(teliva_program)
    /\ Len(teliva_program) <= Len(image) + (IF unsaved THEN 1 ELSE 0)
    /\ Shape(SubSeq(teliva_program, 1, Len(image))) = Shape(image)

\* A saved history is never rewritten: only notes of old entries may change.
AppendOnly ==
    [][/\ Len(image') \in {Len(image), Len(image) + 1}
       /\ Shape(SubSeq(image', 1, Len(image))) = Shape(image)]_vars
=============================================================================
