------------------------------- MODULE DevMode -------------------------------
(***************************************************************************)
(* A user and the Teliva processes of one image: the app runs, is left for *)
(* developer mode, definitions and notes are edited, changes undone, and   *)
(* the process replaces itself with a new one (execv) to run the app       *)
(* again.  Three files outlive a process: the image (module Image), the    *)
(* editor buffer through which every text goes, and the editor state that  *)
(* says what to show when developer mode is entered again.                 *)
(*                                                                         *)
(* The process may be killed between any two steps.  Another image may run *)
(* in the same directory, before it and beside it: it shares the last two  *)
(* files, and each of its writes may come between any two steps.           *)
(***************************************************************************)
EXTENDS History

CONSTANTS
    MaxHistory,   \* bound on the number of changes to the image
    MaxPos,       \* bound on the position of the cursor in a text
    Doc,          \* the names that start with "doc:"; Lua never loads them
    DocMain,      \* "doc:main", which replaces the big picture
    Typed,        \* the texts a user types under a name
    TypedNotes,   \* the texts a user types as a note
    Blank,        \* the empty text
    Broken,       \* the texts whose evaluation raises an error
    Binds,        \* the globals that evaluating a text sets
    Library,      \* the names whose globals exist before anything is loaded
    Builtin,      \* what the libraries define a global as
    Foreign,      \* a text that another image writes
    NoName,       \* Current_definition is empty
    NoState       \* there is no editor state, or it is of another image

ASSUME DevModeAssumption ==
    /\ MaxHistory \in Nat /\ MaxPos \in Nat
    /\ Doc \subseteq Name /\ DocMain \in Doc
    /\ Typed \in [Name -> SUBSET Contents] /\ TypedNotes \subseteq Note
    /\ Blank \in Contents \cap Note /\ Foreign \in Contents \cap Note
    /\ Binds \in [Contents -> SUBSET Name] /\ Library \subseteq Name
    /\ Builtin \notin Contents \cup {Missing}
    /\ NoName \notin Name
    /\ NoState \notin [definition : Name, pos : 0 .. MaxPos]
    /\ NoState \notin [definition : Name, text : Contents, pos : 0 .. MaxPos, kept : BOOLEAN]

VARIABLES
    teliva_program, image, unsaved,   \* as in Image
    editor_buffer,        \* the file teliva_editor_buffer
    editor_state,         \* the file teliva_editor_state
    phase,                \* what the process is doing
    Current_definition,   \* NoName, or the name being edited
    rows,                 \* the text in the editor
    pos,                  \* the position of its cursor
    leave,                \* the key that is taking the user out of the editor
    new_contents,         \* what was last read from the buffer to be saved
    restored,             \* the editor was opened by restore_editor_view()
    messages,             \* error messages that the loop around resumeEdit() has
                          \* on the Lua stack; 0 outside of it, 2 for any more
    cursor,               \* locals of recent_changes_view()
    history_array_size,
    loaded,               \* what each function's global was loaded from
    left,                 \* history: how the user last left a definition, and
                          \* whether the editor state of that ^x is still there
    exposed               \* history: the names, and NoName for a note, whose
                          \* text another image wrote over while it was in the
                          \* buffer

file == <<editor_buffer, editor_state>>
history == <<teliva_program, image, unsaved>>
editor == <<Current_definition, rows, pos, leave, new_contents, restored, messages>>
recent == <<cursor, history_array_size>>
ghost == <<left, exposed>>
vars == <<history, file, phase, editor, recent, loaded, ghost>>

Im == INSTANCE Image

AnyText == Contents \cup Note
Keys == {"^x", "^b", "^g"}

\* Phases in which a text is on its way through the buffer, into the editor or
\* out of it.
Passing == {"opening", "quitting", "leaving"}
PassingNote == {"opening_note", "quitting_note", "leaving_note"}

Phases == {"exited", "starting", "app", "big_picture", "edit", "saving", "reloading", "prompt",
           "recent", "note", "saving_note", "saving_undo"} \cup Passing \cup PassingNote

TypeOK ==
    /\ Im!TypeOK
    /\ editor_buffer \in AnyText \cup {Missing}
    /\ editor_state \in [definition : Name, pos : 0 .. MaxPos] \cup {NoState}
    /\ phase \in Phases
    /\ Current_definition \in Name \cup {NoName}
    /\ rows \in AnyText
    /\ pos \in 0 .. MaxPos
    /\ leave \in Keys
    /\ new_contents \in Contents
    /\ restored \in BOOLEAN
    /\ messages \in 0 .. 2
    /\ cursor \in 0 .. MaxHistory
    /\ history_array_size \in 0 .. MaxHistory
    /\ loaded \in [Name -> Contents \cup {Missing, Builtin}]
    /\ left \in [definition : Name, text : Contents, pos : 0 .. MaxPos, kept : BOOLEAN]
                  \cup {NoState}
    /\ exposed \subseteq Name \cup {NoName}

-----------------------------------------------------------------------------
(* Loading *)

Fresh == [name \in Name |-> IF name \in Library THEN Builtin ELSE Missing]

\* Mutant: an older binding trumps a newer one.
LoadEntryAnyway(p, i, s) ==
    IF i \notin Live(p) \/ s.failed \/ p[i].name \in Doc THEN s
    ELSE IF p[i].contents \in Broken THEN [s EXCEPT !.failed = TRUE]
    ELSE [s EXCEPT !.globals = [name \in Name |->
             IF name \in Binds[p[i].contents] THEN p[i].contents ELSE s.globals[name]]]

\* An entry of load_definitions(): passed over when a global of its name exists,
\* whoever made it: a library, a later entry, or the text of another name.
LoadEntry(p, i, s) ==
    IF i \notin Live(p) \/ s.failed \/ p[i].name \in Doc \/ s.globals[p[i].name] # Missing THEN s
    ELSE IF p[i].contents \in Broken THEN [s EXCEPT !.failed = TRUE]
    ELSE [s EXCEPT !.globals = [name \in Name |->
             IF name \in Binds[p[i].contents] THEN p[i].contents ELSE s.globals[name]]]

\* The loop goes down from the last entry; load[k] is its state after k entries.
Load(p) ==
    LET load[k \in 0 .. Len(p)] ==
          IF k = 0 THEN [globals |-> Fresh, failed |-> FALSE]
          ELSE LoadEntry(p, Len(p) + 1 - k, load[k - 1])
    IN  load

LoadFails(p) == Load(p)[Len(p)].failed

LoadDefinitions(p) == Load(p)[Len(p)].globals

-----------------------------------------------------------------------------
(* The editor *)

\* save_to_current_definition_and_editor_buffer()
BufferOf(name) ==
    IF LookUp(teliva_program, name) = Missing THEN Blank
    ELSE LookUp(teliva_program, name)

\* Mutant: the cursor is not restored.
OpenEditorAtStart(name, position) ==
    /\ Current_definition' = name
    /\ editor_buffer' = BufferOf(name)
    /\ rows' = Blank
    /\ pos' = 0
    /\ phase' = "opening"
    /\ UNCHANGED <<editor_state, leave, new_contents>>

\* save_to_current_definition_and_editor_buffer(), and the start of what comes
\* after it: edit(), editFrom() or the second half of editorGo().
OpenEditor(name, position) ==
    /\ Current_definition' = name
    /\ editor_buffer' = BufferOf(name)
    /\ rows' = Blank
    /\ pos' = position
    /\ phase' = "opening"
    /\ UNCHANGED <<editor_state, leave, new_contents>>

\* The next edit() starts from initEditor(): what is in the editor is gone.
CloseEditor ==
    /\ rows' = Blank
    /\ pos' = 0
    /\ leave' = "^x"
    /\ new_contents' = Blank

\* big_picture_view()
BigPicture ==
    \/ /\ LookUp(teliva_program, DocMain) # Missing
       /\ OpenEditor(DocMain, 0)
       /\ restored' = FALSE
    \/ /\ LookUp(teliva_program, DocMain) = Missing
       /\ phase' = "big_picture"
       /\ CloseEditor
       /\ restored' = FALSE
       /\ UNCHANGED <<file, Current_definition>>

\* developer_mode(): the editor as it was left, or the big picture
DeveloperMode ==
    \/ /\ editor_state # NoState
       /\ OpenEditor(editor_state.definition, editor_state.pos)
       /\ restored' = TRUE
    \/ /\ editor_state = NoState
       /\ BigPicture

-----------------------------------------------------------------------------
(* The process *)

\* An image with no definition at all is left out: it has no main() to run.
Init ==
    /\ Im!Init
    /\ image # <<>>
    /\ editor_buffer = Missing
    /\ editor_state = NoState
    /\ phase = "exited"
    /\ Current_definition = NoName
    /\ rows = Blank
    /\ pos = 0
    /\ leave = "^x"
    /\ new_contents = Blank
    /\ restored = FALSE
    /\ messages = 0
    /\ cursor = 0
    /\ history_array_size = 0
    /\ loaded = Fresh
    /\ left = NoState
    /\ exposed = {}

\* main() up to the first line of the app: load_image() reads the image, loads
\* its definitions and runs its tests, and any failure leads to developer mode.
Start ==
    /\ phase \in {"exited", "starting"}
    /\ \/ /\ ~ LoadFails(teliva_program)
          /\ loaded' = LoadDefinitions(teliva_program)
          /\ phase' = "app"
          /\ UNCHANGED <<file, editor>>
       \/ /\ LoadFails(teliva_program)
          /\ DeveloperMode
          /\ UNCHANGED <<loaded, messages>>
    /\ UNCHANGED <<history, recent, ghost>>

\* ^u in the app, or an error in a test or in the app
LeaveApp ==
    /\ phase = "app"
    /\ DeveloperMode
    /\ loaded' = Fresh   \* no later step looks at the globals
    /\ UNCHANGED <<history, messages, recent, ghost>>

\* What a process has in memory goes with it.
NewProcess ==
    /\ Im!Restart
    /\ Current_definition' = NoName
    /\ rows' = Blank
    /\ pos' = 0
    /\ leave' = "^x"
    /\ new_contents' = Blank
    /\ restored' = FALSE
    /\ messages' = 0
    /\ cursor' = 0
    /\ history_array_size' = 0
    /\ loaded' = Fresh

\* The editor state of the last ^x is gone.
StateLost(l) == IF l = NoState THEN NoState ELSE [l EXCEPT !.pos = 0, !.kept = FALSE]

\* ^x in the app, confirmed
Exit ==
    /\ phase = "app"
    /\ NewProcess
    /\ editor_state' = NoState
    /\ phase' = "exited"
    /\ left' = StateLost(left)
    /\ UNCHANGED <<editor_buffer, exposed>>

\* A kill, ^c in the editor, or the return of the app's main().
Crash ==
    /\ phase \notin {"exited", "starting"}
    /\ NewProcess
    /\ phase' = "exited"
    /\ left' = IF phase \in {"quitting", "leaving", "saving"} THEN NoState ELSE left
    /\ UNCHANGED <<file, exposed>>

\* execv() at the end of developer_mode()
Run ==
    /\ NewProcess
    /\ phase' = "starting"
    /\ UNCHANGED file

\* Another image that runs in this directory writes the buffer,
OtherBuffer ==
    /\ editor_buffer' = Foreign
    /\ exposed' = exposed \cup (IF phase \in Passing THEN {Current_definition} ELSE {})
                          \cup (IF phase \in PassingNote THEN {NoName} ELSE {})
    /\ UNCHANGED <<history, editor_state, phase, editor, recent, loaded, left>>

\* or the state.
OtherState ==
    /\ editor_state' = NoState
    /\ left' = StateLost(left)
    /\ UNCHANGED <<history, editor_buffer, phase, editor, recent, loaded, exposed>>

-----------------------------------------------------------------------------
(* The big picture *)

\* Enter, ^g, or ^e and Enter
EditDefinition(name) ==
    /\ phase = "big_picture"
    /\ OpenEditor(name, 0)
    /\ restored' = FALSE
    /\ UNCHANGED <<history, messages, recent, loaded, ghost>>

RunFromBigPicture ==
    /\ phase = "big_picture"
    /\ Run
    /\ UNCHANGED ghost

EnterRecentChanges ==
    /\ phase = "big_picture"
    /\ phase' = "recent"
    /\ history_array_size' = Len(teliva_program)
    /\ cursor' = Len(teliva_program)
    /\ UNCHANGED <<history, file, editor, loaded, ghost>>

-----------------------------------------------------------------------------
(* The editor of a definition *)

\* editorOpen(): the editor shows what the buffer holds now.
ReadBuffer ==
    /\ phase = "opening"
    /\ rows' = editor_buffer
    /\ phase' = "edit"
    /\ UNCHANGED <<history, file, Current_definition, pos, leave, new_contents, restored, messages,
                   recent, loaded, ghost>>

Type(text, position) ==
    /\ phase = "edit"
    /\ rows' = text
    /\ pos' = position
    /\ UNCHANGED <<history, file, phase, Current_definition, leave, new_contents, restored,
                   messages, recent, loaded, ghost>>

\* editorSaveToDisk()
LeaveEditor(key) ==
    /\ phase = "edit"
    /\ editor_buffer' = rows
    /\ leave' = key
    /\ phase' = IF key = "^x" THEN "quitting" ELSE "leaving"
    /\ left' = [definition |-> Current_definition, text |-> rows, pos |-> 0, kept |-> FALSE]
    /\ UNCHANGED <<history, editor_state, Current_definition, rows, pos, new_contents, restored,
                   messages, recent, loaded, exposed>>

\* save_editor_state(), after ^x
SaveEditorState ==
    /\ phase = "quitting"
    /\ editor_state' = [definition |-> Current_definition, pos |-> pos]
    /\ phase' = "leaving"
    /\ left' = [left EXCEPT !.pos = pos, !.kept = TRUE]
    /\ UNCHANGED <<history, editor_buffer, editor, recent, loaded, exposed>>

\* Mutant: a text that does not load is not saved.
UpdateUnlessBroken ==
    /\ phase = "leaving"
    /\ new_contents' = editor_buffer
    /\ IF editor_buffer \in Broken
       THEN /\ phase' = "reloading"
            /\ UNCHANGED history
       ELSE /\ Im!Update(Current_definition, editor_buffer)
            /\ phase' = "saving"
    /\ UNCHANGED <<file, Current_definition, rows, pos, leave, restored, messages, recent, loaded,
                   ghost>>

\* read_editor_buffer() and update_definition() with what it read
UpdateFromBuffer ==
    /\ phase = "leaving"
    /\ new_contents' = editor_buffer
    /\ Im!Update(Current_definition, editor_buffer)
    /\ phase' = "saving"
    /\ UNCHANGED <<file, Current_definition, rows, pos, leave, restored, messages, recent, loaded,
                   ghost>>

SaveDefinition ==
    /\ phase = "saving"
    /\ Im!SaveTlv
    /\ phase' = "reloading"
    /\ UNCHANGED <<file, editor, recent, loaded, ghost>>

\* A text is evaluated, but for a document that was left at once: inside the
\* loop around resumeEdit() nothing looks at the name any more.
Evaluates == leave = "^g" \/ messages > 0 \/ Current_definition \notin Doc

Fails == Evaluates /\ new_contents \in Broken

\* editorGo() ignores the status, and leaves the message where it is.
GoOn ==
    /\ leave = "^g"
    /\ phase' = "prompt"
    /\ messages' = IF Fails /\ messages > 0 THEN 2 ELSE messages
    /\ new_contents' = Blank
    /\ UNCHANGED <<history, file, Current_definition, rows, pos, leave, restored, recent, loaded>>

\* edit_current_definition() and restore_editor_view() do not let go of a
\* definition that is broken.
ResumeEdit ==
    /\ leave # "^g"
    /\ Fails
    /\ phase' = "edit"
    /\ messages' = IF messages = 0 THEN 1 ELSE messages
    /\ new_contents' = Blank
    /\ UNCHANGED <<history, file, Current_definition, rows, pos, leave, restored, recent, loaded>>

\* Their lua_gettop() is compared with what it was before the loop.
LuaStackBalanced == messages < 2

BackToBigPicture ==
    /\ leave = "^b"
    /\ ~ Fails
    /\ LuaStackBalanced
    /\ IF restored THEN BigPicture
       ELSE /\ phase' = "big_picture"
            /\ CloseEditor
            /\ UNCHANGED <<file, Current_definition, restored>>
    /\ messages' = 0
    /\ UNCHANGED <<history, recent, loaded>>

RunFromEditor ==
    /\ leave = "^x"
    /\ ~ Fails
    /\ LuaStackBalanced
    /\ Run

ExitOnLeak ==
    /\ leave # "^g"
    /\ ~ Fails
    /\ ~ LuaStackBalanced
    /\ NewProcess
    /\ phase' = "exited"
    /\ UNCHANGED file

Reload ==
    /\ phase = "reloading"
    /\ GoOn \/ ResumeEdit \/ BackToBigPicture \/ RunFromEditor \/ ExitOnLeak
    /\ UNCHANGED ghost

\* The prompt of editorGo(): Enter, or ^x
GoTo(name) ==
    /\ phase = "prompt"
    /\ OpenEditor(name, 0)
    /\ UNCHANGED <<history, restored, messages, recent, loaded, ghost>>

CancelGo ==
    /\ phase = "prompt"
    /\ phase' = "edit"
    /\ UNCHANGED <<history, file, editor, recent, loaded, ghost>>

-----------------------------------------------------------------------------
(* Recent changes *)

\* Mutant: the cursor may leave the list at its end.
OlderThanOldest ==
    /\ phase = "recent"
    /\ cursor > 0
    /\ cursor' = cursor - 1
    /\ UNCHANGED <<history, file, phase, editor, history_array_size, loaded, ghost>>

Older ==
    /\ phase = "recent"
    /\ cursor > 1
    /\ cursor' = cursor - 1
    /\ UNCHANGED <<history, file, phase, editor, history_array_size, loaded, ghost>>

Newer ==
    /\ phase = "recent"
    /\ cursor < history_array_size
    /\ cursor' = cursor + 1
    /\ UNCHANGED <<history, file, phase, editor, history_array_size, loaded, ghost>>

UndoEverythingAfter ==
    /\ phase = "recent"
    /\ cursor < history_array_size
    /\ Im!UndoAfter(cursor)
    /\ phase' = "saving_undo"
    /\ left' = NoState
    /\ UNCHANGED <<file, editor, recent, loaded, exposed>>

SaveUndo ==
    /\ phase = "saving_undo"
    /\ Im!SaveTlv
    /\ phase' = "recent"
    /\ UNCHANGED <<file, editor, recent, loaded, ghost>>

\* Mutant: a missing note leaves the buffer as it was.
EditNoteInOldBuffer ==
    /\ phase = "recent"
    /\ editor_buffer' = IF teliva_program[cursor].note = NoNote THEN editor_buffer
                        ELSE teliva_program[cursor].note
    /\ rows' = Blank
    /\ pos' = 0
    /\ phase' = "opening_note"
    /\ UNCHANGED <<history, editor_state, Current_definition, leave, new_contents, restored,
                   messages, recent, loaded, ghost>>

\* save_note_to_editor_buffer(), then editNonCode() up to editorOpen()
EditNote ==
    /\ phase = "recent"
    /\ editor_buffer' = IF teliva_program[cursor].note = NoNote THEN Blank
                        ELSE teliva_program[cursor].note
    /\ rows' = Blank
    /\ pos' = 0
    /\ phase' = "opening_note"
    /\ UNCHANGED <<history, editor_state, Current_definition, leave, new_contents, restored,
                   messages, recent, loaded, ghost>>

ReadNote ==
    /\ phase = "opening_note"
    /\ rows' = editor_buffer
    /\ phase' = "note"
    /\ UNCHANGED <<history, file, Current_definition, pos, leave, new_contents, restored, messages,
                   recent, loaded, ghost>>

TypeNote(text, position) ==
    /\ phase = "note"
    /\ rows' = text
    /\ pos' = position
    /\ UNCHANGED <<history, file, phase, Current_definition, leave, new_contents, restored,
                   messages, recent, loaded, ghost>>

\* ^x writes the buffer and, if some definition was edited before in this
\* process, a state with that definition and the position in the note.  Then
\* load_note_from_editor_buffer() takes what the buffer holds.
LeaveNote ==
    /\ phase = "note"
    /\ editor_buffer' = rows
    /\ phase' = "quitting_note"
    /\ UNCHANGED <<history, editor_state, editor, recent, loaded, ghost>>

SaveNoteState ==
    /\ phase = "quitting_note"
    /\ IF Current_definition = NoName THEN UNCHANGED <<editor_state, left>>
       ELSE /\ editor_state' = [definition |-> Current_definition, pos |-> pos]
            /\ left' = StateLost(left)
    /\ phase' = "leaving_note"
    /\ UNCHANGED <<history, editor_buffer, editor, recent, loaded, exposed>>

NoteFromBuffer ==
    /\ phase = "leaving_note"
    /\ Im!EditNote(cursor, editor_buffer)
    /\ CloseEditor
    /\ phase' = "saving_note"
    /\ UNCHANGED <<file, Current_definition, restored, messages, recent, loaded, ghost>>

SaveNote ==
    /\ phase = "saving_note"
    /\ Im!SaveTlv
    /\ phase' = "recent"
    /\ UNCHANGED <<file, editor, recent, loaded, ghost>>

LeaveRecentChanges ==
    /\ phase = "recent"
    /\ phase' = "big_picture"
    /\ cursor' = 0
    /\ history_array_size' = 0
    /\ UNCHANGED <<history, file, editor, loaded, ghost>>

Next ==
    \/ Start
    \/ LeaveApp
    \/ Exit
    \/ Crash
    \/ OtherBuffer
    \/ OtherState
    \/ \E name \in Name : EditDefinition(name)
    \/ RunFromBigPicture
    \/ EnterRecentChanges
    \/ ReadBuffer
    \/ /\ phase = "edit"
       /\ \E text \in Typed[Current_definition] \cup {Blank}, position \in 0 .. MaxPos :
             Type(text, position)
    \/ \E key \in Keys : LeaveEditor(key)
    \/ SaveEditorState
    \/ UpdateFromBuffer
    \/ SaveDefinition
    \/ Reload
    \/ \E name \in Name : GoTo(name)
    \/ CancelGo
    \/ Older
    \/ Newer
    \/ UndoEverythingAfter
    \/ SaveUndo
    \/ EditNote
    \/ ReadNote
    \/ \E text \in TypedNotes \cup {Blank}, position \in 0 .. MaxPos : TypeNote(text, position)
    \/ LeaveNote
    \/ SaveNoteState
    \/ NoteFromBuffer
    \/ SaveNote
    \/ LeaveRecentChanges

Spec == Init /\ [][Next]_vars

-----------------------------------------------------------------------------
(* Properties *)

\* What another image wrote over, and was then taken for the text of a name, or
\* NoName for a note.
Taken(name) == IF name \in exposed THEN {Foreign} ELSE {}

\* One buffer file carries every text between editor and program, and still no
\* text ends up under a name, or in a note, that it was not typed for; but for
\* the text of another image, and then only under a name whose text was in the
\* buffer when that image wrote to it.
TextsStayApart ==
    \A p \in {teliva_program, image} : \A i \in DOMAIN p :
        /\ p[i].name # Undo => p[i].contents \in Typed[p[i].name] \cup {Blank} \cup Taken(p[i].name)
        /\ p[i].note \in TypedNotes \cup {Blank, NoNote} \cup Taken(NoName)

\* What the user left the editor with is the current text of the definition on
\* disk, from the end of the save on, whatever is done next short of editing
\* the definition again or undoing: also if the process is killed, or if the
\* definition is broken.  A kill before that, or another image that writes over
\* the buffer before it is read, may lose the text.
LeftTextIsSaved ==
    left # NoState /\ phase \notin {"quitting", "leaving", "saving"}
    /\ left.definition \notin exposed =>
        LookUp(image, left.definition) = left.text

\* manual_tests: edit, move the cursor, run, edit: cursor preserved.  After ^x
\* in a definition, developer mode opens that definition, with the text and the
\* cursor it was left with, even if it is entered from a later process: unless
\* another image wrote the state since, and what the editor reads is that text
\* unless another image wrote over it in the buffer.
RunPreservesCursor ==
    [][ left # NoState /\ left.kept =>
        /\ phase \in {"exited", "starting", "app"} /\ phase' \in {"opening", "big_picture"} =>
              /\ phase' = "opening"
              /\ Current_definition' = left.definition
              /\ pos' = left.pos
        /\ phase = "opening" /\ phase' = "edit" =>
              /\ Current_definition' = left.definition
              /\ pos' = left.pos
              /\ rows' = left.text \/ left.definition \in exposed ]_vars

\* The row the cursor of recent_changes_view() is on exists, so that ^e annotates
\* an entry and ^u undoes to one.
CursorOnChange ==
    phase \in {"recent", "note", "saving_note", "saving_undo"} \cup PassingNote =>
        cursor \in DOMAIN teliva_program

\* Nobody but its own definitions sets the global of a name.
SetByItself(p, name) ==
    /\ name \notin Library
    /\ \A i \in Live(p) :
          p[i].name \notin Doc \cup {name} => name \notin Binds[p[i].contents]

\* The app runs the current text of a definition, however its history was
\* undone, if that text sets the global of its name and nothing else does; and
\* in any case no text that was undone.
RunsCurrentText ==
    phase = "app" =>
        \A name \in Name \ Doc :
            /\ LET text == LookUp(image, name)
               IN  /\ text # Missing /\ name \in Binds[text]
                   /\ SetByItself(image, name)
                   => loaded[name] = text
            /\ \/ loaded[name] \in {Missing, Builtin}
               \/ \E i \in Live(image) : loaded[name] = image[i].contents
=============================================================================
