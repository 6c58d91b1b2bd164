---------------------------- MODULE DevModeProofs ----------------------------
(***************************************************************************)
(* Developer mode, for any names and texts, any positions, and histories   *)
(* of any length: it changes the image only as the component Image says,   *)
(* so that what ImageProofs proves of the component holds of the whole;    *)
(* and no text is lost, or ends up anywhere but where it was typed for.    *)
(***************************************************************************)
EXTENDS DevMode, SequenceTheorems, TLAPS

P == INSTANCE ImageProofs

Editing == {"opening", "edit", "quitting", "leaving", "saving", "reloading", "prompt"}
EditingNote == {"opening_note", "note", "quitting_note", "leaving_note"}
Annotating == {"recent", "saving_note", "saving_undo"} \cup EditingNote

\* The phases share the editor and the buffer: what is in them depends on the phase.
EditorInv ==
    /\ phase \in Editing => Current_definition \in Name /\ rows \in Contents
    /\ phase \in Passing => editor_buffer \in Contents
    /\ phase \in EditingNote => rows \in Note
    /\ phase \in PassingNote => editor_buffer \in Note
    /\ phase = "quitting" => left # NoState

RecentInv ==
    /\ Len(teliva_program) > 0 /\ Len(image) > 0
    /\ Len(teliva_program) <= MaxHistory /\ Len(image) <= MaxHistory
    /\ phase \in Annotating =>
          /\ cursor \in 1 .. Len(teliva_program)
          /\ history_array_size <= Len(teliva_program)

IInv == P!IInv /\ TypeOK /\ EditorInv /\ RecentInv

-----------------------------------------------------------------------------
(* The image *)

\* Two instances of Image on the same state are one.
LEMMA SameHistories == \A p : P!WellFormed(p) <=> WellFormed(p)
  BY DEF P!WellFormed, WellFormed, P!Entry, Entry

LEMMA SameScans ==
    /\ \A p, name : P!Bindings(p, name) = Bindings(p, name) /\ P!LookUp(p, name) = LookUp(p, name)
    /\ \A p : P!Snapshot(p) = Snapshot(p)
    /\ \A name, contents : P!Definition(name, contents) = Definition(name, contents)
    /\ \A p, at, note : P!SetNote(p, at, note) = SetNote(p, at, note)
  BY DEF P!Bindings, Bindings, P!LookUp, LookUp, P!Live, Live, P!LiveFrom, LiveFrom,
         P!Snapshot, Snapshot, P!Definition, Definition, P!SetNote, SetNote

LEMMA LookUpLatest ==
    ASSUME NEW p, WellFormed(p), NEW name
    PROVE  /\ Bindings(p, name) \in SUBSET (1 .. Len(p))
           /\ Bindings(p, name) # {} =>
                \E i \in Bindings(p, name) :
                    /\ \A j \in Bindings(p, name) : j <= i
                    /\ LookUp(p, name) = p[i].contents
  BY P!LookUpLatest, SameHistories, SameScans, HistoryAssumption, DevModeAssumption

LEMMA LookUpType ==
    ASSUME NEW p, WellFormed(p), NEW name
    PROVE  LookUp(p, name) \in Contents \cup {Missing}
  BY P!LookUpType, SameHistories, SameScans, HistoryAssumption, DevModeAssumption

LEMMA AppendDefinition ==
    ASSUME NEW p, WellFormed(p), NEW name \in Name, NEW contents \in Contents
    PROVE  /\ WellFormed(Append(p, Definition(name, contents)))
           /\ Snapshot(Append(p, Definition(name, contents))) = [Snapshot(p) EXCEPT ![name] = contents]
  BY P!AppendDefinition, SameHistories, SameScans, HistoryAssumption, DevModeAssumption

LEMMA NoteShape ==
    ASSUME NEW p, WellFormed(p), NEW at \in 1 .. Len(p), NEW note \in Note
    PROVE  /\ WellFormed(SetNote(p, at, note))
           /\ Len(SetNote(p, at, note)) = Len(p)
           /\ \A i \in 1 .. Len(p) :
                 /\ SetNote(p, at, note)[i].name = p[i].name
                 /\ SetNote(p, at, note)[i].to = p[i].to
                 /\ SetNote(p, at, note)[i].contents = p[i].contents
  <1> DEFINE q == P!SetNote(p, at, note)
  <1>1. /\ P!WellFormed(q) /\ Len(q) = Len(p)
        /\ \A i \in 1 .. Len(p) : /\ q[i].name = p[i].name
                                  /\ q[i].to = p[i].to
                                  /\ q[i].contents = p[i].contents
    BY P!NoteShape, SameHistories, HistoryAssumption, DevModeAssumption
  <1>2. q = SetNote(p, at, note)
    BY SameScans
  <1> HIDE DEF q
  <1>3. QED
    BY <1>1, <1>2, SameHistories

LEMMA SameImage ==
    /\ Im!Init => P!Init
    /\ \A name, contents : Im!Update(name, contents) => P!Update(name, contents)
    /\ \A at : Im!UndoAfter(at) => P!UndoAfter(at)
    /\ \A at, note : Im!EditNote(at, note) => P!EditNote(at, note)
    /\ Im!SaveTlv => P!SaveTlv
    /\ Im!Restart => P!Restart
    /\ Im!TypeOK <=> P!TypeOK
    /\ (Im!TypeOK)' <=> (P!TypeOK)'
  BY DEF Im!Init, P!Init, Im!Update, P!Update, Im!UndoAfter, P!UndoAfter, Im!EditNote, P!EditNote,
         Im!SaveTlv, P!SaveTlv, Im!Restart, P!Restart, Im!TypeOK, P!TypeOK,
         Im!WellFormed, P!WellFormed, Im!Entry, P!Entry,
         Im!UpdateDefinition, P!UpdateDefinition, Im!LookUp, P!LookUp,
         Im!Bindings, P!Bindings, Im!Live, P!Live, Im!LiveFrom, P!LiveFrom,
         Im!Definition, P!Definition, Im!AddUndoEvent, P!AddUndoEvent, Im!UndoTo, P!UndoTo,
         Im!SetNote, P!SetNote

LEMMA Histories ==
    IInv => /\ WellFormed(teliva_program) /\ WellFormed(image)
            /\ Len(teliva_program) \in Nat /\ Len(image) \in Nat
  BY SameHistories DEF IInv, P!IInv, P!TypeOK, WellFormed

\* The steps that write the history or the image.
Saves == SaveDefinition \/ SaveUndo \/ SaveNote
Writes == UpdateFromBuffer \/ UndoEverythingAfter \/ NoteFromBuffer \/ Saves \/ NewProcess

LEMMA OnlyWrites == [Next]_vars => Writes \/ UNCHANGED history
  <1> SUFFICES ASSUME [Next]_vars
               PROVE  Writes \/ UNCHANGED history
    OBVIOUS
  <1> USE DEF Writes, Saves
  <1>1. CASE Exit \/ Crash \/ RunFromBigPicture
    BY <1>1 DEF Exit, Crash, RunFromBigPicture, Run
  <1>2. CASE Reload
    BY <1>2 DEF Reload, GoOn, ResumeEdit, BackToBigPicture, RunFromEditor, ExitOnLeak, Run
  <1>3. CASE \/ Start \/ LeaveApp \/ OtherBuffer \/ OtherState \/ EnterRecentChanges \/ CancelGo
             \/ ReadBuffer \/ SaveEditorState
    BY <1>3 DEF Start, LeaveApp, OtherBuffer, OtherState, EnterRecentChanges, CancelGo, ReadBuffer,
                SaveEditorState
  <1>4. CASE \/ Older \/ Newer \/ EditNote \/ ReadNote \/ LeaveNote \/ SaveNoteState
             \/ LeaveRecentChanges
    BY <1>4 DEF Older, Newer, EditNote, ReadNote, LeaveNote, SaveNoteState, LeaveRecentChanges
  <1>5. ASSUME NEW name \in Name, EditDefinition(name) \/ GoTo(name)
        PROVE  UNCHANGED history
    BY <1>5 DEF EditDefinition, GoTo
  <1>6. ASSUME NEW text, NEW position, Type(text, position) \/ TypeNote(text, position)
        PROVE  UNCHANGED history
    BY <1>6 DEF Type, TypeNote
  <1>7. ASSUME NEW key \in Keys, LeaveEditor(key)
        PROVE  UNCHANGED history
    BY <1>7 DEF LeaveEditor
  <1>8. CASE UNCHANGED vars
    BY <1>8 DEF vars
  <1>9. QED
    BY <1>1, <1>2, <1>3, <1>4, <1>5, <1>6, <1>7, <1>8 DEF Next

\* Every step of developer mode is one of the image, or leaves it alone.
LEMMA ImageStep == IInv /\ [Next]_vars => [P!Next]_history
  <1> SUFFICES ASSUME IInv, [Next]_vars
               PROVE  [P!Next]_history
    OBVIOUS
  <1>1. CASE UpdateFromBuffer
    <2>1. Current_definition \in Name /\ editor_buffer \in Contents
      BY <1>1 DEF UpdateFromBuffer, IInv, EditorInv, Editing, Passing
    <2>2. P!Update(Current_definition, editor_buffer)
      BY <1>1, SameImage DEF UpdateFromBuffer
    <2>3. QED
      BY <2>1, <2>2 DEF P!Next
  <1>2. CASE UndoEverythingAfter
    <2>1. cursor \in 1 .. Len(teliva_program)
      BY <1>2 DEF UndoEverythingAfter, IInv, RecentInv, Annotating
    <2>2. P!UndoAfter(cursor)
      BY <1>2, SameImage DEF UndoEverythingAfter
    <2>3. QED
      BY <2>1, <2>2 DEF P!Next
  <1>3. CASE NoteFromBuffer
    <2>1. cursor \in 1 .. Len(teliva_program) /\ editor_buffer \in Note
      BY <1>3 DEF NoteFromBuffer, IInv, EditorInv, RecentInv, Annotating, EditingNote, PassingNote
    <2>2. P!EditNote(cursor, editor_buffer)
      BY <1>3, SameImage DEF NoteFromBuffer
    <2>3. QED
      BY <2>1, <2>2 DEF P!Next
  <1>4. CASE Saves
    BY <1>4, SameImage DEF Saves, SaveDefinition, SaveUndo, SaveNote, P!Next
  <1>5. CASE NewProcess
    BY <1>5, SameImage DEF NewProcess, P!Next
  <1>6. QED
    BY <1>1, <1>2, <1>3, <1>4, <1>5, OnlyWrites DEF Writes

LEMMA ImageInv == IInv /\ [Next]_vars => P!IInv'
  <1>1. P!IInv /\ [P!Next]_history => P!IInv'
    BY P!NextInv, HistoryAssumption, DevModeAssumption DEF P!vars, history
  <1>2. QED
    BY <1>1, ImageStep DEF IInv

-----------------------------------------------------------------------------
(* The editor *)

LEMMA BufferType == IInv => \A name : BufferOf(name) \in Contents
  BY Histories, LookUpType, DevModeAssumption DEF BufferOf

LEMMA NoteType == IInv /\ EditNote => editor_buffer' \in Note
  <1> SUFFICES ASSUME IInv, EditNote
               PROVE  editor_buffer' \in Note
    OBVIOUS
  <1>1. cursor \in 1 .. Len(teliva_program)
    BY DEF EditNote, IInv, RecentInv, Annotating
  <1>2. teliva_program \in Seq(Entry)
    BY Histories DEF WellFormed
  <1>3. teliva_program[cursor] \in Entry
    BY <1>1, <1>2
  <1>4. teliva_program[cursor].note \in Note \cup {NoNote}
    BY <1>3 DEF Entry
  <1>5. QED
    BY <1>4, DevModeAssumption DEF EditNote

\* Whatever opens or closes the editor leaves it with a text of a definition.
InEditor ==
    /\ phase \in {"opening", "big_picture"}
    /\ phase = "opening" => Current_definition \in Name /\ editor_buffer \in Contents
    /\ Current_definition \in Name \cup {NoName}
    /\ rows \in Contents
    /\ pos \in 0 .. MaxPos
    /\ leave \in Keys
    /\ new_contents \in Contents
    /\ editor_buffer \in AnyText \cup {Missing}
    /\ editor_state \in [definition : Name, pos : 0 .. MaxPos] \cup {NoState}

LEMMA OpenEditorType ==
    ASSUME IInv, NEW name \in Name, NEW position \in 0 .. MaxPos, OpenEditor(name, position)
    PROVE  InEditor'
  BY BufferType, DevModeAssumption DEF IInv, TypeOK, OpenEditor, InEditor, AnyText

LEMMA BigPictureType == IInv /\ BigPicture => InEditor' /\ restored' = FALSE
  <1> SUFFICES ASSUME IInv, BigPicture
               PROVE  InEditor' /\ restored' = FALSE
    OBVIOUS
  <1>1. CASE OpenEditor(DocMain, 0) /\ restored' = FALSE
    <2>1. DocMain \in Name /\ 0 \in 0 .. MaxPos
      BY DevModeAssumption
    <2>2. QED
      BY <1>1, <2>1, OpenEditorType
  <1>2. CASE /\ phase' = "big_picture" /\ CloseEditor /\ restored' = FALSE
             /\ UNCHANGED <<file, Current_definition>>
    <2>1. /\ editor_buffer' = editor_buffer /\ editor_state' = editor_state
          /\ Current_definition' = Current_definition
          /\ phase' = "big_picture" /\ rows' = Blank /\ pos' = 0 /\ leave' = "^x"
          /\ new_contents' = Blank
      BY <1>2 DEF CloseEditor, file
    <2>2. InEditor'
      BY <2>1, DevModeAssumption DEF IInv, TypeOK, InEditor, Keys
    <2>3. QED
      BY <1>2, <2>2
  <1>3. QED
    BY <1>1, <1>2 DEF BigPicture

LEMMA DeveloperModeType == IInv /\ DeveloperMode => InEditor' /\ restored' \in BOOLEAN
  <1> SUFFICES ASSUME IInv, DeveloperMode
               PROVE  InEditor' /\ restored' \in BOOLEAN
    OBVIOUS
  <1>1. CASE /\ editor_state # NoState
             /\ OpenEditor(editor_state.definition, editor_state.pos)
             /\ restored' = TRUE
    <2>1. editor_state.definition \in Name /\ editor_state.pos \in 0 .. MaxPos
      BY <1>1 DEF IInv, TypeOK
    <2>2. QED
      BY <1>1, <2>1, OpenEditorType
  <1>2. CASE BigPicture
    BY <1>2, BigPictureType
  <1>3. QED
    BY <1>1, <1>2 DEF DeveloperMode

-----------------------------------------------------------------------------
(* Loading *)

Loaded == [globals : [Name -> Contents \cup {Missing, Builtin}], failed : BOOLEAN]

LoadStart == [globals |-> Fresh, failed |-> FALSE]

\* A function that goes through the last m entries of a history.
IsLoad(p, m, load) ==
    load = [k \in 0 .. m |-> IF k = 0 THEN LoadStart ELSE LoadEntry(p, Len(p) + 1 - k, load[k - 1])]

LEMMA LoadExists ==
    ASSUME NEW p, NEW m \in Nat
    PROVE  \E load : IsLoad(p, m, load)
  <1> DEFINE T == {k \in 0 .. m : ~ \E load : IsLoad(p, k, load)}
  <1>1. SUFFICES ASSUME T # {} PROVE FALSE
    OBVIOUS
  <1>2. T \in SUBSET Nat
    OBVIOUS
  <1> HIDE DEF T
  <1>3. PICK k \in T : \A y \in T : k <= y
    BY <1>1, <1>2, P!LeastElement, HistoryAssumption, DevModeAssumption
  <1>4. k \in 0 .. m /\ ~ \E load : IsLoad(p, k, load)
    BY <1>3 DEF T
  <1>5. CASE k = 0
    <2>1. IsLoad(p, 0, [i \in 0 .. 0 |-> LoadStart])
      BY DEF IsLoad
    <2>2. QED
      BY <1>4, <1>5, <2>1
  <1>6. CASE k # 0
    <2>1. k - 1 \in 0 .. m /\ k - 1 \notin T
      <3>1. k - 1 \in 0 .. m /\ ~ (k <= k - 1)
        BY <1>4, <1>6
      <3>2. QED
        BY <3>1, <1>3
    <2>2. PICK f : IsLoad(p, k - 1, f)
      BY <2>1 DEF T
    <2> DEFINE entry(s, i) == LoadEntry(p, Len(p) + 1 - i, s)
               next(h, i) == IF i = 0 THEN LoadStart ELSE entry(h[i - 1], i)
               g == [i \in 0 .. k |-> IF i = k THEN next(f, k) ELSE f[i]]
    <2> HIDE DEF entry
    <2>3. \A i \in 0 .. k - 1 : f[i] = next(f, i)
      BY <2>2 DEF IsLoad, entry
    <2>4. ASSUME NEW i \in 0 .. k
          PROVE  g[i] = next(g, i)
      <3>1. g[i] = next(f, i)
        BY <2>3, <1>4
      <3>2. i # 0 => g[i - 1] = f[i - 1]
        BY <1>4
      <3>3. QED
        BY <3>1, <3>2
    <2>5. g = [i \in 0 .. k |-> next(g, i)]
      <3> HIDE DEF next
      <3>1. QED
        BY <2>4
    <2>6. IsLoad(p, k, g)
      <3> HIDE DEF g
      <3>1. QED
        BY <2>5 DEF IsLoad, entry
    <2>7. QED
      BY <2>6, <1>4
  <1>7. QED
    BY <1>5, <1>6

\* One entry of the loop.
LEMMA LoadStep ==
    ASSUME NEW p, Len(p) \in Nat
    PROVE  /\ Load(p)[0] = LoadStart
           /\ \A k \in 1 .. Len(p) : Load(p)[k] = LoadEntry(p, Len(p) + 1 - k, Load(p)[k - 1])
  <1>1. \E load : IsLoad(p, Len(p), load)
    BY LoadExists
  <1>2. Load(p) = CHOOSE load : IsLoad(p, Len(p), load)
    BY DEF Load, IsLoad, LoadStart
  <1>3. IsLoad(p, Len(p), Load(p))
    BY <1>1, <1>2
  <1> DEFINE load == Load(p)
             entry(k) == LoadEntry(p, Len(p) + 1 - k, load[k - 1])
  <1>4. load = [k \in 0 .. Len(p) |-> IF k = 0 THEN LoadStart ELSE entry(k)]
    BY <1>3 DEF IsLoad
  <1> HIDE DEF load, entry
  <1>5. load[0] = LoadStart /\ \A k \in 1 .. Len(p) : load[k] = entry(k)
    BY <1>4
  <1>6. QED
    BY <1>5 DEF load, entry

LEMMA LiveText ==
    ASSUME NEW p, WellFormed(p), NEW i \in Live(p)
    PROVE  i \in 1 .. Len(p) /\ p[i].name \in Name /\ p[i].contents \in Contents
  <1>1. Len(p) \in 0 .. Len(p) /\ p \in Seq(Entry)
    BY DEF WellFormed
  <1>2. P!WellFormed(p) /\ i \in P!LiveFrom(p)[Len(p)]
    BY SameHistories DEF Live, LiveFrom, P!LiveFrom
  <1>3. i \in 1 .. Len(p) /\ p[i].name # Undo
    BY <1>1, <1>2, P!LiveRange, HistoryAssumption, DevModeAssumption
  <1>4. i \in DOMAIN p /\ p[i] \in Entry
    BY <1>1, <1>3
  <1>5. QED
    BY <1>3, <1>4 DEF WellFormed, Entry

\* What an entry does: nothing, fail, or set the globals of its text.
LEMMA EntryCases ==
    ASSUME NEW p, WellFormed(p), NEW i, NEW s \in Loaded
    PROVE  \/ /\ LoadEntry(p, i, s) = s
              /\ \/ i \notin Live(p) \/ s.failed \/ p[i].name \in Doc
                 \/ s.globals[p[i].name] # Missing
           \/ /\ LoadEntry(p, i, s) \in Loaded
              /\ LoadEntry(p, i, s).globals = s.globals
              /\ LoadEntry(p, i, s).failed
           \/ /\ i \in Live(p) /\ ~ s.failed /\ p[i].name \notin Doc
              /\ s.globals[p[i].name] = Missing
              /\ LoadEntry(p, i, s) \in Loaded
              /\ ~ LoadEntry(p, i, s).failed
              /\ \A name \in Name : LoadEntry(p, i, s).globals[name] =
                    IF name \in Binds[p[i].contents] THEN p[i].contents ELSE s.globals[name]
  <1> DEFINE new == LoadEntry(p, i, s)
             set == [name \in Name |-> IF name \in Binds[p[i].contents] THEN p[i].contents
                                       ELSE s.globals[name]]
  <1>1. CASE i \notin Live(p) \/ s.failed \/ p[i].name \in Doc \/ s.globals[p[i].name] # Missing
    BY <1>1 DEF LoadEntry
  <1>2. CASE ~ (i \notin Live(p) \/ s.failed \/ p[i].name \in Doc \/ s.globals[p[i].name] # Missing)
    <2>1. p[i].contents \in Contents
      BY <1>2, LiveText
    <2>2. CASE p[i].contents \in Broken
      <3>1. new = [s EXCEPT !.failed = TRUE]
        BY <1>2, <2>2 DEF LoadEntry
      <3>2. QED
        BY <3>1 DEF Loaded
    <2>3. CASE p[i].contents \notin Broken
      <3>1. new = [s EXCEPT !.globals = set]
        BY <1>2, <2>3 DEF LoadEntry
      <3>2. set \in [Name -> Contents \cup {Missing, Builtin}]
        BY <2>1 DEF Loaded
      <3>3. new \in Loaded /\ new.globals = set /\ new.failed = s.failed
        <4> HIDE DEF set, new
        <4>1. QED
          BY <3>1, <3>2 DEF Loaded
      <3>4. QED
        <4> HIDE DEF new
        <4>1. QED
          BY <1>2, <3>3 DEF new
    <2>4. QED
      BY <2>2, <2>3
  <1>3. QED
    BY <1>1, <1>2

\* At any time a global is what the libraries made it, or from a live text.
FromLive(p, globals) ==
    \A name \in Name : \/ globals[name] \in {Missing, Builtin}
                       \/ \E i \in Live(p) : globals[name] = p[i].contents

LEMMA LoadedFromLive ==
    ASSUME NEW p, WellFormed(p), NEW k \in 0 .. Len(p)
    PROVE  Load(p)[k] \in Loaded /\ FromLive(p, Load(p)[k].globals)
  <1> DEFINE Good(n) == Load(p)[n] \in Loaded /\ FromLive(p, Load(p)[n].globals)
             T == {n \in 0 .. Len(p) : ~ Good(n)}
  <1>1. Len(p) \in Nat
    BY DEF WellFormed
  <1>2. SUFFICES ASSUME T # {} PROVE FALSE
    OBVIOUS
  <1>3. T \in SUBSET Nat
    BY <1>1
  <1> HIDE DEF T
  <1>4. PICK n \in T : \A y \in T : n <= y
    BY <1>2, <1>3, P!LeastElement, HistoryAssumption, DevModeAssumption
  <1>5. n \in 0 .. Len(p) /\ ~ Good(n)
    BY <1>4 DEF T
  <1>6. CASE n = 0
    <2>1. Load(p)[n] = LoadStart
      BY <1>1, <1>6, LoadStep
    <2>2. Fresh \in [Name -> Contents \cup {Missing, Builtin}]
      BY DEF Fresh
    <2>3. \A name \in Name : Fresh[name] \in {Missing, Builtin}
      BY DEF Fresh
    <2>4. QED
      BY <1>5, <2>1, <2>2, <2>3 DEF LoadStart, Loaded, FromLive
  <1>7. CASE n # 0
    <2> DEFINE s == Load(p)[n - 1]
               i == Len(p) + 1 - n
    <2>1. n - 1 \in 0 .. Len(p) /\ ~ (n <= n - 1) /\ n \in 1 .. Len(p)
      BY <1>1, <1>5, <1>7
    <2>2. Good(n - 1)
      BY <1>4, <2>1 DEF T
    <2>3. Load(p)[n] = LoadEntry(p, i, s)
      BY <1>1, <2>1, LoadStep
    <2> HIDE DEF i, s
    <2>4. s \in Loaded /\ FromLive(p, s.globals)
      BY <2>2 DEF s
    <2>5. LoadEntry(p, i, s) \in Loaded /\ FromLive(p, LoadEntry(p, i, s).globals)
      BY <2>4, EntryCases DEF FromLive
    <2>6. QED
      BY <1>5, <2>3, <2>5
  <1>8. QED
    BY <1>6, <1>7

-----------------------------------------------------------------------------
(* The invariant *)

LEMMA InitInv == Init => IInv
  <1> SUFFICES ASSUME Init
               PROVE  IInv
    OBVIOUS
  <1>1. P!IInv
    BY SameImage, P!InitInv, HistoryAssumption, DevModeAssumption DEF Init
  <1>2. TypeOK
    <2>1. Im!TypeOK
      BY <1>1, SameImage DEF P!IInv
    <2>2. loaded \in [Name -> Contents \cup {Missing, Builtin}]
      BY DEF Init, Fresh
    <2>3. restored \in BOOLEAN
      BY DEF Init
    <2>4. QED
      BY <2>1, <2>2, <2>3, DevModeAssumption
      DEF Init, TypeOK, AnyText, Phases, Passing, PassingNote, Keys
  <1>3. EditorInv /\ RecentInv
    <2>1. WellFormed(image) /\ teliva_program = image /\ image # <<>> /\ Len(image) <= MaxHistory
      BY <1>1, SameHistories DEF Init, Im!Init, P!IInv, P!TypeOK
    <2>2. Len(image) > 0
      BY <2>1 DEF WellFormed
    <2>3. QED
      BY <2>1, <2>2
      DEF Init, EditorInv, RecentInv, Editing, EditingNote, Passing, PassingNote, Annotating
  <1>4. QED
    BY <1>1, <1>2, <1>3 DEF IInv

\* A process that ends leaves nothing in memory but the image.
LEMMA NewProcessType ==
    ASSUME IInv, NewProcess
    PROVE  /\ Current_definition' = NoName /\ rows' \in AnyText /\ pos' \in 0 .. MaxPos
           /\ leave' \in Keys /\ new_contents' \in Contents
           /\ restored' \in BOOLEAN /\ messages' \in 0 .. 2
           /\ cursor' \in 0 .. MaxHistory /\ history_array_size' \in 0 .. MaxHistory
           /\ loaded' \in [Name -> Contents \cup {Missing, Builtin}]
           /\ teliva_program' = image /\ image' = image
  <1>1. loaded' \in [Name -> Contents \cup {Missing, Builtin}]
    BY DEF NewProcess, Fresh
  <1>2. restored' \in BOOLEAN
    BY DEF NewProcess
  <1>3. teliva_program' = image /\ image' = image
    BY DEF NewProcess, Im!Restart
  <1>4. QED
    BY <1>1, <1>2, <1>3, DevModeAssumption DEF NewProcess, AnyText, Keys

LEMMA LoadType ==
    ASSUME IInv
    PROVE  LoadDefinitions(teliva_program) \in [Name -> Contents \cup {Missing, Builtin}]
  <1>1. Len(teliva_program) \in 0 .. Len(teliva_program)
    BY Histories
  <1>2. Load(teliva_program)[Len(teliva_program)] \in Loaded
    BY <1>1, Histories, LoadedFromLive
  <1>3. QED
    BY <1>2 DEF LoadDefinitions, Loaded

LeftType == [definition : Name, text : Contents, pos : 0 .. MaxPos, kept : BOOLEAN]

LEMMA StateLostType ==
    ASSUME NEW l \in LeftType \cup {NoState}
    PROVE  StateLost(l) \in LeftType \cup {NoState}
  <1>1. 0 \in 0 .. MaxPos
    BY DevModeAssumption
  <1>2. l # NoState => StateLost(l) \in LeftType
    BY <1>1 DEF StateLost, LeftType
  <1>3. QED
    BY <1>2 DEF StateLost

LEMMA TypeStep == IInv /\ [Next]_vars => TypeOK'
  <1> SUFFICES ASSUME IInv, [Next]_vars
               PROVE  TypeOK'
    OBVIOUS
  <1>0. (Im!TypeOK)'
    BY ImageInv, SameImage DEF P!IInv
  <1> USE DEF IInv, ghost
  <1>1. CASE Start
    <2>1. CASE /\ loaded' = LoadDefinitions(teliva_program)
               /\ phase' = "app"
               /\ UNCHANGED <<file, editor>>
      BY <1>0, <1>1, <2>1, LoadType DEF Start, TypeOK, Phases, file, editor, recent
    <2>2. CASE DeveloperMode /\ UNCHANGED <<loaded, messages>>
      <3>1. InEditor' /\ restored' \in BOOLEAN
        BY <2>2, DeveloperModeType
      <3>2. phase' \in Phases
        BY <3>1 DEF InEditor, Phases, Passing
      <3>3. QED
        BY <1>0, <1>1, <2>2, <3>1, <3>2 DEF Start, TypeOK, InEditor, AnyText, recent
    <2>3. QED
      BY <1>1, <2>1, <2>2 DEF Start
  <1>2. CASE LeaveApp
    <2>1. InEditor' /\ restored' \in BOOLEAN
      BY <1>2, DeveloperModeType DEF LeaveApp
    <2>2. loaded' \in [Name -> Contents \cup {Missing, Builtin}]
      BY <1>2 DEF LeaveApp, Fresh
    <2>3. phase' \in Phases
      BY <2>1 DEF InEditor, Phases, Passing
    <2>4. QED
      BY <1>0, <1>2, <2>1, <2>2, <2>3 DEF LeaveApp, TypeOK, InEditor, AnyText, recent
  <1>3. CASE Exit
    <2>1. left' \in LeftType \cup {NoState}
      BY <1>3, StateLostType DEF Exit, TypeOK, LeftType
    <2>2. QED
      BY <1>0, <1>3, <2>1, NewProcessType DEF Exit, TypeOK, Phases, LeftType
  <1>4. CASE Crash
    BY <1>0, <1>4, NewProcessType DEF Crash, TypeOK, Phases, file
  <1>5. CASE OtherBuffer
    <2>1. phase \in Passing => Current_definition \in Name
      BY DEF EditorInv, Editing, Passing
    <2>2. exposed' \subseteq Name \cup {NoName}
      BY <1>5, <2>1 DEF OtherBuffer, TypeOK
    <2>3. QED
      BY <1>0, <1>5, <2>2, DevModeAssumption DEF OtherBuffer, TypeOK, AnyText, editor, recent
  <1>6. CASE OtherState
    <2>1. left' \in LeftType \cup {NoState}
      BY <1>6, StateLostType DEF OtherState, TypeOK, LeftType
    <2>2. QED
      BY <1>0, <1>6, <2>1 DEF OtherState, TypeOK, LeftType, editor, recent
  <1>7. ASSUME NEW name \in Name, EditDefinition(name)
        PROVE  TypeOK'
    <2>1. InEditor'
      BY <1>7, OpenEditorType, DevModeAssumption DEF EditDefinition
    <2>2. phase' \in Phases
      BY <2>1 DEF InEditor, Phases, Passing
    <2>3. QED
      BY <1>0, <1>7, <2>1, <2>2 DEF EditDefinition, TypeOK, InEditor, AnyText, recent
  <1>8. CASE RunFromBigPicture
    BY <1>0, <1>8, NewProcessType DEF RunFromBigPicture, Run, TypeOK, Phases, file
  <1>9. CASE EnterRecentChanges
    <2>1. Len(teliva_program) \in 0 .. MaxHistory
      BY Histories, DevModeAssumption DEF RecentInv
    <2>2. QED
      BY <1>0, <1>9, <2>1 DEF EnterRecentChanges, TypeOK, Phases, file, editor
  <1>10. CASE ReadBuffer
    <2>1. rows' \in AnyText
      BY <1>10 DEF ReadBuffer, EditorInv, Passing, AnyText
    <2>2. QED
      BY <1>0, <1>10, <2>1 DEF ReadBuffer, TypeOK, Phases, file, recent
  <1>11. ASSUME phase = "edit", NEW text \in Typed[Current_definition] \cup {Blank},
                NEW position \in 0 .. MaxPos, Type(text, position)
         PROVE  TypeOK'
    <2>1. text \in Contents
      BY <1>11, DevModeAssumption DEF EditorInv, Editing
    <2>2. QED
      BY <1>0, <1>11, <2>1 DEF Type, TypeOK, AnyText, file, recent
  <1>12. ASSUME NEW key \in Keys, LeaveEditor(key)
         PROVE  TypeOK'
    <2>1. Current_definition \in Name /\ rows \in Contents
      BY <1>12 DEF LeaveEditor, EditorInv, Editing
    <2>2. left' \in LeftType
      BY <1>12, <2>1, DevModeAssumption DEF LeaveEditor, LeftType
    <2>3. phase' \in Phases
      BY <1>12 DEF LeaveEditor, Phases, Passing
    <2>4. QED
      BY <1>0, <1>12, <2>1, <2>2, <2>3 DEF LeaveEditor, TypeOK, AnyText, recent, LeftType
  <1>13. CASE SaveEditorState
    <2>1. Current_definition \in Name /\ left \in LeftType
      BY <1>13 DEF SaveEditorState, EditorInv, Editing, TypeOK, LeftType
    <2>2. pos \in 0 .. MaxPos
      BY DEF TypeOK
    <2>3. left' \in LeftType /\ editor_state' \in [definition : Name, pos : 0 .. MaxPos]
      BY <1>13, <2>1, <2>2 DEF SaveEditorState, LeftType
    <2>4. phase' \in Phases
      BY <1>13 DEF SaveEditorState, Phases, Passing
    <2>5. QED
      BY <1>0, <1>13, <2>3, <2>4 DEF SaveEditorState, TypeOK, editor, recent, LeftType
  <1>14. CASE UpdateFromBuffer
    <2>1. new_contents' \in Contents
      BY <1>14 DEF UpdateFromBuffer, EditorInv, Passing
    <2>2. QED
      BY <1>0, <1>14, <2>1 DEF UpdateFromBuffer, TypeOK, Phases, file, recent
  <1>15. CASE SaveDefinition
    BY <1>0, <1>15 DEF SaveDefinition, TypeOK, Phases, file, editor, recent
  <1>16. CASE Reload
    <2>1. CASE GoOn
      BY <1>0, <1>16, <2>1, DevModeAssumption DEF Reload, GoOn, TypeOK, Phases, file, recent
    <2>2. CASE ResumeEdit
      BY <1>0, <1>16, <2>2, DevModeAssumption DEF Reload, ResumeEdit, TypeOK, Phases, file, recent
    <2>3. CASE BackToBigPicture
      <3>1. InEditor' /\ restored' \in BOOLEAN
        <4>1. CASE restored /\ BigPicture
          BY <4>1, BigPictureType
        <4>2. CASE /\ phase' = "big_picture" /\ CloseEditor
                   /\ UNCHANGED <<file, Current_definition, restored>>
          <5>1. restored' \in BOOLEAN
            BY <4>2 DEF TypeOK
          <5>2. InEditor'
            BY <4>2, DevModeAssumption DEF CloseEditor, file, TypeOK, InEditor, Keys
          <5>3. QED
            BY <5>1, <5>2
        <4>3. QED
          BY <2>3, <4>1, <4>2 DEF BackToBigPicture
      <3>2. messages' = 0
        BY <2>3 DEF BackToBigPicture
      <3>3. phase' \in Phases
        BY <3>1 DEF InEditor, Phases, Passing
      <3>4. QED
        BY <1>0, <1>16, <2>3, <3>1, <3>2, <3>3
        DEF Reload, BackToBigPicture, TypeOK, InEditor, AnyText, recent
    <2>4. CASE RunFromEditor
      BY <1>0, <1>16, <2>4, NewProcessType DEF Reload, RunFromEditor, Run, TypeOK, Phases, file
    <2>5. CASE ExitOnLeak
      BY <1>0, <1>16, <2>5, NewProcessType DEF Reload, ExitOnLeak, TypeOK, Phases, file
    <2>6. QED
      BY <1>16, <2>1, <2>2, <2>3, <2>4, <2>5 DEF Reload
  <1>17. ASSUME NEW name \in Name, GoTo(name)
         PROVE  TypeOK'
    <2>1. InEditor'
      BY <1>17, OpenEditorType, DevModeAssumption DEF GoTo
    <2>2. phase' \in Phases
      BY <2>1 DEF InEditor, Phases, Passing
    <2>3. QED
      BY <1>0, <1>17, <2>1, <2>2 DEF GoTo, TypeOK, InEditor, AnyText, recent
  <1>18. CASE CancelGo
    BY <1>0, <1>18 DEF CancelGo, TypeOK, Phases, file, editor, recent
  <1>19. CASE Older \/ Newer
    BY <1>0, <1>19, DevModeAssumption DEF Older, Newer, TypeOK, file, editor
  <1>20. CASE UndoEverythingAfter
    BY <1>0, <1>20 DEF UndoEverythingAfter, TypeOK, Phases, file, editor, recent
  <1>21. CASE SaveUndo \/ SaveNote
    BY <1>0, <1>21 DEF SaveUndo, SaveNote, TypeOK, Phases, file, editor, recent
  <1>22. CASE EditNote
    <2>1. editor_buffer' \in Note /\ rows' = Blank
      BY <1>22, NoteType DEF EditNote
    <2>2. phase' \in Phases
      BY <1>22 DEF EditNote, Phases, PassingNote
    <2>3. QED
      BY <1>0, <1>22, <2>1, <2>2, DevModeAssumption DEF EditNote, TypeOK, AnyText, recent
  <1>23. CASE ReadNote
    <2>1. rows' \in AnyText
      BY <1>23 DEF ReadNote, EditorInv, PassingNote, AnyText
    <2>2. QED
      BY <1>0, <1>23, <2>1 DEF ReadNote, TypeOK, Phases, file, recent
  <1>24. ASSUME NEW text \in TypedNotes \cup {Blank}, NEW position \in 0 .. MaxPos,
                TypeNote(text, position)
         PROVE  TypeOK'
    <2>1. text \in AnyText
      BY DevModeAssumption DEF AnyText
    <2>2. QED
      BY <1>0, <1>24, <2>1 DEF TypeNote, TypeOK, file, recent
  <1>25. CASE LeaveNote
    <2>1. phase' \in Phases
      BY <1>25 DEF LeaveNote, Phases, PassingNote
    <2>2. QED
      BY <1>0, <1>25, <2>1 DEF LeaveNote, TypeOK, editor, recent
  <1>26. CASE SaveNoteState
    <2>1. editor_state' \in [definition : Name, pos : 0 .. MaxPos] \cup {NoState}
      BY <1>26 DEF SaveNoteState, TypeOK
    <2>2. left' \in LeftType \cup {NoState}
      BY <1>26, StateLostType DEF SaveNoteState, TypeOK, LeftType
    <2>3. phase' \in Phases
      BY <1>26 DEF SaveNoteState, Phases, PassingNote
    <2>4. QED
      BY <1>0, <1>26, <2>1, <2>2, <2>3 DEF SaveNoteState, TypeOK, editor, recent, LeftType
  <1>27. CASE NoteFromBuffer
    BY <1>0, <1>27, DevModeAssumption
    DEF NoteFromBuffer, CloseEditor, TypeOK, Phases, AnyText, Keys, file, recent
  <1>28. CASE LeaveRecentChanges
    BY <1>0, <1>28, DevModeAssumption DEF LeaveRecentChanges, TypeOK, Phases, file, editor
  <1>29. CASE UNCHANGED vars
    BY <1>0, <1>29 DEF vars, TypeOK, file, editor, recent
  <1>30. QED
    BY <1>1, <1>2, <1>3, <1>4, <1>5, <1>6, <1>7, <1>8, <1>9, <1>10, <1>11, <1>12, <1>13, <1>14,
       <1>15, <1>16, <1>17, <1>18, <1>19, <1>20, <1>21, <1>22, <1>23, <1>24, <1>25, <1>26, <1>27,
       <1>28, <1>29 DEF Next

LEMMA EditorStep == IInv /\ [Next]_vars => EditorInv'
  <1> SUFFICES ASSUME IInv, [Next]_vars
               PROVE  EditorInv'
    OBVIOUS
  <1> USE DEF IInv, Editing, EditingNote, Passing, PassingNote
  <1>1. ASSUME InEditor'
        PROVE  EditorInv'
    BY <1>1 DEF InEditor, EditorInv
  <1>2. ASSUME phase' \in {"exited", "starting", "app", "big_picture", "recent", "saving_note",
                           "saving_undo"}
        PROVE  EditorInv'
    BY <1>2 DEF EditorInv
  <1>3. CASE Start \/ LeaveApp
    BY <1>1, <1>2, <1>3, DeveloperModeType DEF Start, LeaveApp
  <1>4. CASE \/ Exit \/ Crash \/ RunFromBigPicture \/ EnterRecentChanges \/ UndoEverythingAfter
             \/ SaveUndo \/ NoteFromBuffer \/ SaveNote \/ LeaveRecentChanges
    BY <1>2, <1>4
    DEF Exit, Crash, RunFromBigPicture, Run, EnterRecentChanges, UndoEverythingAfter,
        SaveUndo, NoteFromBuffer, SaveNote, LeaveRecentChanges
  <1>5. CASE OtherBuffer
    BY <1>5, DevModeAssumption DEF OtherBuffer, EditorInv, editor
  <1>6. CASE OtherState
    <2>1. left \in LeftType \cup {NoState} /\ left' = StateLost(left)
      BY <1>6 DEF OtherState, TypeOK, LeftType
    <2>2. left # NoState => left' # NoState
      <3>1. 0 \in 0 .. MaxPos
        BY DevModeAssumption
      <3>2. left # NoState => left' \in LeftType
        BY <2>1, <3>1 DEF StateLost, LeftType
      <3>3. QED
        BY <3>2, DevModeAssumption DEF LeftType
    <2>3. QED
      BY <1>6, <2>2 DEF OtherState, EditorInv, editor
  <1>7. CASE Older \/ Newer
    <2>1. phase' = "recent"
      BY <1>7 DEF Older, Newer
    <2>2. QED
      BY <1>2, <2>1
  <1>8. ASSUME NEW name \in Name, EditDefinition(name) \/ GoTo(name)
        PROVE  EditorInv'
    BY <1>1, <1>8, OpenEditorType, DevModeAssumption DEF EditDefinition, GoTo
  <1>9. CASE ReadBuffer
    BY <1>9 DEF ReadBuffer, EditorInv
  <1>10. ASSUME phase = "edit", NEW text \in Typed[Current_definition] \cup {Blank},
                NEW position, Type(text, position)
         PROVE  EditorInv'
    <2>1. Current_definition \in Name
      BY <1>10 DEF EditorInv
    <2>2. text \in Contents
      BY <2>1, DevModeAssumption
    <2>3. QED
      BY <1>10, <2>1, <2>2 DEF Type, EditorInv
  <1>11. ASSUME NEW key \in Keys, LeaveEditor(key)
         PROVE  EditorInv'
    <2>1. /\ Current_definition' \in Name /\ rows' \in Contents /\ editor_buffer' \in Contents
          /\ phase' \in {"quitting", "leaving"}
      BY <1>11 DEF LeaveEditor, EditorInv
    <2>2. left' # NoState
      <3>1. left' = [definition |-> Current_definition, text |-> rows, pos |-> 0, kept |-> FALSE]
        BY <1>11 DEF LeaveEditor
      <3>2. left' \in LeftType
        BY <1>11, <2>1, <3>1, DevModeAssumption DEF LeaveEditor, LeftType, EditorInv
      <3>3. QED
        BY <3>2, DevModeAssumption DEF LeftType
    <2>3. QED
      BY <2>1, <2>2 DEF EditorInv
  <1>12. CASE SaveEditorState \/ UpdateFromBuffer \/ SaveDefinition
    BY <1>12 DEF SaveEditorState, UpdateFromBuffer, SaveDefinition, EditorInv, editor, file
  <1>13. CASE Reload
    <2>1. CASE GoOn \/ ResumeEdit
      BY <1>13, <2>1 DEF Reload, GoOn, ResumeEdit, EditorInv
    <2>2. CASE BackToBigPicture
      BY <1>1, <1>2, <2>2, BigPictureType DEF BackToBigPicture
    <2>3. CASE RunFromEditor \/ ExitOnLeak
      BY <1>2, <2>3 DEF RunFromEditor, ExitOnLeak, Run
    <2>4. QED
      BY <1>13, <2>1, <2>2, <2>3 DEF Reload
  <1>14. CASE CancelGo
    BY <1>14 DEF CancelGo, EditorInv, editor
  <1>15. CASE EditNote
    <2>1. editor_buffer' \in Note /\ rows' = Blank /\ phase' = "opening_note"
      BY <1>15, NoteType DEF EditNote
    <2>2. QED
      BY <2>1, DevModeAssumption DEF EditorInv
  <1>16. ASSUME NEW text \in TypedNotes \cup {Blank}, NEW position, TypeNote(text, position)
         PROVE  EditorInv'
    <2>1. text \in Note
      BY DevModeAssumption
    <2>2. QED
      BY <1>16, <2>1 DEF TypeNote, EditorInv
  <1>17. CASE ReadNote \/ LeaveNote \/ SaveNoteState
    BY <1>17 DEF ReadNote, LeaveNote, SaveNoteState, EditorInv, editor
  <1>18. CASE UNCHANGED vars
    BY <1>18 DEF vars, editor, file, ghost, EditorInv
  <1>19. QED
    BY <1>3, <1>4, <1>5, <1>6, <1>7, <1>8, <1>9, <1>10, <1>11, <1>12, <1>13, <1>14, <1>15, <1>16,
       <1>17, <1>18 DEF Next

\* Neither editing, undoing nor annotating makes a history shorter.
LEMMA Lengths ==
    ASSUME IInv, [Next]_vars
    PROVE  \/ /\ Len(teliva_program') \in Len(teliva_program) .. MaxHistory
              /\ image' \in {image, teliva_program}
           \/ NewProcess
  <1> DEFINE longer == Len(teliva_program') \in Len(teliva_program) .. MaxHistory
  <1> USE DEF IInv
  <1>1. Len(teliva_program) \in 0 .. MaxHistory /\ teliva_program \in Seq(Entry)
    BY Histories, DevModeAssumption DEF RecentInv, WellFormed
  <1>2. CASE UpdateFromBuffer
    <2> DEFINE new == P!UpdateDefinition(teliva_program, Current_definition, editor_buffer)
    <2>1. teliva_program' = new /\ image' = image /\ Len(new) <= MaxHistory
      BY <1>2, SameImage DEF UpdateFromBuffer, P!Update
    <2>2. \/ new = teliva_program
          \/ new = Append(teliva_program, P!Definition(Current_definition, editor_buffer))
      BY DEF P!UpdateDefinition
    <2> HIDE DEF new
    <2>3. Len(new) \in {Len(teliva_program), Len(teliva_program) + 1}
      BY <1>1, <2>2
    <2>4. QED
      BY <1>1, <2>1, <2>3, DevModeAssumption
  <1>3. CASE UndoEverythingAfter
    <2>1. /\ teliva_program' = Append(teliva_program, P!UndoTo(cursor)) /\ image' = image
          /\ Len(teliva_program) < MaxHistory
      BY <1>3, SameImage DEF UndoEverythingAfter, P!UndoAfter, P!AddUndoEvent
    <2>2. Len(teliva_program') = Len(teliva_program) + 1
      BY <1>1, <2>1
    <2>3. QED
      BY <1>1, <2>1, <2>2, DevModeAssumption
  <1>4. CASE NoteFromBuffer
    <2>1. teliva_program' = P!SetNote(teliva_program, cursor, editor_buffer) /\ image' = image
      BY <1>4, SameImage DEF NoteFromBuffer, P!EditNote
    <2>2. Len(teliva_program') = Len(teliva_program)
      BY <1>1, <2>1 DEF P!SetNote
    <2>3. QED
      BY <1>1, <2>1, <2>2, DevModeAssumption
  <1>5. CASE Saves
    <2>1. teliva_program' = teliva_program /\ image' = teliva_program
      BY <1>5 DEF Saves, SaveDefinition, SaveUndo, SaveNote, Im!SaveTlv
    <2>2. QED
      BY <1>1, <2>1, DevModeAssumption
  <1>6. CASE UNCHANGED history
    BY <1>1, <1>6, DevModeAssumption DEF history
  <1>7. QED
    BY <1>2, <1>3, <1>4, <1>5, <1>6, OnlyWrites DEF Writes

LEMMA RecentStep == IInv /\ [Next]_vars => RecentInv'
  <1> SUFFICES ASSUME IInv, [Next]_vars
               PROVE  RecentInv'
    OBVIOUS
  <1> USE DEF IInv
  <1> DEFINE n == Len(teliva_program)
             bounded == /\ Len(teliva_program') \in 1 .. MaxHistory
                        /\ Len(image') \in 1 .. MaxHistory
  <1>1. n \in 1 .. MaxHistory /\ Len(image) \in 1 .. MaxHistory
    BY Histories, DevModeAssumption DEF RecentInv
  <1>2. bounded
    <2>1. CASE NewProcess
      BY <1>1, <2>1 DEF NewProcess, Im!Restart
    <2>2. CASE ~ NewProcess
      <3>1. Len(teliva_program') \in n .. MaxHistory /\ image' \in {image, teliva_program}
        BY <2>2, Lengths
      <3>2. QED
        BY <1>1, <3>1, DevModeAssumption
    <2>3. QED
      BY <2>1, <2>2
  <1>3. ASSUME phase' \notin Annotating
        PROVE  RecentInv'
    BY <1>2, <1>3, DevModeAssumption DEF RecentInv
  <1>4. ASSUME phase \in Annotating, cursor' \in 1 .. n, UNCHANGED history_array_size
        PROVE  RecentInv'
    <2>1. ~ NewProcess
      BY <1>1, <1>4, DevModeAssumption DEF NewProcess
    <2>2. Len(teliva_program') \in n .. MaxHistory
      BY <2>1, Lengths
    <2>3. QED
      BY <1>1, <1>2, <1>4, <2>2, DevModeAssumption DEF RecentInv, TypeOK
  <1>5. ASSUME phase \in Annotating, UNCHANGED recent
        PROVE  RecentInv'
    BY <1>4, <1>5 DEF RecentInv, recent
  <1> USE DEF Annotating, EditingNote
  <1>6. CASE EnterRecentChanges
    BY <1>1, <1>2, <1>6, DevModeAssumption DEF EnterRecentChanges, RecentInv, history
  <1>7. CASE Older \/ Newer
    <2>1. cursor \in 1 .. n /\ history_array_size <= n /\ history_array_size \in 0 .. MaxHistory
      BY <1>7 DEF Older, Newer, RecentInv, TypeOK
    <2>2. cursor' \in 1 .. n /\ history_array_size' = history_array_size
      BY <1>1, <1>7, <2>1, DevModeAssumption DEF Older, Newer
    <2>3. QED
      BY <1>4, <1>7, <2>2 DEF Older, Newer
  <1>8. CASE \/ UndoEverythingAfter \/ SaveUndo \/ EditNote \/ ReadNote \/ LeaveNote
             \/ SaveNoteState \/ NoteFromBuffer \/ SaveNote
    BY <1>5, <1>8 DEF UndoEverythingAfter, SaveUndo, EditNote, ReadNote, LeaveNote, SaveNoteState,
                      NoteFromBuffer, SaveNote, recent
  <1>9. ASSUME NEW text, NEW position, TypeNote(text, position)
        PROVE  RecentInv'
    BY <1>5, <1>9 DEF TypeNote, recent
  <1>10. CASE Start \/ LeaveApp
    BY <1>3, <1>10, DeveloperModeType DEF Start, LeaveApp, InEditor
  <1>11. CASE OtherBuffer \/ OtherState
    BY <1>11 DEF OtherBuffer, OtherState, RecentInv, history, recent
  <1>12. CASE \/ Exit \/ Crash \/ RunFromBigPicture \/ ReadBuffer \/ SaveEditorState
              \/ UpdateFromBuffer \/ SaveDefinition \/ CancelGo \/ LeaveRecentChanges
    BY <1>3, <1>12
    DEF Exit, Crash, RunFromBigPicture, Run, ReadBuffer, SaveEditorState, UpdateFromBuffer,
        SaveDefinition, CancelGo, LeaveRecentChanges
  <1>13. CASE Reload
    <2>1. CASE GoOn \/ ResumeEdit \/ RunFromEditor \/ ExitOnLeak
      BY <1>3, <2>1 DEF GoOn, ResumeEdit, RunFromEditor, ExitOnLeak, Run
    <2>2. CASE BackToBigPicture
      BY <1>3, <2>2, BigPictureType DEF BackToBigPicture, InEditor
    <2>3. QED
      BY <1>13, <2>1, <2>2 DEF Reload
  <1>14. ASSUME NEW name \in Name, EditDefinition(name) \/ GoTo(name)
         PROVE  RecentInv'
    BY <1>3, <1>14 DEF EditDefinition, GoTo, OpenEditor
  <1>15. ASSUME NEW text, NEW position, Type(text, position)
         PROVE  RecentInv'
    BY <1>3, <1>15 DEF Type
  <1>16. ASSUME NEW key \in Keys, LeaveEditor(key)
         PROVE  RecentInv'
    BY <1>3, <1>16 DEF LeaveEditor
  <1>17. CASE UNCHANGED vars
    BY <1>17 DEF vars, history, recent, RecentInv
  <1>18. QED
    BY <1>6, <1>7, <1>8, <1>9, <1>10, <1>11, <1>12, <1>13, <1>14, <1>15, <1>16, <1>17 DEF Next

LEMMA NextInv == IInv /\ [Next]_vars => IInv'
  BY ImageInv, TypeStep, EditorStep, RecentStep DEF IInv

LEMMA Invariant == Spec => []IInv
  BY InitInv, NextInv, PTL DEF Spec

\* The program is always in a state it can name: no text where only a note may
\* be, no position or row that is not there.
THEOREM DevModeTyped == Spec => []TypeOK
  <1>1. IInv => TypeOK
    BY DEF IInv
  <1>2. QED
    BY <1>1, Invariant, PTL

\* The row that recent_changes_view() highlights, annotates or undoes to is one
\* of the history, however many undos and notes lengthen or change it.
THEOREM CursorStaysOnChange == Spec => []CursorOnChange
  <1>1. IInv => CursorOnChange
    <2> SUFFICES ASSUME IInv, phase \in Annotating
                 PROVE  cursor \in DOMAIN teliva_program
      BY DEF CursorOnChange, Annotating, EditingNote, PassingNote
    <2>1. teliva_program \in Seq(Entry) /\ cursor \in 1 .. Len(teliva_program)
      BY Histories DEF IInv, RecentInv, WellFormed
    <2>2. QED
      BY <2>1
  <1>2. QED
    BY <1>1, Invariant, PTL

\* Whatever the user does in developer mode, and wherever the process is killed,
\* no version of a program is lost: the saved images are a list of versions to
\* which each change adds the one the user made.
THEOREM NoVersionIsLost == Spec => P!KeepsVersions
  <1>1. Init => P!Init
    BY SameImage DEF Init
  <1>2. Spec => P!Spec
    <2>1. IInv /\ [Next]_vars => [P!Next]_(P!vars)
      BY ImageStep DEF P!vars, history
    <2>2. QED
      BY <1>1, <2>1, Invariant, PTL DEF Spec, P!Spec
  <1>3. P!Spec => P!KeepsVersions
    BY P!ImageKeepsVersions, HistoryAssumption, DevModeAssumption
  <1>4. QED
    BY <1>2, <1>3

-----------------------------------------------------------------------------
(* Where texts go: none ends up where it was not typed for, what the user  *)
(* left is saved and shown again, and the app runs what is saved.          *)

\* Between a change of the table and the end of the save that follows it.
Saving == {"saving", "saving_note", "saving_undo"}

SavedInv == unsaved => phase \in Saving

\* The text the user left is on its way to the disk, unless another image wrote
\* over it.
LeftInv ==
    left # NoState =>
        /\ phase # "saving_undo"
        /\ phase \in {"quitting", "leaving"} =>
              left.definition = Current_definition /\ left.text = rows
        /\ left.definition \notin exposed =>
              /\ phase \in {"quitting", "leaving"} => editor_buffer = left.text
              /\ phase \notin {"quitting", "leaving"} =>
                    LookUp(teliva_program, left.definition) = left.text
              /\ phase \notin {"quitting", "leaving", "saving"} =>
                    LookUp(image, left.definition) = left.text

\* After ^x nothing but that definition is opened.
KeptInv ==
    /\ phase = "quitting" => leave = "^x"
    /\ left # NoState /\ left.kept =>
          /\ editor_state = [definition |-> left.definition, pos |-> left.pos]
          /\ phase \in {"exited", "starting", "app", "opening", "edit", "leaving", "saving",
                        "reloading"}
          /\ phase \in {"opening", "edit", "leaving", "saving", "reloading"} =>
                Current_definition = left.definition
          /\ phase = "opening" =>
                pos = left.pos /\ (editor_buffer = left.text \/ left.definition \in exposed)
          /\ phase \in {"leaving", "saving", "reloading"} => leave = "^x"

LoadedInv ==
    phase = "app" => loaded = LoadDefinitions(image) /\ ~ LoadFails(image)

-----------------------------------------------------------------------------
LEMMA SavedStep == IInv /\ SavedInv /\ [Next]_vars => SavedInv'
  <1> SUFFICES ASSUME IInv, SavedInv, [Next]_vars
               PROVE  SavedInv'
    OBVIOUS
  <1> USE DEF SavedInv
  <1>1. CASE phase' \in Saving
    BY <1>1
  <1>2. CASE NewProcess \/ Saves
    BY <1>2 DEF NewProcess, Im!Restart, Saves, SaveDefinition, SaveUndo, SaveNote, Im!SaveTlv
  <1>3. CASE UpdateFromBuffer \/ UndoEverythingAfter \/ NoteFromBuffer
    BY <1>1, <1>3 DEF UpdateFromBuffer, UndoEverythingAfter, NoteFromBuffer, Saving
  <1>4. ASSUME phase \notin Saving, UNCHANGED history
        PROVE  SavedInv'
    BY <1>4 DEF history
  <1>5. ASSUME phase \in Saving, UNCHANGED history, ~ (NewProcess \/ Saves)
        PROVE  phase' = phase
    BY <1>5
    DEF Next, Saving, Saves, Start, LeaveApp, Exit, Crash, OtherBuffer, OtherState, EditDefinition,
        RunFromBigPicture, EnterRecentChanges, ReadBuffer, Type, LeaveEditor, SaveEditorState,
        UpdateFromBuffer, Reload, GoTo, CancelGo, Older, Newer, UndoEverythingAfter, EditNote,
        ReadNote, TypeNote, LeaveNote, SaveNoteState, NoteFromBuffer, LeaveRecentChanges, vars
  <1>6. QED
    BY <1>1, <1>2, <1>3, <1>4, <1>5, OnlyWrites DEF Writes

\* Outside of a save the table and the file agree.
LEMMA InStep == IInv /\ SavedInv /\ phase \notin Saving => teliva_program = image
  BY DEF IInv, SavedInv, P!IInv

\* After an update the text of the definition is the one it was given.
LEMMA UpdateLookUp ==
    ASSUME IInv, NEW name \in Name, NEW text \in Contents, Im!Update(name, text)
    PROVE  LookUp(teliva_program', name) = text
  <1> DEFINE p == teliva_program
  <1>1. WellFormed(p)
    BY Histories
  <1>2. teliva_program' = UpdateDefinition(p, name, text)
    BY DEF Im!Update, Im!UpdateDefinition, UpdateDefinition, Im!LookUp, LookUp, Im!Bindings, Bindings,
           Im!Live, Live, Im!LiveFrom, LiveFrom, Im!Definition, Definition
  <1>3. CASE LookUp(p, name) = text
    BY <1>2, <1>3 DEF UpdateDefinition
  <1>4. CASE LookUp(p, name) # text
    <2>1. teliva_program' = Append(p, Definition(name, text))
      BY <1>2, <1>4 DEF UpdateDefinition
    <2>2. Snapshot(teliva_program') = [Snapshot(p) EXCEPT ![name] = text]
      BY <1>1, <2>1, AppendDefinition
    <2>3. Snapshot(teliva_program')[name] = text
      BY <2>2 DEF Snapshot
    <2>4. QED
      BY <2>3 DEF Snapshot
  <1>5. QED
    BY <1>3, <1>4

\* A note changes no definition.
LEMMA NoteLookUp ==
    ASSUME NEW p, WellFormed(p), NEW at \in 1 .. Len(p), NEW note \in Note, NEW name
    PROVE  LookUp(SetNote(p, at, note), name) = LookUp(p, name)
  <1> DEFINE q == SetNote(p, at, note)
  <1>1. /\ WellFormed(q) /\ Len(q) = Len(p)
        /\ \A i \in 1 .. Len(p) : /\ q[i].name = p[i].name
                                  /\ q[i].to = p[i].to
                                  /\ q[i].contents = p[i].contents
    BY NoteShape
  <1> HIDE DEF q
  <1>2. P!WellFormed(p) /\ P!WellFormed(q) /\ Len(p) \in 0 .. Len(p) /\ Len(p) <= Len(q)
    BY <1>1, SameHistories DEF WellFormed
  <1>3. P!LiveFrom(p)[Len(p)] = P!LiveFrom(q)[Len(p)]
    BY <1>1, <1>2, P!LiveAgree, HistoryAssumption, DevModeAssumption
  <1>4. P!Live(p) = P!Live(q)
    BY <1>1, <1>3 DEF P!Live
  <1>5. \A i \in P!Live(p) : i \in 1 .. Len(p)
    BY LiveText DEF Live, LiveFrom, P!Live, P!LiveFrom
  <1>6. P!LookUp(p, name) = P!LookUp(q, name)
    BY <1>1, <1>2, <1>4, <1>5, P!LookUpAgree, HistoryAssumption, DevModeAssumption
  <1>7. LookUp(p, name) = LookUp(q, name)
    BY <1>6, SameScans
  <1>8. QED
    BY <1>7 DEF q

LEMMA StateLostKeeps ==
    ASSUME NEW l \in LeftType \cup {NoState}, StateLost(l) # NoState
    PROVE  /\ l # NoState
           /\ StateLost(l).definition = l.definition /\ StateLost(l).text = l.text
           /\ ~ StateLost(l).kept
  BY DEF StateLost, LeftType

LEMMA LeftStep == IInv /\ SavedInv /\ LeftInv /\ [Next]_vars => LeftInv'
  <1> SUFFICES ASSUME IInv, SavedInv, LeftInv, [Next]_vars
               PROVE  LeftInv'
    OBVIOUS
  <1> DEFINE quiet == {"quitting", "leaving"} \cup Saving
  <1> USE DEF ghost
  <1>0. left \in LeftType \cup {NoState}
    BY DEF IInv, TypeOK, LeftType
  <1>1. ASSUME left' = NoState
        PROVE  LeftInv'
    BY <1>1 DEF LeftInv
  <1>2. ASSUME phase \notin quiet, phase' \notin quiet, UNCHANGED <<image, exposed>>,
               teliva_program' \in {teliva_program, image}, left' \in {left, StateLost(left)}
        PROVE  LeftInv'
    <2>1. teliva_program = image
      BY <1>2, InStep
    <2>2. left' # NoState =>
             left # NoState /\ left'.definition = left.definition /\ left'.text = left.text
      BY <1>0, <1>2, StateLostKeeps
    <2>3. QED
      BY <1>2, <2>1, <2>2 DEF LeftInv, Saving
  <1>3. CASE Start \/ LeaveApp
    <2>1. UNCHANGED <<history, left, exposed>> /\ phase \notin quiet
      BY <1>3 DEF Start, LeaveApp, Saving
    <2>2. phase' \notin quiet
      BY <1>3, DeveloperModeType DEF Start, LeaveApp, InEditor, Saving
    <2>3. QED
      BY <1>2, <2>1, <2>2 DEF history
  <1>4. CASE Exit
    BY <1>2, <1>4 DEF Exit, NewProcess, Im!Restart, Saving
  <1>5. CASE Crash
    <2>1. CASE phase \in {"quitting", "leaving", "saving"}
      BY <1>1, <1>5, <2>1 DEF Crash
    <2>2. CASE phase = "saving_undo"
      BY <1>1, <1>5, <2>2 DEF Crash, LeftInv
    <2>3. CASE phase = "saving_note"
      BY <1>5, <2>3 DEF Crash, NewProcess, Im!Restart, LeftInv
    <2>4. CASE phase \notin quiet
      BY <1>2, <1>5, <2>4 DEF Crash, NewProcess, Im!Restart, Saving
    <2>5. QED
      BY <2>1, <2>2, <2>3, <2>4 DEF Saving
  <1>6. CASE OtherBuffer
    <2>1. /\ UNCHANGED <<history, phase, left, Current_definition, rows>> /\ exposed \subseteq exposed'
          /\ phase \in Passing => Current_definition \in exposed'
      BY <1>6 DEF OtherBuffer, editor
    <2>2. QED
      BY <2>1 DEF LeftInv, history, Passing
  <1>7. CASE OtherState
    <2>1. /\ UNCHANGED <<history, phase, exposed, Current_definition, rows, editor_buffer>>
          /\ left' = StateLost(left)
      BY <1>7 DEF OtherState, editor
    <2>2. left' # NoState =>
             left # NoState /\ left'.definition = left.definition /\ left'.text = left.text
      BY <1>0, <2>1, StateLostKeeps
    <2>3. QED
      BY <2>1, <2>2 DEF LeftInv, history
  <1>8. ASSUME NEW key \in Keys, LeaveEditor(key)
        PROVE  LeftInv'
    <2>1. /\ left'.definition = Current_definition /\ left'.text = rows
          /\ phase' \in {"quitting", "leaving"} /\ editor_buffer' = rows
          /\ UNCHANGED <<Current_definition, rows>>
      BY <1>8 DEF LeaveEditor
    <2>2. QED
      BY <2>1 DEF LeftInv
  <1>9. CASE SaveEditorState
    <2>1. /\ phase = "quitting" /\ phase' = "leaving" /\ left # NoState
          /\ UNCHANGED <<editor_buffer, Current_definition, rows, exposed>>
      BY <1>9 DEF SaveEditorState, editor, IInv, EditorInv
    <2>2. left'.definition = left.definition /\ left'.text = left.text
      BY <1>0, <1>9, <2>1 DEF SaveEditorState, LeftType
    <2>3. QED
      BY <2>1, <2>2 DEF LeftInv
  <1>10. CASE UpdateFromBuffer
    <2>1. /\ phase = "leaving" /\ phase' = "saving"
          /\ Im!Update(Current_definition, editor_buffer)
          /\ UNCHANGED <<left, exposed>>
      BY <1>10 DEF UpdateFromBuffer
    <2>2. Current_definition \in Name /\ editor_buffer \in Contents
      BY <2>1 DEF IInv, EditorInv, Editing, Passing
    <2>3. LookUp(teliva_program', Current_definition) = editor_buffer
      BY <2>1, <2>2, UpdateLookUp
    <2>4. QED
      BY <2>1, <2>3 DEF LeftInv
  <1>11. CASE SaveDefinition
    <2>1. /\ phase = "saving" /\ phase' = "reloading" /\ image' = teliva_program
          /\ UNCHANGED <<teliva_program, left, exposed>>
      BY <1>11 DEF SaveDefinition, Im!SaveTlv
    <2>2. QED
      BY <2>1 DEF LeftInv
  <1>12. CASE SaveUndo
    <2>1. phase = "saving_undo" /\ left' = left
      BY <1>12 DEF SaveUndo
    <2>2. QED
      BY <1>1, <2>1 DEF LeftInv
  <1>13. CASE SaveNote
    <2>1. /\ phase = "saving_note" /\ phase' = "recent" /\ image' = teliva_program
          /\ UNCHANGED <<teliva_program, left, exposed>>
      BY <1>13 DEF SaveNote, Im!SaveTlv
    <2>2. QED
      BY <2>1 DEF LeftInv
  <1>14. CASE NoteFromBuffer
    <2>1. /\ phase = "leaving_note" /\ phase' = "saving_note"
          /\ UNCHANGED <<image, left, exposed>>
          /\ teliva_program' = SetNote(teliva_program, cursor, editor_buffer)
      BY <1>14 DEF NoteFromBuffer, Im!EditNote, Im!SetNote, SetNote
    <2>2. cursor \in 1 .. Len(teliva_program) /\ editor_buffer \in Note
      BY <2>1 DEF IInv, EditorInv, RecentInv, Annotating, EditingNote, PassingNote
    <2>3. \A name : LookUp(teliva_program', name) = LookUp(teliva_program, name)
      BY <2>1, <2>2, Histories, NoteLookUp
    <2>4. QED
      BY <2>1, <2>3 DEF LeftInv
  <1>15. CASE UndoEverythingAfter
    BY <1>1, <1>15 DEF UndoEverythingAfter
  <1>16. CASE Reload
    <2>1. phase \notin quiet /\ UNCHANGED <<left, exposed>>
      BY <1>16 DEF Reload, Saving
    <2>2. CASE GoOn \/ ResumeEdit
      BY <1>2, <2>1, <2>2 DEF GoOn, ResumeEdit, history, Saving
    <2>3. CASE BackToBigPicture
      BY <1>2, <2>1, <2>3 DEF BackToBigPicture, BigPicture, OpenEditor, history, Saving
    <2>4. CASE RunFromEditor \/ ExitOnLeak
      BY <1>2, <2>1, <2>4 DEF RunFromEditor, ExitOnLeak, Run, NewProcess, Im!Restart, Saving
    <2>5. QED
      BY <1>16, <2>2, <2>3, <2>4 DEF Reload
  <1>17. CASE RunFromBigPicture
    BY <1>2, <1>17 DEF RunFromBigPicture, Run, NewProcess, Im!Restart, Saving
  <1>18. CASE \/ EnterRecentChanges \/ CancelGo \/ Older \/ Newer \/ LeaveRecentChanges
              \/ ReadBuffer \/ EditNote \/ ReadNote \/ LeaveNote
    BY <1>2, <1>18 DEF EnterRecentChanges, CancelGo, Older, Newer, LeaveRecentChanges, ReadBuffer,
                       EditNote, ReadNote, LeaveNote, history, Saving
  <1>19. CASE SaveNoteState
    BY <1>2, <1>19 DEF SaveNoteState, history, Saving
  <1>20. ASSUME NEW name \in Name, EditDefinition(name) \/ GoTo(name)
         PROVE  LeftInv'
    BY <1>2, <1>20 DEF EditDefinition, GoTo, OpenEditor, history, Saving
  <1>21. ASSUME NEW text, NEW position, Type(text, position)
         PROVE  LeftInv'
    BY <1>2, <1>21 DEF Type, history, Saving
  <1>22. ASSUME NEW text, NEW position, TypeNote(text, position)
         PROVE  LeftInv'
    BY <1>2, <1>22 DEF TypeNote, history, Saving
  <1>23. CASE UNCHANGED vars
    BY <1>23 DEF vars, history, file, editor, LeftInv
  <1>24. QED
    BY <1>3, <1>4, <1>5, <1>6, <1>7, <1>8, <1>9, <1>10, <1>11, <1>12, <1>13, <1>14, <1>15, <1>16,
       <1>17, <1>18, <1>19, <1>20, <1>21, <1>22, <1>23 DEF Next

\* Developer mode, entered with the state of a ^x, opens what that ^x left.
LEMMA KeptOpens ==
    ASSUME IInv, SavedInv, LeftInv, KeptInv, left # NoState, left.kept, DeveloperMode,
           phase \notin {"quitting", "leaving"} \cup Saving
    PROVE  /\ phase' = "opening" /\ Current_definition' = left.definition /\ pos' = left.pos
           /\ UNCHANGED editor_state
           /\ editor_buffer' = left.text \/ left.definition \in exposed
  <1>1. left \in LeftType
    BY DEF IInv, TypeOK, LeftType
  <1>2. editor_state = [definition |-> left.definition, pos |-> left.pos]
    BY DEF KeptInv
  <1>3. editor_state # NoState
    BY <1>1, <1>2, DevModeAssumption DEF LeftType
  <1>4. OpenEditor(left.definition, left.pos)
    BY <1>2, <1>3 DEF DeveloperMode
  <1>5. LookUp(teliva_program, left.definition) = left.text \/ left.definition \in exposed
    BY DEF LeftInv
  <1>6. left.text # Missing
    BY <1>1, HistoryAssumption DEF LeftType
  <1>7. QED
    BY <1>4, <1>5, <1>6 DEF OpenEditor, BufferOf

LEMMA KeptStep == IInv /\ SavedInv /\ LeftInv /\ KeptInv /\ [Next]_vars => KeptInv'
  <1> SUFFICES ASSUME IInv, SavedInv, LeftInv, KeptInv, [Next]_vars
               PROVE  KeptInv'
    OBVIOUS
  <1> USE DEF ghost
  <1>0. left \in LeftType \cup {NoState}
    BY DEF IInv, TypeOK, LeftType
  <1>1. ASSUME left' = NoState \/ ~ left'.kept, phase' # "quitting"
        PROVE  KeptInv'
    BY <1>1 DEF KeptInv
  <1>2. ASSUME UNCHANGED left, phase' # "quitting",
               phase \in {"big_picture", "recent", "prompt"}
        PROVE  KeptInv'
    BY <1>1, <1>2 DEF KeptInv
  <1>3. CASE Start \/ LeaveApp
    <2>1. UNCHANGED <<left, exposed>> /\ phase \in {"exited", "starting", "app"}
      BY <1>3 DEF Start, LeaveApp
    <2>2. CASE phase' = "app" /\ UNCHANGED file
      BY <2>1, <2>2 DEF KeptInv, file
    <2>3. CASE DeveloperMode /\ (left = NoState \/ ~ left.kept)
      <3>1. phase' # "quitting"
        BY <2>3, DeveloperModeType DEF InEditor
      <3>2. QED
        BY <1>1, <2>1, <2>3, <3>1
    <2>4. CASE DeveloperMode /\ left # NoState /\ left.kept
      <3>1. phase \notin {"quitting", "leaving"} \cup Saving
        BY <2>1 DEF Saving
      <3>2. /\ phase' = "opening" /\ Current_definition' = left.definition /\ pos' = left.pos
            /\ UNCHANGED editor_state
            /\ editor_buffer' = left.text \/ left.definition \in exposed
        BY <2>4, <3>1, KeptOpens
      <3>3. QED
        BY <2>1, <2>4, <3>2 DEF KeptInv
    <2>5. QED
      BY <1>3, <2>2, <2>3, <2>4 DEF Start, LeaveApp
  <1>4. CASE Exit
    BY <1>0, <1>1, <1>4, StateLostKeeps DEF Exit
  <1>5. CASE Crash
    BY <1>5 DEF Crash, KeptInv, file
  <1>6. CASE OtherBuffer
    <2>1. /\ UNCHANGED <<phase, left, Current_definition, pos, leave, editor_state>>
          /\ phase = "opening" => Current_definition \in exposed'
      BY <1>6 DEF OtherBuffer, editor, Passing
    <2>2. QED
      BY <2>1 DEF KeptInv
  <1>7. CASE OtherState
    <2>1. left' = StateLost(left) /\ UNCHANGED <<phase, leave>>
      BY <1>7 DEF OtherState, editor
    <2>2. left' = NoState \/ ~ left'.kept
      BY <1>0, <2>1, StateLostKeeps
    <2>3. QED
      BY <2>1, <2>2 DEF KeptInv
  <1>8. CASE ReadBuffer
    BY <1>8 DEF ReadBuffer, KeptInv, file
  <1>9. ASSUME NEW text, NEW position, Type(text, position)
        PROVE  KeptInv'
    <2>1. phase = "edit" /\ UNCHANGED <<phase, left, Current_definition, editor_state>>
      BY <1>9 DEF Type, file
    <2>2. QED
      BY <2>1 DEF KeptInv
  <1>10. ASSUME NEW key \in Keys, LeaveEditor(key)
         PROVE  KeptInv'
    <2>1. ~ left'.kept /\ leave' = key /\ (phase' = "quitting" => key = "^x")
      BY <1>10 DEF LeaveEditor
    <2>2. QED
      BY <2>1 DEF KeptInv
  <1>11. CASE SaveEditorState
    <2>1. /\ phase = "quitting" /\ phase' = "leaving" /\ left # NoState
          /\ UNCHANGED <<Current_definition, leave>>
          /\ editor_state' = [definition |-> Current_definition, pos |-> pos]
      BY <1>11 DEF SaveEditorState, editor, IInv, EditorInv
    <2>2. left'.definition = left.definition /\ left'.pos = pos
      BY <1>0, <1>11, <2>1 DEF SaveEditorState, LeftType
    <2>3. left.definition = Current_definition /\ leave = "^x"
      BY <2>1 DEF LeftInv, KeptInv
    <2>4. QED
      BY <2>1, <2>2, <2>3 DEF KeptInv
  <1>12. CASE UpdateFromBuffer \/ SaveDefinition
    BY <1>12 DEF UpdateFromBuffer, SaveDefinition, KeptInv, file, editor
  <1>13. CASE Reload
    <2>1. phase = "reloading" /\ UNCHANGED left
      BY <1>13 DEF Reload
    <2>2. CASE GoOn
      BY <2>1, <2>2 DEF GoOn, KeptInv
    <2>3. CASE ResumeEdit
      BY <2>1, <2>3 DEF ResumeEdit, KeptInv, file
    <2>4. CASE BackToBigPicture
      <3>1. phase' # "quitting" /\ leave = "^b"
        BY <2>4, BigPictureType DEF BackToBigPicture, InEditor
      <3>2. left = NoState \/ ~ left.kept
        BY <2>1, <3>1 DEF KeptInv
      <3>3. QED
        BY <1>1, <2>1, <3>1, <3>2
    <2>5. CASE RunFromEditor \/ ExitOnLeak
      BY <2>1, <2>5 DEF RunFromEditor, ExitOnLeak, Run, KeptInv, file
    <2>6. QED
      BY <1>13, <2>2, <2>3, <2>4, <2>5 DEF Reload
  <1>14. CASE \/ RunFromBigPicture \/ EnterRecentChanges \/ CancelGo \/ Older \/ Newer
              \/ EditNote \/ LeaveRecentChanges
    BY <1>2, <1>14 DEF RunFromBigPicture, Run, EnterRecentChanges, CancelGo, Older, Newer, EditNote,
                       LeaveRecentChanges
  <1>15. ASSUME NEW name \in Name, EditDefinition(name) \/ GoTo(name)
         PROVE  KeptInv'
    BY <1>2, <1>15 DEF EditDefinition, GoTo, OpenEditor
  <1>16. CASE \/ ReadNote \/ LeaveNote \/ NoteFromBuffer \/ SaveNote \/ SaveUndo
              \/ \E text, position : TypeNote(text, position)
    BY <1>1, <1>16 DEF ReadNote, LeaveNote, NoteFromBuffer, SaveNote, SaveUndo, TypeNote, KeptInv
  <1>17. CASE SaveNoteState
    <2>1. left' = NoState \/ ~ left'.kept
      BY <1>0, <1>17, StateLostKeeps DEF SaveNoteState, KeptInv
    <2>2. QED
      BY <1>1, <1>17, <2>1 DEF SaveNoteState
  <1>18. CASE UndoEverythingAfter
    BY <1>1, <1>18 DEF UndoEverythingAfter
  <1>19. CASE UNCHANGED vars
    BY <1>19 DEF vars, file, editor, KeptInv
  <1>20. QED
    BY <1>3, <1>4, <1>5, <1>6, <1>7, <1>8, <1>9, <1>10, <1>11, <1>12, <1>13, <1>14, <1>15, <1>16,
       <1>17, <1>18, <1>19 DEF Next

LEMMA LoadedStep == IInv /\ SavedInv /\ LoadedInv /\ [Next]_vars => LoadedInv'
  <1> SUFFICES ASSUME IInv, SavedInv, LoadedInv, [Next]_vars, phase' = "app"
               PROVE  loaded' = LoadDefinitions(image') /\ ~ LoadFails(image')
    BY DEF LoadedInv
  <1>1. CASE Start
    <2>1. phase \in {"exited", "starting"} /\ UNCHANGED history
      BY <1>1 DEF Start
    <2>2. teliva_program = image /\ image' = image
      BY <2>1, InStep DEF Saving, history
    <2>3. ~ DeveloperMode
      BY DeveloperModeType DEF InEditor
    <2>4. QED
      BY <1>1, <2>2, <2>3 DEF Start
  <1>2. CASE UNCHANGED vars
    BY <1>2 DEF vars, history, LoadedInv
  <1>3. CASE LeaveApp
    <2>1. InEditor'
      BY <1>3, DeveloperModeType DEF LeaveApp
    <2>2. QED
      BY <2>1 DEF InEditor
  <1>4. CASE Reload
    <2>1. CASE BackToBigPicture
      <3>1. phase' \in {"opening", "big_picture"}
        BY <2>1, BigPictureType DEF BackToBigPicture, InEditor
      <3>2. QED
        BY <3>1
    <2>2. QED
      BY <1>4, <2>1 DEF Reload, GoOn, ResumeEdit, RunFromEditor, ExitOnLeak, Run
  <1>5. ASSUME NEW name \in Name, EditDefinition(name) \/ GoTo(name)
        PROVE  FALSE
    BY <1>5 DEF EditDefinition, GoTo, OpenEditor
  <1>6. QED
    BY <1>1, <1>2, <1>3, <1>4, <1>5
    DEF Next, Exit, Crash, OtherBuffer, OtherState, LoadedInv, history, RunFromBigPicture, Run,
        EnterRecentChanges, ReadBuffer, Type, LeaveEditor, SaveEditorState, UpdateFromBuffer,
        SaveDefinition, CancelGo, Older, Newer, UndoEverythingAfter, SaveUndo, EditNote, ReadNote,
        TypeNote, LeaveNote, SaveNoteState, NoteFromBuffer, SaveNote, LeaveRecentChanges

TextInv == SavedInv /\ LeftInv /\ KeptInv /\ LoadedInv

LEMMA TextInvariant == Spec => [](IInv /\ TextInv)
  <1>1. Init => TextInv
    BY DEF Init, Im!Init, TextInv, SavedInv, LeftInv, KeptInv, LoadedInv
  <1>2. IInv /\ TextInv /\ [Next]_vars => TextInv'
    BY SavedStep, LeftStep, KeptStep, LoadedStep DEF TextInv
  <1>3. QED
    BY <1>1, <1>2, Invariant, PTL DEF Spec

\* The text that the user left a definition with is its current text on disk,
\* from the end of the save on, through broken texts, kills and other views,
\* unless another image wrote over that text in the buffer.
THEOREM LeftTextStaysSaved == Spec => []LeftTextIsSaved
  <1>1. TextInv => LeftTextIsSaved
    BY DEF TextInv, LeftInv, LeftTextIsSaved
  <1>2. QED
    BY <1>1, TextInvariant, PTL

\* After ^x developer mode, in the same process or a later one, shows the
\* definition with the cursor that the user left, as long as no other image has
\* written the state; and with the text, unless one wrote over it in the buffer.
THEOREM CursorIsPreserved == Spec => RunPreservesCursor
  <1> DEFINE Entering == /\ phase \in {"exited", "starting", "app"}
                         /\ phase' \in {"opening", "big_picture"}
             Reading == phase = "opening" /\ phase' = "edit"
  <1>1. ASSUME IInv, TextInv, [Next]_vars, left # NoState, left.kept, Entering
        PROVE  phase' = "opening" /\ Current_definition' = left.definition /\ pos' = left.pos
    <2>1. DeveloperMode
      BY <1>1
      DEF Next, vars, Start, LeaveApp, Exit, Crash, OtherBuffer, OtherState, EditDefinition,
          RunFromBigPicture, EnterRecentChanges, ReadBuffer, Type, LeaveEditor, SaveEditorState,
          UpdateFromBuffer, SaveDefinition, Reload, GoTo, CancelGo, Older, Newer,
          UndoEverythingAfter, SaveUndo, EditNote, ReadNote, TypeNote, LeaveNote, SaveNoteState,
          NoteFromBuffer, SaveNote, LeaveRecentChanges
    <2>2. phase \notin {"quitting", "leaving"} \cup Saving
      BY <1>1 DEF Saving
    <2>3. QED
      BY <1>1, <2>1, <2>2, KeptOpens DEF TextInv
  <1>2. ASSUME IInv, TextInv, [Next]_vars, left # NoState, left.kept, Reading
        PROVE  /\ Current_definition' = left.definition
               /\ pos' = left.pos
               /\ rows' = left.text \/ left.definition \in exposed
    <2>1. ReadBuffer
      BY <1>2
      DEF Next, vars, Start, LeaveApp, Exit, Crash, OtherBuffer, OtherState, EditDefinition,
          RunFromBigPicture, EnterRecentChanges, Type, LeaveEditor, SaveEditorState,
          UpdateFromBuffer, SaveDefinition, Reload, GoTo, CancelGo, Older, Newer,
          UndoEverythingAfter, SaveUndo, EditNote, ReadNote, TypeNote, LeaveNote, SaveNoteState,
          NoteFromBuffer, SaveNote, LeaveRecentChanges
    <2>2. /\ Current_definition = left.definition /\ pos = left.pos
          /\ editor_buffer = left.text \/ left.definition \in exposed
      BY <1>2 DEF TextInv, KeptInv
    <2>3. QED
      BY <2>1, <2>2 DEF ReadBuffer
  <1>3. IInv /\ TextInv /\ [Next]_vars =>
           (left # NoState /\ left.kept =>
              /\ Entering => /\ phase' = "opening"
                             /\ Current_definition' = left.definition
                             /\ pos' = left.pos
              /\ Reading => /\ Current_definition' = left.definition
                            /\ pos' = left.pos
                            /\ rows' = left.text \/ left.definition \in exposed)
    BY <1>1, <1>2
  <1>4. QED
    BY <1>3, TextInvariant, PTL DEF Spec, RunPreservesCursor

\* A global that nobody else sets is not set before the entry of the current
\* text is reached, and not again after it.
LEMMA LoadCurrent ==
    ASSUME NEW p, WellFormed(p), NEW name \in Name \ Doc, NEW latest \in Bindings(p, name),
           \A i \in Bindings(p, name) : i <= latest,
           name \in Binds[p[latest].contents], SetByItself(p, name),
           ~ LoadFails(p)
    PROVE  LoadDefinitions(p)[name] = p[latest].contents
  <1> DEFINE n == Len(p)
             text == p[latest].contents
             here == n + 1 - latest
             Good(k) == IF k < here THEN Load(p)[k].globals[name] = Missing
                        ELSE Load(p)[k].failed \/ Load(p)[k].globals[name] = text
             T == {k \in 0 .. n : ~ Good(k)}
  <1>1. n \in Nat /\ latest \in 1 .. n /\ here \in 1 .. n
    <2>1. latest \in Live(p) /\ n \in Nat
      BY DEF Bindings, WellFormed
    <2>2. latest \in 1 .. n
      BY <2>1, LiveText
    <2>3. QED
      BY <2>1, <2>2
  <1>2. /\ latest \in Live(p) /\ p[latest].name = name /\ text \in Contents /\ name \in Name
        /\ p[latest].name \notin Doc
    BY LiveText DEF Bindings
  <1>3. T = {}
    <2>1. SUFFICES ASSUME T # {} PROVE FALSE
      OBVIOUS
    <2>2. T \in SUBSET Nat
      BY <1>1
    <2> HIDE DEF T
    <2>3. PICK k \in T : \A y \in T : k <= y
      BY <2>1, <2>2, P!LeastElement, HistoryAssumption, DevModeAssumption
    <2>4. k \in 0 .. n /\ ~ Good(k)
      BY <2>3 DEF T
    <2>5. CASE k = 0
      <3>1. Load(p)[k] = LoadStart
        BY <1>1, <2>5, LoadStep
      <3>2. Fresh[name] = Missing
        BY <1>2 DEF Fresh, SetByItself
      <3>3. QED
        BY <1>1, <2>4, <2>5, <3>1, <3>2 DEF LoadStart
    <2>6. CASE k # 0
      <3> DEFINE s == Load(p)[k - 1]
                 i == n + 1 - k
                 new == LoadEntry(p, i, s)
      <3>1. k - 1 \in 0 .. n /\ ~ (k <= k - 1) /\ k \in 1 .. n /\ i \in 1 .. n
        BY <1>1, <2>4, <2>6
      <3>2. Good(k - 1)
        BY <2>3, <3>1 DEF T
      <3>3. Load(p)[k] = new /\ s \in Loaded
        BY <1>1, <3>1, LoadStep, LoadedFromLive
      <3>4. /\ i > latest <=> k < here
            /\ i = latest <=> k = here
            /\ k - 1 < here <=> i >= latest
        BY <1>1, <3>1
      <3>5. /\ i >= latest => s.globals[name] = Missing
            /\ i < latest => s.failed \/ s.globals[name] = text
        BY <1>1, <3>1, <3>2, <3>4
      <3>6. ~ (IF i > latest THEN new.globals[name] = Missing
               ELSE new.failed \/ new.globals[name] = text)
        BY <1>1, <2>4, <3>1, <3>3, <3>4
      <3> HIDE DEF s, i, new
      <3>7. CASE /\ new = s
                 /\ \/ i \notin Live(p) \/ s.failed \/ p[i].name \in Doc
                    \/ s.globals[p[i].name] # Missing
        <4>1. CASE i = latest
          BY <1>2, <3>5, <3>6, <3>7, <4>1, <1>1
        <4>2. CASE i # latest
          BY <1>1, <3>1, <3>5, <3>6, <3>7, <4>2 DEF i
        <4>3. QED
          BY <4>1, <4>2
      <3>8. CASE new.globals = s.globals /\ new.failed
        BY <1>1, <3>1, <3>5, <3>6, <3>8 DEF i
      <3>9. CASE /\ i \in Live(p) /\ ~ s.failed /\ p[i].name \notin Doc
                 /\ s.globals[p[i].name] = Missing
                 /\ \A g \in Name : new.globals[g] =
                       IF g \in Binds[p[i].contents] THEN p[i].contents ELSE s.globals[g]
        <4>1. p[i].name # name => name \notin Binds[p[i].contents]
          BY <3>9 DEF SetByItself
        <4>2. p[i].name = name => i <= latest
          BY <3>9 DEF Bindings
        <4>3. CASE i = latest
          <5>1. new.globals[name] = text
            BY <1>2, <3>9, <4>3
          <5>2. QED
            BY <1>1, <3>6, <4>3, <5>1
        <4>4. CASE i > latest
          <5>1. p[i].name # name
            BY <1>1, <3>1, <4>2, <4>4 DEF i
          <5>2. new.globals[name] = s.globals[name]
            BY <1>2, <3>9, <4>1, <5>1
          <5>3. QED
            BY <1>1, <3>1, <3>5, <3>6, <4>4, <5>2 DEF i
        <4>5. CASE i < latest
          <5>1. s.globals[name] = text
            BY <3>5, <3>9, <4>5
          <5>2. p[i].name # name
            BY <1>2, <3>9, <5>1, HistoryAssumption
          <5>3. new.globals[name] = s.globals[name]
            BY <1>2, <3>9, <4>1, <5>2
          <5>4. QED
            BY <1>1, <3>1, <3>6, <4>5, <5>1, <5>3 DEF i
        <4>6. QED
          BY <1>1, <3>1, <4>3, <4>4, <4>5 DEF i
      <3>10. QED
        BY <3>3, <3>7, <3>8, <3>9, EntryCases DEF new
    <2>7. QED
      BY <2>5, <2>6
  <1>4. Good(n)
    BY <1>1, <1>3
  <1>5. Load(p)[n].failed \/ Load(p)[n].globals[name] = text
    BY <1>1, <1>4
  <1>6. QED
    BY <1>5 DEF LoadFails, LoadDefinitions

\* The app runs the current text of every definition that sets its global, if
\* nothing else sets it; and whatever else sets it, no text that was undone.
THEOREM AppRunsCurrentText == Spec => []RunsCurrentText
  <1>1. IInv /\ TextInv => RunsCurrentText
    <2> SUFFICES ASSUME IInv, TextInv, phase = "app", NEW name \in Name \ Doc
                 PROVE  /\ LET text == LookUp(image, name)
                           IN  /\ text # Missing /\ name \in Binds[text]
                               /\ SetByItself(image, name)
                               => loaded[name] = text
                        /\ \/ loaded[name] \in {Missing, Builtin}
                           \/ \E i \in Live(image) : loaded[name] = image[i].contents
      BY DEF RunsCurrentText
    <2>1. WellFormed(image) /\ loaded = LoadDefinitions(image) /\ ~ LoadFails(image)
      BY Histories DEF TextInv, LoadedInv
    <2>2. ASSUME LookUp(image, name) # Missing, name \in Binds[LookUp(image, name)],
                 SetByItself(image, name)
          PROVE  loaded[name] = LookUp(image, name)
      <3>1. Bindings(image, name) # {}
        BY <2>2 DEF LookUp
      <3>2. PICK i \in Bindings(image, name) :
               /\ \A j \in Bindings(image, name) : j <= i
               /\ LookUp(image, name) = image[i].contents
        BY <2>1, <3>1, LookUpLatest
      <3>3. QED
        BY <2>1, <2>2, <3>2, LoadCurrent
    <2>3. \/ loaded[name] \in {Missing, Builtin}
          \/ \E i \in Live(image) : loaded[name] = image[i].contents
      <3>1. Len(image) \in 0 .. Len(image)
        BY Histories
      <3>2. FromLive(image, Load(image)[Len(image)].globals)
        BY <2>1, <3>1, LoadedFromLive
      <3>3. QED
        BY <2>1, <3>2 DEF FromLive, LoadDefinitions
    <2>4. QED
      BY <2>2, <2>3
  <1>2. QED
    BY <1>1, TextInvariant, PTL

-----------------------------------------------------------------------------
(* Where a text may be *)

Fits(name, text) == text \in Typed[name] \cup {Blank} \cup Taken(name)

NoteFits(text) == text \in TypedNotes \cup {Blank} \cup Taken(NoName)

FitsName(p) ==
    \A i \in DOMAIN p : /\ p[i].name # Undo => Fits(p[i].name, p[i].contents)
                        /\ p[i].note = NoNote \/ NoteFits(p[i].note)

FitsInv ==
    /\ FitsName(teliva_program) /\ FitsName(image)
    /\ phase \in Editing => Fits(Current_definition, rows)
    /\ phase \in Passing => Fits(Current_definition, editor_buffer)
    /\ phase \in EditingNote => NoteFits(rows)
    /\ phase \in PassingNote => NoteFits(editor_buffer)

LEMMA LookUpFits ==
    ASSUME NEW p, WellFormed(p), FitsName(p), NEW name \in Name
    PROVE  LookUp(p, name) = Missing \/ Fits(name, LookUp(p, name))
  <1>1. CASE Bindings(p, name) = {}
    BY <1>1 DEF LookUp
  <1>2. CASE Bindings(p, name) # {}
    <2>1. PICK i \in Bindings(p, name) : LookUp(p, name) = p[i].contents
      BY <1>2, LookUpLatest
    <2>2. p[i].name = name /\ name # Undo
      BY <2>1, HistoryAssumption DEF Bindings
    <2>3. i \in 1 .. Len(p) /\ p \in Seq(Entry)
      BY <2>1, LookUpLatest DEF WellFormed
    <2>4. i \in DOMAIN p
      BY <2>3
    <2>5. QED
      BY <2>1, <2>2, <2>4 DEF FitsName
  <1>3. QED
    BY <1>1, <1>2

\* What was taken from another image stays on record.
LEMMA ExposedGrows == [Next]_vars => exposed \subseteq exposed'
  <1> SUFFICES ASSUME [Next]_vars
               PROVE  exposed \subseteq exposed'
    OBVIOUS
  <1> USE DEF ghost
  <1>1. CASE \/ Start \/ LeaveApp \/ Exit \/ Crash \/ OtherBuffer \/ OtherState \/ RunFromBigPicture
             \/ EnterRecentChanges \/ ReadBuffer \/ SaveEditorState \/ UpdateFromBuffer
             \/ SaveDefinition \/ Reload \/ CancelGo
    BY <1>1 DEF Start, LeaveApp, Exit, Crash, OtherBuffer, OtherState, RunFromBigPicture,
                EnterRecentChanges, ReadBuffer, SaveEditorState, UpdateFromBuffer,
                SaveDefinition, Reload, CancelGo
  <1>2. CASE \/ Older \/ Newer \/ UndoEverythingAfter \/ SaveUndo \/ EditNote \/ ReadNote \/ LeaveNote
             \/ SaveNoteState \/ NoteFromBuffer \/ SaveNote \/ LeaveRecentChanges
    BY <1>2 DEF Older, Newer, UndoEverythingAfter, SaveUndo, EditNote, ReadNote, LeaveNote,
                SaveNoteState, NoteFromBuffer, SaveNote, LeaveRecentChanges
  <1>3. CASE UNCHANGED vars
    BY <1>3 DEF vars
  <1>4. QED
    BY <1>1, <1>2, <1>3 DEF Next, EditDefinition, GoTo, Type, TypeNote, LeaveEditor

\* So what fits goes on to fit.
LEMMA FitsGrows ==
    ASSUME exposed \subseteq exposed'
    PROVE  /\ \A name, text : Fits(name, text) => Fits(name, text)'
           /\ \A text : NoteFits(text) => NoteFits(text)'
           /\ \A p : FitsName(p) => FitsName(p)'
  <1>1. \A name : Taken(name) \subseteq Taken(name)'
    BY DEF Taken
  <1>2. QED
    BY <1>1 DEF Fits, NoteFits, FitsName

\* The editor is opened on a text that was typed for the name it is opened on.
LEMMA OpenEditorFits ==
    ASSUME IInv, FitsInv, NEW name \in Name, NEW position, OpenEditor(name, position)
    PROVE  Fits(Current_definition', rows') /\ Fits(Current_definition', editor_buffer')
  BY Histories, LookUpFits DEF OpenEditor, BufferOf, FitsInv, Fits

LEMMA BigPictureFits ==
    ASSUME IInv, FitsInv, BigPicture, phase' = "opening"
    PROVE  Fits(Current_definition', rows') /\ Fits(Current_definition', editor_buffer')
  BY OpenEditorFits, DevModeAssumption DEF BigPicture

LEMMA DeveloperModeFits ==
    ASSUME IInv, FitsInv, DeveloperMode, phase' = "opening"
    PROVE  Fits(Current_definition', rows') /\ Fits(Current_definition', editor_buffer')
  <1>1. CASE editor_state # NoState /\ OpenEditor(editor_state.definition, editor_state.pos)
    <2>1. editor_state.definition \in Name
      BY <1>1 DEF IInv, TypeOK
    <2>2. QED
      BY <1>1, <2>1, OpenEditorFits
  <1>2. CASE BigPicture
    BY <1>2, BigPictureFits
  <1>3. QED
    BY <1>1, <1>2 DEF DeveloperMode

LEMMA HistoryFits == IInv /\ FitsInv /\ [Next]_vars => FitsName(teliva_program') /\ FitsName(image')
  <1> SUFFICES ASSUME IInv, FitsInv, [Next]_vars
               PROVE  FitsName(teliva_program') /\ FitsName(image')
    OBVIOUS
  <1> DEFINE p == teliva_program
  <1> USE DEF FitsInv
  <1>1. p \in Seq(Entry)
    BY Histories DEF WellFormed
  <1>2. ASSUME NEW e \in Entry, e.name # Undo => Fits(e.name, e.contents), e.note = NoNote
        PROVE  FitsName(Append(p, e))
    BY <1>1, <1>2 DEF FitsName
  <1>3. CASE UpdateFromBuffer
    <2> DEFINE e == Definition(Current_definition, editor_buffer)
    <2>1. /\ phase = "leaving" /\ Im!Update(Current_definition, editor_buffer)
      BY <1>3 DEF UpdateFromBuffer
    <2>2. /\ Current_definition \in Name /\ editor_buffer \in Contents
          /\ Fits(Current_definition, editor_buffer)
      BY <2>1 DEF IInv, EditorInv, Editing, Passing
    <2>3. /\ e \in Entry /\ e.name = Current_definition /\ e.contents = editor_buffer
          /\ e.note = NoNote
      BY <2>2 DEF Definition, Entry
    <2>4. teliva_program' = p \/ teliva_program' = Append(p, e)
      BY <2>1 DEF Im!Update, Im!UpdateDefinition, Im!Definition, Definition
    <2>5. image' = image
      BY <2>1 DEF Im!Update
    <2> HIDE DEF e
    <2>6. FitsName(Append(p, e))
      BY <1>2, <2>2, <2>3
    <2>7. QED
      BY <2>4, <2>5, <2>6
  <1>4. CASE UndoEverythingAfter
    <2>1. cursor \in Nat
      BY DEF IInv, TypeOK
    <2>2. UndoTo(cursor) \in Entry /\ UndoTo(cursor).name = Undo /\ UndoTo(cursor).note = NoNote
      BY <2>1 DEF UndoTo, Entry
    <2>3. teliva_program' = Append(p, UndoTo(cursor)) /\ image' = image
      BY <1>4 DEF UndoEverythingAfter, Im!UndoAfter, Im!AddUndoEvent, Im!UndoTo, UndoTo
    <2>4. QED
      BY <1>2, <2>2, <2>3
  <1>5. CASE NoteFromBuffer
    <2>1. cursor \in 1 .. Len(p) /\ editor_buffer \in Note /\ NoteFits(editor_buffer)
      BY <1>5 DEF NoteFromBuffer, IInv, EditorInv, RecentInv, Annotating, EditingNote, PassingNote
    <2>2. teliva_program' = SetNote(p, cursor, editor_buffer) /\ image' = image
      BY <1>5, <2>1 DEF NoteFromBuffer, Im!EditNote, Im!SetNote, SetNote
    <2> DEFINE q == SetNote(p, cursor, editor_buffer)
    <2>3. /\ Len(q) = Len(p) /\ q \in Seq(Entry)
          /\ \A i \in 1 .. Len(p) : q[i].name = p[i].name /\ q[i].contents = p[i].contents
      BY <2>1, Histories, NoteShape DEF WellFormed
    <2>4. \A i \in 1 .. Len(p) : q[i].note = p[i].note \/ q[i].note = editor_buffer
      <3>1. \A i \in 1 .. Len(p) : p[i] \in Entry
        BY <1>1
      <3>2. QED
        BY <1>1, <2>1, <3>1 DEF SetNote, Entry
    <2> HIDE DEF q
    <2>5. FitsName(q)
      BY <1>1, <2>1, <2>3, <2>4 DEF FitsName
    <2>6. QED
      BY <2>2, <2>5 DEF q
  <1>6. CASE Saves
    BY <1>6 DEF Saves, SaveDefinition, SaveUndo, SaveNote, Im!SaveTlv
  <1>7. CASE NewProcess
    BY <1>7 DEF NewProcess, Im!Restart
  <1>8. CASE UNCHANGED history
    BY <1>8 DEF history
  <1>9. QED
    BY <1>3, <1>4, <1>5, <1>6, <1>7, <1>8, OnlyWrites DEF Writes

\* The editor and the buffer after a step, judged by what was exposed before it.
EditorFits ==
    /\ phase' \in Editing => Fits(Current_definition', rows')
    /\ phase' \in Passing => Fits(Current_definition', editor_buffer')
    /\ phase' \in EditingNote => NoteFits(rows')
    /\ phase' \in PassingNote => NoteFits(editor_buffer')

LEMMA EditorFitsStep == IInv /\ FitsInv /\ [Next]_vars => EditorFits \/ OtherBuffer
  <1> SUFFICES ASSUME IInv, FitsInv, [Next]_vars
               PROVE  EditorFits \/ OtherBuffer
    OBVIOUS
  <1> USE DEF FitsInv, EditorFits, Editing, EditingNote, Passing, PassingNote
  <1>1. ASSUME phase' = "opening" => /\ Fits(Current_definition', rows')
                                     /\ Fits(Current_definition', editor_buffer'),
               phase' \in {"opening", "exited", "starting", "app", "big_picture", "recent",
                           "saving_note", "saving_undo"}
        PROVE  EditorFits
    BY <1>1
  <1>2. CASE Start \/ LeaveApp
    BY <1>1, <1>2, DeveloperModeType, DeveloperModeFits DEF Start, LeaveApp, InEditor
  <1>3. ASSUME NEW name \in Name, EditDefinition(name) \/ GoTo(name)
        PROVE  EditorFits
    BY <1>1, <1>3, OpenEditorFits DEF EditDefinition, GoTo, OpenEditor
  <1>4. CASE ReadBuffer \/ ReadNote
    BY <1>4 DEF ReadBuffer, ReadNote
  <1>5. ASSUME NEW text \in Typed[Current_definition] \cup {Blank}, NEW position,
               Type(text, position)
        PROVE  EditorFits
    BY <1>5 DEF Type, Fits
  <1>6. ASSUME NEW text \in TypedNotes \cup {Blank}, NEW position, TypeNote(text, position)
        PROVE  EditorFits
    BY <1>6 DEF TypeNote, NoteFits
  <1>7. ASSUME NEW key \in Keys, LeaveEditor(key)
        PROVE  EditorFits
    BY <1>7 DEF LeaveEditor
  <1>8. CASE SaveEditorState \/ UpdateFromBuffer \/ SaveDefinition \/ CancelGo
    BY <1>8 DEF SaveEditorState, UpdateFromBuffer, SaveDefinition, CancelGo, editor
  <1>9. CASE LeaveNote \/ SaveNoteState
    BY <1>9 DEF LeaveNote, SaveNoteState, editor
  <1>10. CASE OtherState
    BY <1>10 DEF OtherState, editor
  <1>11. CASE EditNote
    <2>1. cursor \in 1 .. Len(teliva_program) /\ teliva_program \in Seq(Entry)
      BY <1>11, Histories DEF EditNote, IInv, RecentInv, Annotating, WellFormed
    <2>2. NoteFits(editor_buffer') /\ NoteFits(rows') /\ phase' = "opening_note"
      BY <1>11, <2>1 DEF EditNote, NoteFits, FitsName
    <2>3. QED
      BY <2>2
  <1>12. CASE Reload
    <2>1. CASE GoOn \/ ResumeEdit
      BY <1>12, <2>1 DEF Reload, GoOn, ResumeEdit
    <2>2. CASE BackToBigPicture
      BY <1>1, <2>2, BigPictureType, BigPictureFits DEF BackToBigPicture, InEditor
    <2>3. CASE RunFromEditor \/ ExitOnLeak
      BY <1>1, <2>3 DEF RunFromEditor, ExitOnLeak, Run
    <2>4. QED
      BY <1>12, <2>1, <2>2, <2>3 DEF Reload
  <1>13. CASE UNCHANGED vars
    BY <1>13 DEF vars, editor, file
  <1>14. CASE \/ Exit \/ Crash \/ RunFromBigPicture \/ EnterRecentChanges
              \/ UndoEverythingAfter \/ SaveUndo \/ NoteFromBuffer \/ SaveNote \/ LeaveRecentChanges
    BY <1>1, <1>14
    DEF Exit, Crash, RunFromBigPicture, Run, EnterRecentChanges,
        UndoEverythingAfter, SaveUndo, NoteFromBuffer, SaveNote, LeaveRecentChanges
  <1>15. CASE Older \/ Newer
    BY <1>15 DEF Older, Newer
  <1>16. QED
    BY <1>2, <1>3, <1>4, <1>5, <1>6, <1>7, <1>8, <1>9, <1>10, <1>11, <1>12, <1>13, <1>14, <1>15
    DEF Next

LEMMA FitsStep == IInv /\ FitsInv /\ [Next]_vars => FitsInv'
  <1> SUFFICES ASSUME IInv, FitsInv, [Next]_vars
               PROVE  FitsInv'
    OBVIOUS
  <1>1. /\ \A name, text : Fits(name, text) => Fits(name, text)'
        /\ \A text : NoteFits(text) => NoteFits(text)'
        /\ \A p : FitsName(p) => FitsName(p)'
    BY ExposedGrows, FitsGrows
  <1>2. FitsName(teliva_program)' /\ FitsName(image)'
    BY <1>1, HistoryFits
  <1>3. CASE EditorFits
    BY <1>1, <1>2, <1>3 DEF EditorFits, FitsInv
  <1>4. CASE OtherBuffer
    <2>1. /\ UNCHANGED <<phase, Current_definition, rows>> /\ editor_buffer' = Foreign
          /\ phase \in Passing => Current_definition \in exposed'
          /\ phase \in PassingNote => NoName \in exposed'
      BY <1>4 DEF OtherBuffer, editor
    <2>2. /\ phase \in Passing => Fits(Current_definition, editor_buffer)'
          /\ phase \in PassingNote => NoteFits(editor_buffer)'
      BY <2>1 DEF Fits, NoteFits, Taken
    <2>3. /\ phase \in Editing => Fits(Current_definition, rows)'
          /\ phase \in EditingNote => NoteFits(rows)'
      BY <1>1, <2>1 DEF FitsInv
    <2>4. QED
      BY <1>2, <2>1, <2>2, <2>3 DEF FitsInv
  <1>5. QED
    BY <1>3, <1>4, EditorFitsStep

\* All texts pass through one buffer file, which other images share; and from an
\* image where every text fits its name, no step leads to one where a text is
\* under a name, or in a note, that it was not typed for: but for the text of
\* another image that wrote over the buffer while that name's, or a note, was in
\* it.
THEOREM TextsNeverMix == Spec /\ TextsStayApart => []TextsStayApart
  <1>1. Init /\ TextsStayApart => FitsInv
    BY DEF Init, Im!Init, TextsStayApart, FitsInv, FitsName, Fits, NoteFits, Editing, EditingNote,
           Passing, PassingNote
  <1>2. IInv /\ FitsInv => TextsStayApart
    <2> SUFFICES ASSUME IInv, FitsInv, NEW p \in {teliva_program, image}, NEW i \in DOMAIN p
                 PROVE  /\ p[i].name # Undo =>
                              p[i].contents \in Typed[p[i].name] \cup {Blank} \cup Taken(p[i].name)
                        /\ p[i].note \in TypedNotes \cup {Blank, NoNote} \cup Taken(NoName)
      BY DEF TextsStayApart
    <2>1. FitsName(p)
      BY DEF FitsInv
    <2>2. QED
      BY <2>1 DEF FitsName, Fits, NoteFits
  <1>3. QED
    BY <1>1, <1>2, FitsStep, Invariant, PTL DEF Spec
=============================================================================
