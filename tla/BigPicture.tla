------------------------------ MODULE BigPicture ------------------------------
(***************************************************************************)
(* The default big picture: the names of an image in levels, with one of   *)
(* them highlighted.  Level 0 has data and then menu and userdata, level 1 *)
(* prose, and functions follow by the depth of their first call (module    *)
(* CallGraph), up to a depth that no function has; the last level has the  *)
(* functions that were not called.                                         *)
(*                                                                         *)
(* It is drawn after every key; where the highlight is on nothing, the one *)
(* drawn before is remembered.                                             *)
(***************************************************************************)
EXTENDS CallGraph

CONSTANTS
    Name,          \* the names that definitions can have
    Doc,           \* those that start with "doc:"
    Menu,
    Images,        \* the images that are run: histories, and what they load
    Assigned,      \* bound on the names that the app assigns to
    MaxHistory,    \* bound on the length of a history
    MaxEdits,      \* bound on the number of edits between two runs
    Undo,          \* a history entry that undoes
    NoName         \* nothing has been highlighted yet

Kind == {"function", "userdata", "data"}   \* everything else, nil too, is data

ASSUME BigPictureAssumption ==
    /\ Func \cup Doc \cup {Menu} \subseteq Name
    /\ Menu \notin Doc
    /\ Undo \notin Name /\ NoName \notin Name
    /\ MaxHistory \in Nat /\ MaxEdits \in Nat
    /\ \A im \in Images :
          /\ im.program \in Seq(Name \cup {Undo})
          /\ im.kind \in [Name -> Kind]
          /\ \A f \in Func : \E i \in DOMAIN im.program : im.program[i] = f

VARIABLES
    program,           \* the names of teliva_program, in the order of the history
    kind,              \* of each name, what its global is
    shown,             \* default_big_picture_view() is waiting for a key
    highlight_level,   \* its locals
    highlight_index,
    highlight,
    edits              \* history: the definitions edited since it was entered

view == <<shown, highlight_level, highlight_index, highlight, edits>>
vars == <<graph, program, kind, view>>

ViewTypeOK ==
    /\ program \in Seq(Name \cup {Undo})
    /\ kind \in [Name -> Kind]
    /\ shown \in BOOLEAN
    /\ highlight_level \in 0 .. MaxDepth + 2
    /\ highlight_index \in 0 .. Cardinality(Name)
    /\ highlight \in Name \cup {NoName}
    /\ edits \in 0 .. MaxEdits

-----------------------------------------------------------------------------
(* What is drawn *)

\* Mutant: the scan starts below the last entry.
IsCurrentBelowLast(i) == \A j \in i + 1 .. Len(program) - 1 : program[j] # program[i]

\* is_current_definition(), which does not follow undos
IsCurrentDefinition(i) == \A j \in i + 1 .. Len(program) : program[j] # program[i]

\* Those of the names that the history has, the last one changed first
Drawn(names) ==
    LET drawn[n \in 0 .. Len(program)] ==
          IF n = 0 THEN <<>>
          ELSE IF program[n] \in names /\ IsCurrentDefinition(n) THEN <<program[n]>> \o drawn[n - 1]
          ELSE drawn[n - 1]
    IN  drawn[Len(program)]

Data == {n \in Name \ (Doc \cup {Menu}) : kind[n] = "data"}
MenuAndUserdata == {n \in Name \ Doc : n = Menu \/ kind[n] = "userdata"}
CalledAt(d) == {f \in Func : depth[f] = d}
Unused == {n \in Name : kind[n] = "function" /\ n \notin {f \in Func : depth[f] # 0}}

\* The loop over the depths ends at the first one at which nothing is drawn.
drew_anything(d) == \E i \in DOMAIN program : program[i] \in CalledAt(d)

max_level ==
    CHOOSE l \in 2 .. MaxDepth + 2 :
        ~ drew_anything(l) /\ \A d \in 2 .. l - 1 : drew_anything(d)

Level(l) ==
    CASE l = 0 -> Drawn(Data) \o Drawn(MenuAndUserdata)
      [] l = 1 -> Drawn(Doc)
      [] l > 1 /\ l < max_level -> Drawn(CalledAt(l))
      [] l = max_level -> Drawn(Unused)

level_size(l) == Len(Level(l))

\* From the label "restart" to the next key
Draw ==
    LET level == Level(highlight_level)'
    IN  highlight' = IF highlight_index' < Len(level) THEN level[highlight_index' + 1]
                     ELSE highlight

-----------------------------------------------------------------------------
(* The app *)

ViewInit ==
    /\ Init
    /\ \E im \in Images : program = im.program /\ kind = im.kind
    /\ shown = FALSE
    /\ highlight_level = 0
    /\ highlight_index = 0
    /\ highlight = NoName
    /\ edits = 0

RunApp == Step /\ UNCHANGED <<program, kind, view>>

\* The app assigns anything to a global: also nil to a function that was called,
\* which keeps its depth.  A name that the program does not have is not drawn.
Assign(n, k) ==
    /\ ~ developer /\ ~ AtBase
    /\ n \in Assigned /\ n \in {program[i] : i \in DOMAIN program}
    /\ kind' = [kind EXCEPT ![n] = k]
    /\ UNCHANGED <<graph, program, view>>

\* developer_mode() may have shown the editor first.
EnterBigPicture ==
    /\ developer /\ ~ shown
    /\ shown' = TRUE
    /\ highlight_level' = 0
    /\ highlight_index' = 0
    /\ UNCHANGED <<graph, program, kind, edits>>
    /\ Draw

-----------------------------------------------------------------------------
(* Keys *)

KeyLeft ==
    /\ shown
    /\ highlight_index' = IF highlight_index = 0 THEN 0 ELSE highlight_index - 1
    /\ UNCHANGED <<graph, program, kind, shown, highlight_level, edits>>
    /\ Draw

\* Mutant: one past the last name of a level.
ClampedLate(index, l) == IF index <= level_size(l) THEN index ELSE level_size(l)

Clamped(index, l) ==
    IF index < level_size(l) THEN index
    ELSE IF level_size(l) = 0 THEN 0 ELSE level_size(l) - 1

\* Mutant: the highlight leaves its level to the right.
KeyRightUnclamped ==
    /\ shown
    /\ highlight_index' = highlight_index + 1
    /\ UNCHANGED <<graph, program, kind, shown, highlight_level, edits>>
    /\ Draw

KeyRight ==
    /\ shown
    /\ highlight_index' = Clamped(highlight_index + 1, highlight_level)
    /\ UNCHANGED <<graph, program, kind, shown, highlight_level, edits>>
    /\ Draw

KeyUp ==
    /\ shown
    /\ highlight_level' = IF highlight_level = 0 THEN 0 ELSE highlight_level - 1
    /\ highlight_index' = Clamped(highlight_index, highlight_level')
    /\ UNCHANGED <<graph, program, kind, shown, edits>>
    /\ Draw

\* Mutant: the index stays when the level below is shorter.
KeyDownUnclamped ==
    /\ shown
    /\ highlight_level' = IF highlight_level = max_level THEN max_level ELSE highlight_level + 1
    /\ UNCHANGED <<graph, program, kind, shown, highlight_index, edits>>
    /\ Draw

KeyDown ==
    /\ shown
    /\ highlight_level' = IF highlight_level = max_level THEN max_level ELSE highlight_level + 1
    /\ highlight_index' = Clamped(highlight_index, highlight_level')
    /\ UNCHANGED <<graph, program, kind, shown, edits>>
    /\ Draw

\* edit_current_definition() comes back with the text evaluated, which may leave
\* anything in the global.  Prose is not evaluated, and a text that was not
\* modified makes no entry.  What the new text calls is left out.
EditDefinition(n) ==
    /\ shown
    /\ edits < MaxEdits
    /\ program' \in {program, Append(program, n)}
    /\ Len(program') <= MaxHistory
    /\ IF n \in Doc THEN UNCHANGED kind ELSE \E k \in Kind : kind' = [kind EXCEPT ![n] = k]
    /\ edits' = edits + 1
    /\ UNCHANGED <<graph, shown, highlight_level, highlight_index>>
    /\ Draw

\* ^r, and ^u there
RecentChanges ==
    /\ shown
    /\ Len(program) < MaxHistory
    /\ program' = Append(program, Undo)
    /\ UNCHANGED <<graph, kind, shown, highlight_level, highlight_index, edits>>
    /\ Draw

\* The process ends: on ^x here or in the editor by execv(), and on ^g with no
\* name by the assertion in update_definition().  The image may be any by now.
Leave ==
    /\ shown
    /\ NewProcess
    /\ \E im \in Images : program' = im.program /\ kind' = im.kind
    /\ shown' = FALSE
    /\ highlight_level' = 0
    /\ highlight_index' = 0
    /\ highlight' = NoName
    /\ edits' = 0

ViewNext ==
    \/ RunApp
    \/ \E n \in Name, k \in Kind : Assign(n, k)
    \/ EnterBigPicture
    \/ KeyLeft
    \/ KeyRight
    \/ KeyUp
    \/ KeyDown
    \/ \E n \in Name : EditDefinition(n)   \* ^g on the highlight, Enter, or ^e
    \/ RecentChanges
    \/ Leave

ViewSpec == ViewInit /\ [][ViewNext]_vars

-----------------------------------------------------------------------------
(* Properties *)

OnHighlight ==
    level_size(highlight_level) > 0 =>
        /\ highlight_index < level_size(highlight_level)
        /\ highlight = Level(highlight_level)[highlight_index + 1]

\* A level that has names has one of them highlighted, which is the one that ^g
\* goes to, wherever the arrow keys lead, and also after undos.
HighlightInLevel == shown /\ edits = 0 => OnHighlight

\* After edits, which may move names to other levels, the highlight is found by
\* the next arrow key that looks at the size of a level.
ArrowsFindHighlight == [][KeyRight \/ KeyUp \/ KeyDown => OnHighlight']_vars

\* Where each name is drawn
Places ==
    UNION {LET names == Level(l) IN {<<l, k, names[k]>> : k \in DOMAIN names} : l \in 0 .. max_level}

\* The upper two levels ask what a global is, the levels of functions below what
\* was called or is a function.
TwoFold(n) ==
    /\ n \in Doc \cup {Menu} \/ kind[n] # "function"
    /\ n \in {f \in Func : depth[f] # 0} \/ kind[n] = "function"

\* Although five scans of the history draw names, each name is drawn once; and
\* none is left out if the levels have no gap.  The exception: a name is drawn
\* above and below where a function that was called is none any more, or prose
\* or the menu has become one.
DrawnOnce ==
    shown =>
        LET places == Places
        IN  /\ \A p, q \in places :
                  p[3] = q[3] => p = q \/ (TwoFold(p[3]) /\ (p[1] <= 1 <=> q[1] > 1))
            /\ orderly /\ (\A f \in Func : depth[f] # 1) =>
                  \A i \in DOMAIN program : program[i] # Undo => \E p \in places : p[3] = program[i]
=============================================================================
