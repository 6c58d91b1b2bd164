---------------------------- MODULE VersionedStore ----------------------------
(***************************************************************************)
(* What the history of an image promises.  A program has versions, one     *)
(* after each change; a change makes a new version from the current one or *)
(* brings an earlier one back; no version is ever lost or altered, by a    *)
(* later change, by a crash or by a restart.                               *)
(***************************************************************************)
EXTENDS Naturals, Sequences

CONSTANTS Name, Contents, Missing

VARIABLE versions   \* versions[k + 1] is the program after k changes

Program == [Name -> Contents \cup {Missing}]

Current == versions[Len(versions)]

Init ==
    /\ versions \in Seq(Program)
    /\ Len(versions) > 0
    /\ versions[1] = [name \in Name |-> Missing]

Define(name, contents) ==
    /\ Current[name] # contents
    /\ versions' = Append(versions, [Current EXCEPT ![name] = contents])

\* Changes 1 .. k stay, the later ones are undone.
Revert(k) == versions' = Append(versions, versions[k + 1])

Next ==
    \/ \E name \in Name, contents \in Contents : Define(name, contents)
    \/ \E k \in 1 .. Len(versions) - 2 : Revert(k)

Spec == Init /\ [][Next]_versions
=============================================================================
