------------------------------ MODULE MCDevMode ------------------------------
(* Developer mode on two functions and one document: a text of main() that *)
(* sets the other function's global as well, one of util() that fails,     *)
(* texts that tell which name they were typed for, one of another image,   *)
(* and up to three changes of an image that starts with main().            *)
EXTENDS DevMode, FiniteSets, TLC

CONSTANTS main, util, doc_main, f1, both, bad, d1, blank, why, alien

MCName == {main, util, doc_main}
MCContents == {f1, both, bad, d1, blank, alien}
MCNote == {why, blank, alien}
MCTypedNotes == {why}
MCDoc == {doc_main}
MCTyped == (main :> {f1, both}) @@ (util :> {bad}) @@ (doc_main :> {d1})
MCBroken == {bad, d1}   \* prose is not Lua either
MCBinds == [text \in MCContents |->
              CASE text = f1 -> {main}
                [] text = both -> {main, util}
                [] text = bad -> {util}   \* and then fails
                [] OTHER -> {}]

\* The bound on what two images that share the files come to: changes of an
\* image whose texts another one has written over, and names this happens to.
MaxShared == 2
MaxExposed == 1

Shared ==
    exposed # {} \/ editor_buffer = alien =>
        Len(teliva_program) <= MaxShared /\ Cardinality(exposed) <= MaxExposed

MCInit == image = <<Definition(main, f1)>> /\ Init

MCSpec == MCInit /\ [][Next]_vars
=============================================================================
