------------------------------- MODULE MCImage -------------------------------
(* Image on two names, two texts and up to five changes of an empty image: *)
(* enough for a definition that an undo removes, an undo of an undo, and   *)
(* a scan that jumps twice (five changes).                                 *)
EXTENDS Image, TLC

CONSTANTS main, render, v1, v2

MCName == {main, render}
MCContents == {v1, v2}
MCNote == {"why"}

Symmetry == Permutations(MCName) \cup Permutations(MCContents)

MCInit == image = <<>> /\ Init

MCSpec == MCInit /\ [][Next]_vars
=============================================================================
