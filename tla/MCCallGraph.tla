----------------------------- MODULE MCCallGraph -----------------------------
(* The calls of main and two functions that recurse into each other, one of *)
(* them by a tail call, and a test; one coroutine.                          *)
EXTENDS CallGraph

CONSTANTS main, update, draw, test_draw, pcall

MCFunc == {main, update, draw, test_draw}
MCCalls ==
    {<<main, update>>, <<main, Unknown>>, <<update, draw>>, <<update, pcall>>, <<pcall, draw>>,
     <<draw, update>>, <<Unknown, draw>>, <<test_draw, draw>>}
MCTailCalls == {<<draw, update>>}
=============================================================================
