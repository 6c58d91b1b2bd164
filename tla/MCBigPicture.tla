---------------------------- MODULE MCBigPicture ----------------------------
(* Four functions without recursion, called in any order, in an image with *)
(* some names that changed twice, and in one without prose or data.        *)
EXTENDS BigPicture, TLC

CONSTANTS main, update, draw, cell, menu, state, doc_x

MCFunc == {main, update, draw, cell}
MCName == MCFunc \cup {menu, state, doc_x}
MCCalls == {<<main, update>>, <<main, draw>>, <<update, draw>>, <<draw, cell>>}

MCKind == [n \in MCName |-> IF n \in MCFunc THEN "function" ELSE "data"]

MCAssigned == {draw}

MCImages ==
    {[program |-> p, kind |-> MCKind] :
        p \in {<<doc_x, cell, draw, main, state, update, menu, state, draw>>,
               <<draw, cell, main, Undo, draw, menu, main, update, cell>>}}
=============================================================================
