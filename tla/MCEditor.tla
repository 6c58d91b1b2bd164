-------------------------------- MODULE MCEditor --------------------------------
EXTENDS Editor

\* Two characters stand for the four of "--? ".
MCMark == <<"dash", " ">>
MCTexts == {<<>>, <<<<"open">>, <<"close">>, <<>>>>, <<<<"tab", "a">>>>}
================================================================================
