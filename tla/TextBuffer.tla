------------------------------- MODULE TextBuffer -------------------------------
(***************************************************************************)
(* What an editor promises: a list of lines with a cursor.  Scrolling does *)
(* not occur here: kilo.c keeps the cursor as a position on the screen and *)
(* the offset of the screen in the text, and each key changes one or the   *)
(* other or both (module Editor).                                          *)
(***************************************************************************)
EXTENDS Integers, Sequences

CONSTANTS Space, CommentMark

VARIABLES lines,  \* the text
          line,   \* the line of the cursor, from 0; it may be below the text
          col     \* how many characters are on its left

Smaller(a, b) == IF a < b THEN a ELSE b
Blanks(n) == [i \in 1..(IF n < 0 THEN 0 ELSE n) |-> Space]
OnLine == line \in 0..Len(lines) - 1
LengthOf(l) == IF l \in 0..Len(lines) - 1 THEN Len(lines[l + 1]) ELSE 0
Here == IF OnLine THEN lines[line + 1] ELSE <<>>
Before == SubSeq(Here, 1, Smaller(col, Len(Here)))
After == SubSeq(Here, col + 1, Len(Here))
Indent(l) == CHOOSE n \in 0..Len(l) : /\ \A i \in 1..n : l[i] = Space
                                      /\ n < Len(l) => l[n + 1] # Space
Splice(first, last, new) == SubSeq(lines, 1, first) \o new \o SubSeq(lines, last + 1, Len(lines))

\* A cursor below the text, or right of its line, first makes what is missing.
Type(s) ==
  LET missing == [i \in 1..(IF OnLine THEN 0 ELSE line + 1 - Len(lines)) |-> <<>>]
  IN /\ lines' = [lines \o missing EXCEPT ![line + 1] = Before \o Blanks(col - Len(Here)) \o s \o After]
     /\ col' = col + Len(s)
     /\ UNCHANGED line

NewLine ==
  /\ line <= Len(lines)
  /\ LET indent == Blanks(Indent(Before))
     IN /\ lines' = IF OnLine THEN Splice(line, line + 1, <<Before, indent \o After>>)
                              ELSE Append(lines, <<>>)
        /\ line' = line + 1
        /\ col' = Len(indent)

DeleteTo(c) ==  \* the characters between column c and the cursor
  /\ OnLine
  /\ lines' = [lines EXCEPT ![line + 1] = SubSeq(@, 1, Smaller(c, Len(@))) \o After]
  /\ col' = c
  /\ UNCHANGED line

Join ==
  /\ OnLine /\ col = 0 /\ line > 0
  /\ lines' = Splice(line - 1, line + 1, <<lines[line] \o Here>>)
  /\ line' = line - 1
  /\ col' = Len(lines[line])

Delete == \/ col > 0 /\ DeleteTo(col - 1)
          \/ Join

DeleteToEnd ==
  /\ OnLine
  /\ lines' = [lines EXCEPT ![line + 1] = Before]
  /\ col' = Len(Before)
  /\ UNCHANGED line

ToggleComment ==
  /\ OnLine
  /\ LET n == Len(CommentMark)
     IN lines' = [lines EXCEPT ![line + 1] =
                    IF Len(@) >= n /\ SubSeq(@, 1, n) = CommentMark
                    THEN SubSeq(@, n + 1, Len(@)) ELSE CommentMark \o @]
  /\ col' = 0
  /\ UNCHANGED line

MoveTo(l, c) == line' = l /\ col' = c /\ UNCHANGED lines

Left == \/ col > 0 /\ MoveTo(line, Smaller(col - 1, LengthOf(line)))
        \/ col = 0 /\ line > 0 /\ MoveTo(line - 1, LengthOf(line - 1))
Right == /\ OnLine
         /\ IF col = Len(Here) THEN MoveTo(line + 1, 0)
                               ELSE MoveTo(line, Smaller(col + 1, Len(Here)))
Up == line > 0 /\ MoveTo(line - 1, Smaller(col, LengthOf(line - 1)))
Down == line < Len(lines) - 1 /\ MoveTo(line + 1, Smaller(col, LengthOf(line + 1)))
ToStart == MoveTo(line, 0)
ToEnd == \/ OnLine /\ MoveTo(line, Len(Here))
         \/ ~OnLine /\ line > 0 /\ MoveTo(line - 1, LengthOf(line - 1))
Still == MoveTo(line, Smaller(col, LengthOf(line)))

\* A page key or a search goes to a column of another line.
Jump == col' <= LengthOf(line') /\ UNCHANGED lines
================================================================================
