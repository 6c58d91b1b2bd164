--------------------------------- MODULE Editor ---------------------------------
(***************************************************************************)
(* The editor, src/src/kilo.c: the rows of a text, the cursor on the       *)
(* screen, the offsets of the screen in the text, and what each key does   *)
(* to them.  A handler is a function from the editor to the editor, as     *)
(* several keys call others' handlers in loops.  What happens to the text  *)
(* outside of the editor is in DevMode.                                    *)
(***************************************************************************)
EXTENDS Integers, SequencesExt

CONSTANTS Char,         \* what may be typed
          Space,        \* the blank among them
          TabChar,      \* a text may have it, no key types it
          Identifier,   \* the letters, digits, _ and : of Char
          TabStop,      \* 8
          CommentMark,  \* "--? "
          Texts,        \* texts that are opened: non-empty sequences of lines, or <<>>
          Cols, Height, \* the terminal, without menu and line numbers
          MaxRows, MaxSize,  \* bounds of the rows, and of rows and characters together
          MaxSearched,       \* bound of the texts in which a search starts; a row counts twice
          MaxQuery           \* bound of what is typed in a prompt

ASSUME EditorAssumption ==
  /\ Space \in Char /\ TabChar \notin Char /\ Identifier \subseteq Char \ {Space}
  /\ Cols > 1 /\ Height > 0 /\ TabStop > 0

VARIABLES E,      \* struct editorConfig
          mode,   \* "edit", "find", "go", "closed"
          query,  \* the prompt of ^f or ^g
          found,  \* last_match of editorFind(), -1 for none
          saved   \* the view before a search; the saved editor state when closed

vars == <<E, mode, query, found, saved>>

-----------------------------------------------------------------------------
(* Rows, and the highlighting of multi-line comments. Whether a row starts *)
(* inside a comment is known from the row above, as that was highlighted   *)
(* last, and a change is to reach the rows below through hl_oc. Among the  *)
(* characters "open" stands for --[[, "close" for --]] and "dash" for --,  *)
(* which starts a comment to the end of a row; none follows a letter.      *)

\* Outside of a comment --]] is an ordinary comment, to the end of the row.
Scan(chars, inside) ==
  FoldLeft(LAMBDA s, c : IF s.dash THEN s
                         ELSE IF s.inside THEN [s EXCEPT !.inside = c # "close"]
                         ELSE [inside |-> c = "open", dash |-> c \in {"dash", "close"}],
           [inside |-> inside, dash |-> FALSE], chars)
\* The blanks that a row starts with have no colour.
editorRowHasOpenComment(r) ==
  (\E i \in 1..Len(r.chars) : r.chars[i] \notin {Space, TabChar}) /\ Scan(r.chars, r.in_comment).inside
EndsInDash(r) == Scan(r.chars, r.in_comment).dash
StartsInside(rows, i) == i > 1 /\ editorRowHasOpenComment(rows[i - 1])

UpdateSyntaxTwice(rows, i, numrows) ==
  LET Highlit(rs, k) == [rs[k] EXCEPT !.in_comment = StartsInside(rs, k),
                                      !.hl_oc = editorRowHasOpenComment([rs[k] EXCEPT !.in_comment = StartsInside(rs, k)])]
      once == [rows EXCEPT ![i] = Highlit(rows, i)]
  IN IF i = Len(rows) THEN once ELSE [once EXCEPT ![i + 1] = Highlit(once, i + 1)]
\* A row that ends in a "dash" comment returns before hl_oc is looked at.
editorUpdateSyntax(rows, i, numrows) ==
  FoldLeft(LAMBDA s, k :
             LET r == [s.rows[k] EXCEPT !.in_comment = StartsInside(s.rows, k)]
                 oc == editorRowHasOpenComment(r)
             IN CASE ~s.go -> s
                  [] s.go /\ EndsInDash(r) -> [rows |-> [s.rows EXCEPT ![k] = r], go |-> FALSE]
                  [] OTHER -> [rows |-> [s.rows EXCEPT ![k] = [r EXCEPT !.hl_oc = oc]],
                               go |-> r.hl_oc # oc /\ k < numrows],
           [rows |-> rows, go |-> TRUE], [j \in 1..(Len(rows) - i + 1) |-> i + j - 1]).rows

\* numrows is counted after the new row was highlighted.
editorInsertRow(rows, at, chars) ==
  editorUpdateSyntax(InsertAt(rows, at, [chars |-> chars, in_comment |-> FALSE, hl_oc |-> FALSE]), at, Len(rows))
editorUpdateRow(rows, at, chars) == editorUpdateSyntax([rows EXCEPT ![at].chars = chars], at, Len(rows))
editorDelRow(rows, at) == RemoveAt(rows, at)
editorOpen(text) == FoldLeft(LAMBDA rows, chars : editorInsertRow(rows, Len(rows) + 1, chars), <<>>, text)

\* Row i is coloured as the row above ends, and how it ends itself is noted.
Coloured(rows, i) == rows[i].in_comment = StartsInside(rows, i)
Noted(rows, i) == rows[i].hl_oc = editorRowHasOpenComment(rows[i])
Current(rows) == \A i \in 1..Len(rows) : Coloured(rows, i) /\ Noted(rows, i)

-----------------------------------------------------------------------------

View(e) == [cx |-> e.cx, cy |-> e.cy, rowoff |-> e.rowoff, coloff |-> e.coloff]
TopLeft == [cx |-> 0, cy |-> 0, rowoff |-> 0, coloff |-> 0]
Opened(text, view) == view @@ [rows |-> editorOpen(text), lost |-> FALSE]

filerow(e) == e.rowoff + e.cy
filecol(e) == e.coloff + e.cx
HasRow(e) == filerow(e) < Len(e.rows)  \* row != NULL
chars(e) == e.rows[filerow(e) + 1].chars
size(e) == Len(chars(e))
text(e) == [i \in 1..Len(e.rows) |-> e.rows[i].chars]
\* The handler uses a row that does not exist, or never returns.
Lost(e) == [e EXCEPT !.lost = TRUE]

InsertRow(e, at, s) == [e EXCEPT !.rows = editorInsertRow(@, at + 1, s)]
UpdateRow(e, at, s) == [e EXCEPT !.rows = editorUpdateRow(@, at + 1, s)]

NextScreenRow(e) == IF e.cy = Height - 1 THEN [e EXCEPT !.rowoff = @ + 1] ELSE [e EXCEPT !.cy = @ + 1]

RowInsertUnpadded(row, at, c) == SubSeq(row, 1, Min({at, Len(row)})) \o <<c>> \o SubSeq(row, at + 1, Len(row))
RowInsertChar(row, at, c) ==
  SubSeq(row, 1, Min({at, Len(row)})) \o [i \in 1..Max({0, at - Len(row)}) |-> Space] \o <<c>> \o SubSeq(row, at + 1, Len(row))

RowAppendString(row, s) == row \o s
RowDelChar(row, at) == IF at >= Len(row) THEN row ELSE RemoveAt(row, at + 1)

InsertChar(e, c) ==
  IF e.lost \/ filerow(e) < 0 \/ filecol(e) < 0 THEN Lost(e) ELSE
  LET missing == [i \in 1..Max({0, filerow(e) + 1 - Len(e.rows)}) |-> Len(e.rows) + i - 1]
      padded == FoldLeft(LAMBDA x, r : InsertRow(x, r, <<>>), e, missing)
      typed == UpdateRow(padded, filerow(e), RowInsertChar(chars(padded), filecol(e), c))
  IN IF e.cx = Cols - 1 THEN [typed EXCEPT !.coloff = @ + 1] ELSE [typed EXCEPT !.cx = @ + 1]

InsertNewline(e) ==
  LET at == Min({filecol(e), size(e)})
      split == IF ~HasRow(e) \/ at = 0 THEN InsertRow(e, filerow(e), <<>>)
               ELSE UpdateRow(InsertRow(e, filerow(e) + 1, SubSeq(chars(e), at + 1, size(e))),
                              filerow(e), SubSeq(chars(e), 1, at))
  IN IF filerow(e) < 0 \/ filecol(e) < 0 THEN Lost(e)
     ELSE IF filerow(e) > Len(e.rows) THEN e
     ELSE [NextScreenRow(split) EXCEPT !.cx = 0, !.coloff = 0]

\* The indentation of the row above is typed again.
Enter(e) ==
  LET n == InsertNewline(e)
      prevrow == n.rows[filerow(n)].chars
      words == {i \in 1..Len(prevrow) : prevrow[i] # Space}
      indent == IF words = {} THEN prevrow ELSE SubSeq(prevrow, 1, Min(words) - 1)
  IN IF n.lost \/ filerow(n) \notin 1..Len(n.rows) THEN Lost(n) ELSE FoldLeft(InsertChar, n, indent)

\* Joining scrolls by (cols - cx) + 1, which is negative when the row is longer than the screen.
JoinRows(e) ==
  LET r == filerow(e)
      end == Len(e.rows[r].chars)
      shift == IF end >= Cols THEN Cols - end + 1 ELSE 0
      joined == [e EXCEPT !.rows = editorDelRow(editorUpdateRow(@, r, RowAppendString(@[r].chars, chars(e))), r + 1),
                          !.cx = end - shift, !.coloff = @ + shift]
  IN IF e.cy = 0 THEN [joined EXCEPT !.rowoff = @ - 1] ELSE [joined EXCEPT !.cy = @ - 1]

DelChar(e) ==
  LET erased == UpdateRow(e, filerow(e), RowDelChar(chars(e), filecol(e) - 1))
  IN CASE e.lost \/ filerow(e) < 0 \/ filecol(e) < 0 -> Lost(e)
       [] ~HasRow(e) \/ (filecol(e) = 0 /\ filerow(e) = 0) -> e
       [] filecol(e) = 0 -> JoinRows(e)
       [] e.cx = 0 /\ e.coloff # 0 -> [erased EXCEPT !.coloff = @ - 1]
       [] OTHER -> [erased EXCEPT !.cx = @ - 1]

KeyLeft(e) ==
  CASE e.cx # 0 -> [e EXCEPT !.cx = @ - 1]
    [] e.cx = 0 /\ e.coloff # 0 -> [e EXCEPT !.coloff = @ - 1]
    [] e.cx = 0 /\ e.coloff = 0 /\ filerow(e) > Len(e.rows) -> Lost(e)
    [] e.cx = 0 /\ e.coloff = 0 /\ filerow(e) = 0 -> e
    [] OTHER -> LET end == Len(e.rows[filerow(e)].chars)
                IN [e EXCEPT !.cy = @ - 1, !.cx = Min({end, Cols - 1}), !.coloff = Max({0, end - Cols + 1})]

KeyRightKeepsOffset(e) ==
  CASE HasRow(e) /\ filecol(e) < size(e) ->
         IF e.cx = Cols - 1 THEN [e EXCEPT !.coloff = @ + 1] ELSE [e EXCEPT !.cx = @ + 1]
    [] HasRow(e) /\ filecol(e) = size(e) -> NextScreenRow([e EXCEPT !.cx = 0])
    [] OTHER -> e
KeyRightNoWrap(e) ==
  IF ~HasRow(e) \/ filecol(e) >= size(e) THEN e
  ELSE IF e.cx = Cols - 1 THEN [e EXCEPT !.coloff = @ + 1] ELSE [e EXCEPT !.cx = @ + 1]
KeyRight(e) ==
  CASE HasRow(e) /\ filecol(e) < size(e) ->
         IF e.cx = Cols - 1 THEN [e EXCEPT !.coloff = @ + 1] ELSE [e EXCEPT !.cx = @ + 1]
    [] HasRow(e) /\ filecol(e) = size(e) -> NextScreenRow([e EXCEPT !.cx = 0, !.coloff = 0])
    [] OTHER -> e

KeyUp(e) == IF e.cy # 0 THEN [e EXCEPT !.cy = @ - 1] ELSE [e EXCEPT !.rowoff = Max({0, @ - 1})]
KeyDown(e) == IF filerow(e) < Len(e.rows) - 1 THEN NextScreenRow(e) ELSE e

FixColumnNever(e) == e
FixColumn(e) ==
  LET over == filecol(e) - (IF HasRow(e) THEN size(e) ELSE 0)
  IN IF over <= 0 THEN e
     ELSE [e EXCEPT !.cx = Max({0, @ - over}), !.coloff = @ + Min({0, e.cx - over})]

MoveCursor(e, Key(_)) ==
  LET k == Key(e)
  IN IF e.lost \/ filerow(e) < 0 \/ k.lost \/ filerow(k) < 0 THEN Lost(e) ELSE FixColumn(k)

Left(e) == MoveCursor(e, KeyLeft)
Right(e) == MoveCursor(e, KeyRight)
Up(e) == MoveCursor(e, KeyUp)
Down(e) == MoveCursor(e, KeyDown)

AtStartOfLine(e) == e.coloff = 0 /\ e.cx = 0
Repeat(Step(_), n, e) == LET after[i \in 0..n] == IF i = 0 THEN e ELSE Step(after[i - 1]) IN after[n]
\* Loops: no loop that ends runs more often than there are characters, rows and columns.
Until(Done(_), Step(_), e) ==
  LET last == Repeat(LAMBDA x : IF x.lost \/ Done(x) THEN x ELSE Step(x), MaxSize + MaxRows + Cols, e)
  IN IF Done(last) THEN last ELSE Lost(last)

Page(e, top, Key(_)) == Repeat(LAMBDA x : MoveCursor(x, Key), Height, [e EXCEPT !.cy = top])
CtrlA(e) == Until(AtStartOfLine, Left, e)
CtrlL(e) == Left(Until(AtStartOfLine, Right, Right(e)))
CtrlU(e) == Until(AtStartOfLine, DelChar, e)
CtrlK(e) == LET Cut(x) == Right(DelChar(x)) IN Left(Until(AtStartOfLine, Cut, Right(e)))

CommentCursorRow(e) == [UpdateRow(e, filerow(e), CommentMark \o chars(e)) EXCEPT !.cx = 0, !.coloff = 0]
UncommentCursorRow(e) == FoldLeft(LAMBDA x, c : DelChar(x), [e EXCEPT !.coloff = 0, !.cx = Len(CommentMark)], CommentMark)
CtrlSlash(e) ==
  IF filerow(e) \notin 0..Len(e.rows) - 1 THEN Lost(e)
  ELSE IF IsPrefix(CommentMark, chars(e)) THEN UncommentCursorRow(e) ELSE CommentCursorRow(e)

Characters(e) == FoldLeft(LAMBDA n, row : n + Len(row.chars), 0, e.rows)
Fits(e) == /\ Len(e.rows) <= MaxRows /\ filerow(e) < MaxRows
           /\ Len(e.rows) + Characters(e) <= MaxSize
Press(Handler(_)) ==
  /\ mode = "edit" /\ ~E.lost
  /\ UNCHANGED <<mode, query, found, saved>>
  /\ LET e == Handler(E) IN E' = (IF e.lost THEN Lost(E) ELSE e) /\ Fits(E')

TypeChar(c) == Press(LAMBDA e : InsertChar(e, c))
Tab == Press(LAMBDA e : InsertChar(InsertChar(e, Space), Space))
PressEnter == Press(Enter)
Backspace == Press(DelChar)
ArrowLeft == Press(Left)
ArrowRight == Press(Right)
ArrowUp == Press(Up)
ArrowDown == Press(Down)
PageUp == Press(LAMBDA e : Page(e, 0, KeyUp))
PageDown == Press(LAMBDA e : Page(e, Height - 1, KeyDown))
StartOfLine == Press(CtrlA)
EndOfLine == Press(CtrlL)
KillToStart == Press(CtrlU)
KillToEnd == Press(CtrlK)
ToggleComment == Press(CtrlSlash)

\* What is drawn, and searched: a tab goes on to the last column before a stop.
Rendered(row) ==
  FoldLeft(LAMBDA s, c : IF c # TabChar THEN Append(s, c)
                         ELSE s \o [i \in 1..(TabStop - ((Len(s) + 1) % TabStop)) |-> Space],
           <<>>, row)

\* The prompt of ^f: every key that leaves no last match searches forward from
\* the top.  The column of a match is one of the row that is drawn.
StartsIn(row, q) == {i \in 1..(Len(row) - Len(q) + 1) : SubSeq(row, i, i + Len(q) - 1) = q}
Find(q, current, step) ==
  LET n == Len(E.rows)
      rowOf(k) == (IF current = -1 THEN k - 1 ELSE current + step * k) % n
      hits == {k \in 1..n : StartsIn(Rendered(text(E)[rowOf(k) + 1]), q) # {}}
      row == rowOf(Min(hits))
      at == Min(StartsIn(Rendered(text(E)[row + 1]), q)) - 1
  IN IF n = 0 \/ hits = {} THEN UNCHANGED E /\ found' = current
     ELSE /\ found' = row
          /\ E' = [E EXCEPT !.cy = 0, !.rowoff = row, !.cx = Min({at, Cols}), !.coloff = Max({0, at - Cols})]

StartFind ==
  /\ mode = "edit" /\ ~E.lost /\ 2 * Len(E.rows) + Characters(E) <= MaxSearched
  /\ mode' = "find" /\ query' = <<>> /\ found' = -1 /\ saved' = View(E)
  /\ UNCHANGED E
QueryKey ==
  /\ mode = "find"
  /\ \E q \in {Append(query, c) : c \in Char} \cup {SubSeq(query, 1, Len(query) - 1)} :
       /\ Len(q) <= MaxQuery
       /\ query' = q
       /\ Find(q, -1, 1)
  /\ UNCHANGED <<mode, saved>>
ClearQuery ==
  /\ mode = "find"
  /\ query' = <<>>
  /\ IF found = -1 THEN Find(<<>>, -1, 1) ELSE UNCHANGED <<E, found>>
  /\ UNCHANGED <<mode, saved>>
NextMatch(step) ==
  /\ mode = "find"
  /\ Find(query, found, IF found = -1 THEN 1 ELSE step)
  /\ UNCHANGED <<mode, query, saved>>
EndFind(cancel) ==
  /\ mode = "find"
  /\ mode' = "edit" /\ query' = <<>> /\ found' = -1 /\ saved' = TopLeft
  /\ E' = IF cancel THEN saved @@ E ELSE E

\* ^x and ^b leave the editor; the saved position is for the text of ^x, the
\* next text may be another one.
Leave(view) ==
  /\ mode = "edit" /\ ~E.lost
  /\ mode' = "closed" /\ saved' = view
  /\ E' = TopLeft @@ E
  /\ UNCHANGED <<query, found>>
Run == Leave(View(E))
BackToBigPicture == Leave(TopLeft)
Open(view) ==
  /\ \E t \in Texts \cup {text(E)} : E' = Opened(t, view) /\ Fits(E')
  /\ mode' = "edit" /\ query' = <<>> /\ saved' = TopLeft
  /\ UNCHANGED found
Edit == mode = "closed" /\ Open(TopLeft)
EditFrom == mode = "closed" /\ Open(saved)

\* The prompt of ^g starts with the word before the cursor and goes on after it.
word_at_cursor(e) ==
  LET other(from, to) == {i \in from..to : chars(e)[i] \notin Identifier}
      before == Max({0} \cup other(1, filecol(e)))
  IN SubSeq(chars(e), before + 1, Min({size(e) + 1} \cup other(before + 1, size(e))) - 1)

\* The row ends in a zero byte; what is read beyond it, or in a row that does
\* not exist, is lost.  Without rows there is no pointer to one.  The keys of the
\* prompt may make any name of it.
StartGo ==
  /\ mode = "edit" /\ ~E.lost
  /\ CASE filerow(E) \in 0..Len(E.rows) - 1 /\ filecol(E) \in 0..size(E) + 1 ->
            /\ mode' = "go" /\ UNCHANGED E
            /\ query' = IF filecol(E) > size(E) THEN <<>> ELSE word_at_cursor(E)
       [] E.rows = <<>> /\ filerow(E) = 0 -> mode' = "go" /\ query' = <<>> /\ UNCHANGED E
       [] OTHER -> E' = Lost(E) /\ UNCHANGED <<mode, query>>
  /\ UNCHANGED <<found, saved>>
CancelGo ==
  /\ mode = "go"
  /\ mode' = "edit" /\ query' = <<>>
  /\ UNCHANGED <<E, found, saved>>
Go == mode = "go" /\ Open(TopLeft)
Restart == E.lost /\ Open(TopLeft)

Init ==
  /\ \E t \in Texts : E = Opened(t, TopLeft)
  /\ mode = "edit" /\ query = <<>> /\ found = -1 /\ saved = TopLeft

Next ==
  \/ \E c \in Char : TypeChar(c)
  \/ Tab \/ PressEnter \/ Backspace
  \/ ArrowLeft \/ ArrowRight \/ ArrowUp \/ ArrowDown
  \/ PageUp \/ PageDown \/ StartOfLine \/ EndOfLine
  \/ KillToStart \/ KillToEnd \/ ToggleComment
  \/ StartFind \/ QueryKey \/ ClearQuery \/ NextMatch(1) \/ NextMatch(-1) \/ EndFind(TRUE) \/ EndFind(FALSE)
  \/ Run \/ BackToBigPicture \/ Edit \/ EditFrom \/ StartGo \/ CancelGo \/ Go \/ Restart

Spec == Init /\ [][Next]_vars

(***************************************************************************)
(* Properties                                                              *)
(***************************************************************************)

T == INSTANCE TextBuffer WITH lines <- text(E), line <- filerow(E), col <- filecol(E)

OnRow == filerow(E) \in 0..Len(E.rows) - 1
InLine(e) == filecol(e) \in 0..(IF HasRow(e) THEN size(e) ELSE 0)
InViewport == /\ E.cx \in 0..Cols - 1 /\ E.cy \in 0..Height - 1
              /\ E.coloff >= 0 /\ E.rowoff >= 0

\* However the screen is scrolled, each key changes the text where the cursor
\* is: editorInsertChar(), editorInsertNewline() with the indentation of
\* editorProcessKeypress2(), editorDelChar() and the loops of ^u, ^k, ^/.
KeysEditText ==
  [][E.coloff >= 0 /\ ~E'.lost =>
       /\ \A c \in Char : TypeChar(c) => T!Type(<<c>>)
       /\ Tab => T!Type(<<Space, Space>>)
       /\ PressEnter => T!NewLine
       /\ Backspace /\ OnRow => T!Delete \/ T!Still
       /\ KillToStart /\ OnRow => T!DeleteTo(0)
       /\ KillToEnd /\ OnRow /\ InLine(E) => T!DeleteToEnd
       /\ ToggleComment => T!ToggleComment]_vars

\* In the prompt of ^f the cursor is on an occurrence of the query when there is
\* a last match, although the match is scrolled sideways; but tabs up to its end
\* count as drawn, and then it may be anywhere (editorFind()).
TabUpTo(n) == \E i \in 1..Min({n, size(E)}) : chars(E)[i] = TabChar
FindHits ==
  mode = "find" /\ found # -1 =>
    /\ filerow(E) = found
    /\ filecol(E) + 1 \in StartsIn(chars(E), query) \/ TabUpTo(filecol(E) + Len(query))

\* Arrows, ^a, ^l and searches move through the text whatever is scrolled, a
\* key that moves never changes the text, and a cursor in its line stays in its
\* line, so that what is typed next is where it shows; only a restored position
\* may be outside, and a match right of a tab (editorMoveCursor(), editorFind(),
\* editFrom()).
KeysMoveCursor ==
  [][/\ mode # "closed" /\ mode' # "closed" /\ OnRow /\ E.coloff >= 0 /\ ~E'.lost =>
          /\ ArrowLeft => T!Left \/ T!Still
          /\ ArrowRight => T!Right
          /\ ArrowUp => T!Up \/ T!Still
          /\ ArrowDown => T!Down \/ T!Still
          /\ StartOfLine => T!ToStart
          /\ EndOfLine /\ InLine(E) => T!ToEnd
          /\ PageUp \/ PageDown => T!Jump \/ E' = E
          /\ mode = "find" /\ mode' = "find" =>
               T!Jump \/ E' = E \/ (text(E)' = text(E) /\ TabUpTo(filecol(E) + Len(query))')
     /\ mode = "edit" /\ mode' = "edit" /\ InLine(E) /\ E.coloff >= 0 /\ ~E'.lost => InLine(E')
     /\ FindHits']_vars

\* With the cursor on a row and on the screen no key uses a row that does not
\* exist, and the loops of ^a, ^l, ^u and ^k end; but ^g reads the word at a
\* cursor that a restored position, or a match right of a tab, left beyond the
\* end of its row (word_at_cursor()).
SafeOnText ==
  [][OnRow /\ InViewport /\ ~E.lost =>
       ~E'.lost \/ (StartGo /\ filecol(E) > size(E) + 1)]_vars

\* Where the colours of a text are right, a key that changes a row recolours as
\* many rows below as needed, except right below a row that now ends in a one-line
\* comment; and a text that is opened is coloured right whatever editing had left
\* wrong (editorUpdateSyntax()).
HighlightPropagates ==
  [][/\ Current(E.rows) /\ Len(E'.rows) = Len(E.rows) =>
          \A i \in 1..Len(E'.rows) :
             /\ Coloured(E'.rows, i) \/ EndsInDash(E'.rows[i - 1])
             /\ Noted(E'.rows, i) \/ EndsInDash(E'.rows[i])
     /\ Edit \/ EditFrom \/ Go => Current(E'.rows)]_vars
================================================================================
