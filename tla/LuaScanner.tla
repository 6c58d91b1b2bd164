-------------------------------- MODULE LuaScanner --------------------------------
(***************************************************************************)
(* The Lua scanner, src/src/llex.c: characters to tokens <<kind, text>>,   *)
(* where the kind of a reserved word or an operator is its text.  A state  *)
(* of the scanner has the characters left, the line, the buffer, the token *)
(* and the one looked ahead at; after an error its token is <<"error">>.   *)
(***************************************************************************)
EXTENDS Integers, FiniteSets, SequencesExt

\* The characters that programs are made of here.
Digits == {"0", "1", "2", "9"}
Letters == {"a", "d", "e", "f", "i", "n", "o", "x", "E", "_"}
Newlines == {"\n", "\r"}
Spaces == {" ", "\t"}
Reserved == {<<"e", "n", "d">>, <<"i", "f">>, <<"n", "i", "l">>, <<"d", "o">>}
EOZ == "end of input"

Current(ls) == IF ls.rest = <<>> THEN EOZ ELSE Head(ls.rest)
Given(value, Body(_)) == Body(value)
next(ls) == IF ls.rest = <<>> THEN ls ELSE [ls EXCEPT !.rest = Tail(@)]
save(ls, c) == [ls EXCEPT !.buff = Append(@, c)]
save_and_next(ls) == next(save(ls, Current(ls)))
resetbuffer(ls) == [ls EXCEPT !.buff = <<>>]
currIsNewline(ls) == Current(ls) \in Newlines

Found(ls, token) == [ls EXCEPT !.t = token]
lexerror(ls, msg) == [Found(ls, <<"error", msg>>) EXCEPT !.rest = <<>>]

\* A pair of different newline characters is one newline.
inclinenumber(ls) ==
  LET second == next(ls)
  IN [(IF currIsNewline(second) /\ Current(second) # Current(ls) THEN next(second) ELSE second) EXCEPT !.linenumber = @ + 1]

\* Mutant: every newline character counts.
inclinenumberEach(ls) == [next(ls) EXCEPT !.linenumber = @ + 1]

RECURSIVE SaveWhile(_, _)
SaveWhile(ls, set) == IF Current(ls) \in set THEN SaveWhile(save_and_next(ls), set) ELSE ls

check_next(ls, set) == IF Current(ls) \in set THEN save_and_next(ls) ELSE ls

-----------------------------------------------------------------------------
(* Numerals.  The digits, dots, exponent and letters that read_numeral     *)
(* takes are a numeral if strtod or strtoul takes them all.                *)

AllIn(s, set) == s # <<>> /\ \A j \in DOMAIN s : s[j] \in set
Decimal(s) ==
  LET dots == {j \in DOMAIN s : s[j] = "."} IN Cardinality(dots) <= 1 /\ s # <<".">> /\ AllIn(s, Digits \cup {"."})
Exponent(s) == AllIn(s, Digits) \/ (s # <<>> /\ s[1] \in {"+", "-"} /\ AllIn(Tail(s), Digits))
luaO_str2d(s) ==
  \/ Decimal(s)
  \/ \E j \in DOMAIN s : s[j] \in {"e", "E"} /\ Decimal(SubSeq(s, 1, j - 1)) /\ Exponent(SubSeq(s, j + 1, Len(s)))
  \/ Len(s) > 2 /\ s[1] = "0" /\ s[2] = "x" /\ AllIn(SubSeq(s, 3, Len(s)), Digits \cup {"a", "d", "e", "f", "E"})

read_numeral(ls) ==
  LET digits == SaveWhile(ls, Digits \cup {"."})
      sign == IF Current(digits) \in {"E", "e"} THEN check_next(save_and_next(digits), {"+", "-"}) ELSE digits
      all == SaveWhile(sign, Letters \cup Digits)
  IN IF luaO_str2d(all.buff) THEN Found(all, <<"number", all.buff>>) ELSE lexerror(all, "malformed number")

-----------------------------------------------------------------------------
(* Strings and comments                                                    *)

\* Over [==[ or ]==]: how many =, or a negative number if the second bracket is missing.
skip_sep(ls) ==
  LET signs == SaveWhile(save_and_next(ls), {"="})
      count == Len(signs.buff) - Len(ls.buff) - 1
  IN [ls |-> signs, sep |-> IF Current(signs) = Current(ls) THEN count ELSE -count - 1]

\* From the second [ of a long string or comment (whose text is not kept).
RECURSIVE long_string_from(_, _, _)
long_string_from(ls, comment, sep) ==
  LET c == Current(ls)
      after(bracket) ==
        CASE bracket.sep # sep -> long_string_from(bracket.ls, comment, sep)
          [] bracket.sep = sep /\ c = "]" -> save_and_next(bracket.ls)
          [] bracket.sep = sep /\ c = "[" ->
               IF sep = 0 THEN lexerror(ls, "nesting is deprecated") ELSE long_string_from(save_and_next(bracket.ls), comment, sep)
  IN CASE c = EOZ -> lexerror(ls, "unfinished long string")
       [] c \in {"[", "]"} -> Given(skip_sep(ls), after)
       [] c \in Newlines -> long_string_from(inclinenumber(IF comment THEN resetbuffer(ls) ELSE save(ls, "\n")), comment, sep)
       [] OTHER -> long_string_from(IF comment THEN next(ls) ELSE save_and_next(ls), comment, sep)

read_long_string(ls, comment, sep) ==
  LET skipped == Given(save_and_next(ls), LAMBDA opened : IF currIsNewline(opened) THEN inclinenumber(opened) ELSE opened)
  IN Given(long_string_from(skipped, comment, sep), LAMBDA end :
       IF comment \/ end.t[1] = "error" THEN end
       ELSE Found(end, <<"string", SubSeq(end.buff, 3 + sep, Len(end.buff) - (2 + sep))>>))

EscapeOf == [c \in {"n", "r", "t"} |-> CASE c = "n" -> "\n" [] c = "r" -> "\r" [] c = "t" -> "\t"]
Value(digits) == FoldLeft(LAMBDA n, d : 10 * n + (CASE d = "0" -> 0 [] d = "1" -> 1 [] d = "2" -> 2 [] d = "9" -> 9), 0, digits)
CharOf(n) == IF n = 10 THEN "\n" ELSE IF n = 99 THEN "c" ELSE IF n = 0 THEN "NUL" ELSE "other"

\* After the backslash.
escape(ls) ==
  LET c == Current(ls)
      digits == {n \in 1..3 : n <= Len(ls.rest) /\ AllIn(SubSeq(ls.rest, 1, n), Digits)}
      n == Max(digits)
      value == Value(SubSeq(ls.rest, 1, n))
  IN CASE c = EOZ -> ls
       [] c \in DOMAIN EscapeOf -> next(save(ls, EscapeOf[c]))
       [] c \in Newlines -> inclinenumber(save(ls, "\n"))
       [] c \in Digits /\ value > 255 -> lexerror(ls, "escape sequence too large")
       [] c \in Digits /\ value <= 255 -> save([ls EXCEPT !.rest = SubSeq(@, n + 1, Len(@))], CharOf(value))
       [] OTHER -> save_and_next(ls)

RECURSIVE string_until(_, _)
string_until(ls, del) ==
  LET c == Current(ls)
  IN CASE ls.t[1] = "error" -> ls
       [] c = del -> Found(save_and_next(ls), <<"string", Tail(ls.buff)>>)
       [] ls.t[1] # "error" /\ (c = EOZ \/ c \in Newlines) -> lexerror(ls, "unfinished string")
       [] c = "\\" -> string_until(escape(next(ls)), del)
       [] OTHER -> string_until(save_and_next(ls), del)

read_string(ls) == string_until(save_and_next(ls), Current(ls))

-----------------------------------------------------------------------------
RECURSIVE SkipLine(_)
SkipLine(ls) == IF currIsNewline(ls) \/ Current(ls) = EOZ THEN ls ELSE SkipLine(next(ls))

\* After the two signs that begin it.
comment_from(ls) ==
  IF Current(ls) # "[" THEN SkipLine(ls)
  ELSE Given(skip_sep(ls), LAMBDA bracket :
         IF bracket.sep >= 0 THEN read_long_string(resetbuffer(bracket.ls), TRUE, bracket.sep)
         ELSE SkipLine(resetbuffer(bracket.ls)))

\* Operators of one character, or of two if the second is =.
Compared == [c \in {"=", "<", ">", "~"} |-> CASE c = "=" -> "==" [] c = "<" -> "<=" [] c = ">" -> ">=" [] c = "~" -> "~="]

dots(ls) ==
  Given(save_and_next(ls), LAMBDA dot :
    IF Current(dot) = "." THEN
      IF Current(next(dot)) = "." THEN Found(next(next(dot)), <<"...">>) ELSE Found(next(dot), <<"..">>)
    ELSE IF Current(dot) \in Digits THEN read_numeral(dot) ELSE Found(dot, <<".">>))

brackets(ls) ==
  Given(skip_sep(ls), LAMBDA bracket :
    IF bracket.sep >= 0 THEN read_long_string(bracket.ls, FALSE, bracket.sep)
    ELSE IF bracket.sep = -1 THEN Found(bracket.ls, <<"[">>) ELSE lexerror(ls, "invalid long string delimiter"))

identifier(ls) ==
  Given(SaveWhile(ls, Letters \cup Digits), LAMBDA name :
    Found(name, IF name.buff \in Reserved THEN name.buff ELSE <<"name", name.buff>>))

RECURSIVE llex(_)
llex(old) ==
  LET ls == resetbuffer(old)
      c == Current(ls)
      second == next(ls)
  IN CASE ls.t[1] = "error" -> ls
       [] c \in Newlines -> llex(inclinenumber(ls))
       [] c \in Spaces -> llex(second)
       [] c = "-" -> IF Current(second) = "-" THEN llex(comment_from(next(second))) ELSE Found(second, <<"-">>)
       [] c = "[" -> brackets(ls)
       [] c \in DOMAIN Compared ->
            IF Current(second) = "=" THEN Found(next(second), <<Compared[c]>>) ELSE Found(second, <<c>>)
       [] c \in {"\"", "'"} -> read_string(ls)
       [] c = "." -> dots(ls)
       [] ls.t[1] # "error" /\ c = EOZ -> Found(ls, <<"eos">>)
       [] c \in Digits -> read_numeral(ls)
       [] c \in Letters -> identifier(ls)
       [] OTHER -> Found(second, <<c>>)

luaX_setinput(text) ==
  [rest |-> text, linenumber |-> 1, lastline |-> 1, buff |-> <<>>, t |-> <<"none">>, lookahead |-> <<"eos">>]

luaX_next(ls) ==
  LET at == [ls EXCEPT !.lastline = ls.linenumber]
  IN IF ls.lookahead # <<"eos">> THEN [at EXCEPT !.t = ls.lookahead, !.lookahead = <<"eos">>] ELSE llex(at)

luaX_lookahead(ls) == Given(llex(ls), LAMBDA ahead : [ahead EXCEPT !.t = ls.t, !.lookahead = ahead.t])

-----------------------------------------------------------------------------
\* The tokens of a text, up to its end or an error, and their lines; before the jth one the parser looks ahead if j \in looks.
RECURSIVE TokensFrom(_, _, _)
TokensFrom(ls, looks, got) ==
  LET more(read, all) ==
        IF read.t[1] \in {"eos", "error"} THEN all
        ELSE TokensFrom(IF Len(all) \in looks THEN luaX_lookahead(read) ELSE read, looks, all)
  IN Given(luaX_next(ls), LAMBDA read : more(read, Append(got, <<read.t, read.linenumber>>)))
Tokens(text, looks) == TokensFrom(luaX_setinput(text), looks, <<>>)

\* A text made of pieces, which know their tokens and on how many further lines they end, gives these tokens, up to an error.
ScansAsMeant(pieces, looks) ==
  LET Add(so_far, piece) ==
        [line |-> so_far.line + piece.lines,
         tokens |-> so_far.tokens \o [j \in DOMAIN piece.tokens |-> <<piece.tokens[j], so_far.line + piece.lines>>]]
      all == FoldLeft(Add, [line |-> 1, tokens |-> <<>>], Append(pieces, [text |-> <<>>, lines |-> 0, tokens |-> <<<<"eos">>>>]))
      first == Min({j \in DOMAIN all.tokens : all.tokens[j][1][1] \in {"error", "eos"}})
  IN Tokens(FlattenSeq([j \in DOMAIN pieces |-> pieces[j].text]), looks) = SubSeq(all.tokens, 1, first)
=============================================================================
