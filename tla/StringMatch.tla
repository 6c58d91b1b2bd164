------------------------------ MODULE StringMatch ------------------------------
(***************************************************************************)
(* The string library, lstrlib.c: the pattern matcher and string.find,     *)
(* match, gmatch and gsub on it; slices, formats, and the buffers of       *)
(* lauxlib.c. Subjects and patterns are sequences of characters; p and s   *)
(* are positions in them. The captures of a MatchState live through failed *)
(* attempts and are undone by hand; an error ends everything.              *)
(*   Beside it stands what a pattern means: the matches of a tree of       *)
(* items, all of them, the preferred ones first.                           *)
(***************************************************************************)
EXTENDS Integers, FiniteSets, SequencesExt

NULL == 0
Raised == -1
CAP_UNFINISHED == -1
CAP_POSITION == -2
LUA_MAXCAPTURES == 3    \* 32 in the code

\* Both strings end with a zero.
At(string, i) == IF i \in DOMAIN string THEN string[i] ELSE "\\0"
Letters == {"a", "b", "x"}
Digits == {"1", "2", "0"}

match_class(c, cl) ==
    CASE cl = "a" -> c \in Letters
      [] cl = "A" -> c \notin Letters
      [] cl = "d" -> c \in Digits
      [] cl = "w" -> c \in Letters \cup Digits
      [] cl = "z" -> c = "\\0"
      [] OTHER -> c = cl

\* Past the "]": the first character after "[" or "[^" never ends the set.
RECURSIVE setend(_, _)
setend(pat, p) ==
    IF At(pat, p) = "\\0" THEN Raised
    ELSE LET next == IF pat[p] = "%" /\ At(pat, p + 1) # "\\0" THEN p + 2 ELSE p + 1
         IN IF At(pat, next) = "]" THEN next + 1 ELSE setend(pat, next)

classend(pat, p) ==
    CASE pat[p] = "%" -> IF At(pat, p + 1) = "\\0" THEN Raised ELSE p + 2
      [] pat[p] = "[" -> setend(pat, IF At(pat, p + 1) = "^" THEN p + 2 ELSE p + 1)
      [] OTHER -> p + 1

\* The characters of a range are in the order of this sequence.
Order == <<"%", "-", "0", "1", "2", "]", "^", "a", "b", "x">>
Between(lo, c, hi) ==
    \E i, j, k \in DOMAIN Order : i <= j /\ j <= k /\ <<lo, c, hi>> = <<Order[i], Order[j], Order[k]>>

\* ec is the place of the "]".
RECURSIVE inset(_, _, _, _)
inset(c, pat, p, ec) ==
    /\ p < ec
    /\ CASE pat[p] = "%" -> match_class(c, pat[p + 1]) \/ inset(c, pat, p + 2, ec)
         [] pat[p] # "%" /\ pat[p + 1] = "-" /\ p + 2 < ec ->
              Between(pat[p], c, pat[p + 2]) \/ inset(c, pat, p + 3, ec)
         [] OTHER -> pat[p] = c \/ inset(c, pat, p + 1, ec)

matchbracketclass(c, pat, p, ec) ==
    IF pat[p + 1] = "^" THEN ~inset(c, pat, p + 2, ec) ELSE inset(c, pat, p + 1, ec)

singlematch(c, pat, p, ep) ==
    CASE pat[p] = "." -> TRUE
      [] pat[p] = "%" -> match_class(c, pat[p + 1])
      [] pat[p] = "[" -> matchbracketclass(c, pat, p, ep - 1)
      [] OTHER -> pat[p] = c

-----------------------------------------------------------------------------
(* match(): a result [end, ms], where ms has what is left of the captures. *)

Given(value, Body(_)) == Body(value)
NoCaptures == [level |-> 0, capture |-> [l \in 1..LUA_MAXCAPTURES |-> [init |-> 0, len |-> 0]]]
Ends(e, ms) == [end |-> e, ms |-> ms]

RECURSIVE balanced(_, _, _, _, _)
balanced(src, s, open, close, depth) ==
    IF s > Len(src) THEN NULL
    ELSE IF src[s] = close
         THEN IF depth = 1 THEN s + 1 ELSE balanced(src, s + 1, open, close, depth - 1)
         ELSE balanced(src, s + 1, open, close, IF src[s] = open THEN depth + 1 ELSE depth)

matchbalance(src, s, pat, p) ==
    IF At(pat, p) = "\\0" \/ At(pat, p + 1) = "\\0" THEN Raised
    ELSE IF At(src, s) # pat[p] THEN NULL
    ELSE balanced(src, s + 1, pat[p], pat[p + 1], 1)

capture_to_close(ms) ==
    LET open == {l \in 1..ms.level : ms.capture[l].len = CAP_UNFINISHED}
    IN IF open = {} THEN Raised ELSE Max(open)

check_capture(ms, digit) ==
    LET l == CHOOSE i \in 0..2 : digit = <<"0", "1", "2">>[i + 1]
    IN IF l \notin 1..ms.level \/ ms.capture[l].len = CAP_UNFINISHED THEN Raised ELSE l

\* A position capture has a length of -2: memcmp() of what is too long for s.
match_capture(src, s, ms, digit) ==
    LET l == check_capture(ms, digit)
        c == ms.capture[l]
    IN IF l = Raised THEN Raised
       ELSE IF c.len >= 0 /\ Len(src) - s + 1 >= c.len
               /\ SubSeq(src, c.init, c.init + c.len - 1) = SubSeq(src, s, s + c.len - 1)
            THEN s + c.len ELSE NULL

RECURSIVE match(_, _, _, _, _), tryexpand(_, _, _, _, _, _), min_expand(_, _, _, _, _, _)

expandable(src, s, pat, p, ep) ==
    CHOOSE n \in 0..(Len(src) - s + 1) :
        /\ \A i \in 0..(n - 1) : singlematch(src[s + i], pat, p, ep)
        /\ s + n <= Len(src) => ~singlematch(src[s + n], pat, p, ep)

tryexpand(src, s, pat, ep, i, ms) ==
    Given(match(src, s + i, pat, ep + 1, ms), LAMBDA r :
      IF r.end # NULL \/ i = 0 THEN r ELSE tryexpand(src, s, pat, ep, i - 1, r.ms))

max_expand(src, s, pat, p, ep, ms) ==
    tryexpand(src, s, pat, ep, expandable(src, s, pat, p, ep), ms)

min_expand(src, s, pat, p, ep, ms) ==
    Given(match(src, s, pat, ep + 1, ms), LAMBDA r :
      IF r.end # NULL THEN r
      ELSE IF s <= Len(src) /\ singlematch(src[s], pat, p, ep)
           THEN min_expand(src, s + 1, pat, p, ep, r.ms) ELSE r)

\* Mutant: a capture that failed stays open.
start_captureKept(src, s, pat, p, what, ms) ==
    IF ms.level >= LUA_MAXCAPTURES THEN Ends(Raised, ms)
    ELSE match(src, s, pat, p, [ms EXCEPT !.capture[ms.level + 1] = [init |-> s, len |-> what],
                                          !.level = @ + 1])

start_capture(src, s, pat, p, what, ms) ==
    IF ms.level >= LUA_MAXCAPTURES THEN Ends(Raised, ms)
    ELSE Given(match(src, s, pat, p,
                     [ms EXCEPT !.capture[ms.level + 1] = [init |-> s, len |-> what],
                                !.level = @ + 1]), LAMBDA r :
           IF r.end = NULL THEN [r EXCEPT !.ms.level = @ - 1] ELSE r)

end_capture(src, s, pat, p, ms) ==
    LET l == capture_to_close(ms)
        closed == [ms EXCEPT !.capture[l].len = s - ms.capture[l].init]
    IN IF l = Raised THEN Ends(Raised, ms)
       ELSE Given(match(src, s, pat, p, closed), LAMBDA r :
              IF r.end = NULL THEN [r EXCEPT !.ms.capture[l].len = CAP_UNFINISHED] ELSE r)

frontier(src, s, pat, p) ==
    LET ep == classend(pat, p)
    IN IF At(pat, p) # "[" \/ ep = Raised THEN Raised
       ELSE IF matchbracketclass(At(src, s - 1), pat, p, ep - 1)
               \/ ~matchbracketclass(At(src, s), pat, p, ep - 1) THEN NULL ELSE ep

\* What a part of the pattern found, and the pattern after it.
goon(src, s, pat, p, ms) == IF s \in {NULL, Raised} THEN Ends(s, ms) ELSE match(src, s, pat, p, ms)

item(src, s, pat, p, ms) ==
    LET ep == classend(pat, p)
        m == s <= Len(src) /\ singlematch(src[s], pat, p, ep)
    IN IF ep = Raised THEN Ends(Raised, ms)
       ELSE CASE At(pat, ep) = "?" ->
                   Given(IF m THEN match(src, s + 1, pat, ep + 1, ms) ELSE Ends(NULL, ms), LAMBDA r :
                     IF r.end # NULL THEN r ELSE match(src, s, pat, ep + 1, r.ms))
              [] At(pat, ep) = "*" -> max_expand(src, s, pat, p, ep, ms)
              [] At(pat, ep) = "+" ->
                   IF m THEN max_expand(src, s + 1, pat, p, ep, ms) ELSE Ends(NULL, ms)
              [] At(pat, ep) = "-" -> min_expand(src, s, pat, p, ep, ms)
              [] OTHER -> goon(src, IF m THEN s + 1 ELSE NULL, pat, ep, ms)

match(src, s, pat, p, ms) ==
    LET this == At(pat, p)
        next == At(pat, p + 1)
    IN CASE this = "(" /\ next = ")" -> start_capture(src, s, pat, p + 2, CAP_POSITION, ms)
         [] this = "(" /\ next # ")" -> start_capture(src, s, pat, p + 1, CAP_UNFINISHED, ms)
         [] this = ")" -> end_capture(src, s, pat, p + 1, ms)
         [] this = "%" /\ next = "b" -> goon(src, matchbalance(src, s, pat, p + 2), pat, p + 4, ms)
         [] this = "%" /\ next = "f" ->
              LET ep == frontier(src, s, pat, p + 2)
              IN goon(src, IF ep \in {NULL, Raised} THEN ep ELSE s, pat, ep, ms)
         [] this = "%" /\ next \in Digits ->
              goon(src, match_capture(src, s, ms, next), pat, p + 2, ms)
         [] this = "\\0" -> Ends(s, ms)
         [] this = "$" /\ next = "\\0" -> Ends(IF s = Len(src) + 1 THEN s ELSE NULL, ms)
         [] OTHER -> item(src, s, pat, p, ms)

-----------------------------------------------------------------------------
(* The functions of the string library.                                    *)

push_onecapture(ms, l, s, e) ==
    IF l > ms.level THEN IF l = 1 THEN <<s, e>> ELSE <<Raised>>
    ELSE LET c == ms.capture[l]
         IN IF c.len = CAP_UNFINISHED THEN <<Raised>>
            ELSE IF c.len = CAP_POSITION THEN <<c.init>>
            ELSE <<c.init, c.init + c.len>>

push_captures(ms, s, e) ==
    [l \in 1..(IF ms.level = 0 THEN 1 ELSE ms.level) |-> push_onecapture(ms, l, s, e)]

NotFound == [start |-> 0, end |-> 0, captures |-> <<>>]

RECURSIVE str_find_aux(_, _, _, _)
str_find_aux(src, s1, pat, anchor) ==
    Given(match(src, s1, pat, IF anchor THEN 2 ELSE 1, NoCaptures), LAMBDA r :
      IF r.end # NULL
      THEN [start |-> s1, end |-> r.end,
            captures |-> IF r.end = Raised THEN <<>> ELSE push_captures(r.ms, s1, r.end)]
      ELSE IF s1 <= Len(src) /\ ~anchor THEN str_find_aux(src, s1 + 1, pat, anchor) ELSE NotFound)

str_find(src, pat) == str_find_aux(src, 1, pat, At(pat, 1) = "^")

RECURSIVE lmemfind(_, _, _)
lmemfind(src, s1, pat) ==
    IF pat = <<>> THEN s1
    ELSE IF s1 + Len(pat) - 1 > Len(src) THEN NULL
    ELSE IF SubSeq(src, s1, s1 + Len(pat) - 1) = pat THEN s1 ELSE lmemfind(src, s1 + 1, pat)

\* All the matches that the iterator gives, from position s on.
RECURSIVE gmatch_aux(_, _, _)
gmatch_aux(src, s, pat) ==
    IF s > Len(src) + 1 THEN <<>>
    ELSE Given(match(src, s, pat, 1, NoCaptures), LAMBDA r :
           IF r.end = NULL THEN gmatch_aux(src, s + 1, pat)
           ELSE <<push_captures(r.ms, s, r.end)>>
                \o gmatch_aux(src, IF r.end = s THEN s + 1 ELSE r.end, pat))

\* In a replacement "%0" stands for the match, "%1" for its first capture.
add_s(news, src, s, e, ms) ==
    LET one == push_onecapture(ms, 1, s, e)
        piece(c) == CASE c = "%0" -> SubSeq(src, s, e - 1)
                      [] c = "%1" -> SubSeq(src, one[1], one[2] - 1)
                      [] OTHER -> <<c>>
    IN FoldLeft(LAMBDA b, c : b \o piece(c), <<>>, news)

\* Replacements are <<"string", news>>, or <<"table", f>> and <<"function", f>>, where f gives the texts that it does
\* not give nil for: of the first capture, or of all. A number stands for what cannot replace.
text_of(src, capture) == IF Len(capture) = 1 THEN capture ELSE SubSeq(src, capture[1], capture[2] - 1)
replacement(news, src, s, e, ms) ==
    LET key == IF news[1] = "table" THEN text_of(src, push_onecapture(ms, 1, s, e))
               ELSE LET caps == push_captures(ms, s, e) IN [i \in DOMAIN caps |-> text_of(src, caps[i])]
    IN IF key \in DOMAIN news[2] THEN news[2][key] ELSE SubSeq(src, s, e - 1)
add_value(news, src, s, e, ms) ==
    IF news[1] = "string" THEN add_s(news[2], src, s, e, ms) ELSE replacement(news, src, s, e, ms)

\* At most max_s replacements, from place s on.
RECURSIVE str_gsub(_, _, _, _, _)
str_gsub(src, s, pat, news, max_s) ==
    LET anchor == At(pat, 1) = "^"
        substituted(e, ms) ==
            LET added == IF e = NULL THEN <<>> ELSE add_value(news, src, s, e, ms)
                left == IF e = NULL THEN max_s ELSE max_s - 1
                over == e <= s /\ s > Len(src)
                copied == IF e > s \/ over THEN <<>> ELSE <<src[s]>>
                after == IF e > s THEN e ELSE s + 1
                rest == IF over THEN [text |-> <<>>, n |-> 0]
                        ELSE IF anchor \/ left = 0 THEN [text |-> SubSeq(src, after, Len(src)), n |-> 0]
                        ELSE str_gsub(src, after, pat, news, left)
            IN Given(rest, LAMBDA r : [text |-> added \o copied \o r.text, n |-> r.n + (IF e = NULL THEN 0 ELSE 1)])
    IN Given(match(src, s, pat, IF anchor THEN 2 ELSE 1, NoCaptures), LAMBDA m : substituted(m.end, m.ms))

-----------------------------------------------------------------------------
(* The buffers of lauxlib.c, in which the results are built: characters in *)
(* an array, and what does not fit as strings on the Lua stack.            *)

LUAL_BUFFERSIZE == 2    \* BUFSIZ in the code
LIMIT == 3              \* 10 in the code

luaL_buffinit == [p |-> <<>>, stack |-> <<>>, most |-> 0]

\* most: the largest number of strings that were ever on the stack.
emptybuffer(B) ==
    IF B.p = <<>> THEN B
    ELSE [p |-> <<>>, stack |-> Append(B.stack, B.p), most |-> Max({B.most, Len(B.stack) + 1})]

\* Mutant: only longer strings are joined, however many there are.
adjuststackByLength(B) ==
    LET lvl == Len(B.stack)
        top(n) == FlattenSeq(SubSeq(B.stack, lvl - n + 1, lvl))
        toget == Min({n \in 1..lvl : n = lvl \/ Len(top(n)) <= Len(B.stack[lvl - n])})
    IN IF lvl <= 1 THEN B ELSE [B EXCEPT !.stack = Append(SubSeq(@, 1, lvl - toget), top(toget))]

\* The strings on top are joined while they are together longer than the next one, or too many.
adjuststack(B) ==
    LET lvl == Len(B.stack)
        top(n) == FlattenSeq(SubSeq(B.stack, lvl - n + 1, lvl))
        stays(n) == n = lvl \/ (lvl - n + 1 < LIMIT /\ Len(top(n)) <= Len(B.stack[lvl - n]))
        toget == Min({n \in 1..lvl : stays(n)})
    IN IF lvl <= 1 THEN B ELSE [B EXCEPT !.stack = Append(SubSeq(@, 1, lvl - toget), top(toget))]

luaL_prepbuffer(B) == IF B.p = <<>> THEN B ELSE adjuststack(emptybuffer(B))
luaL_addchar(B, c) ==
    Given(IF Len(B.p) < LUAL_BUFFERSIZE THEN B ELSE luaL_prepbuffer(B), LAMBDA room : [room EXCEPT !.p = Append(@, c)])
luaL_addlstring(B, s) == FoldLeft(luaL_addchar, B, s)
luaL_addvalue(B, s) ==
    IF Len(s) <= LUAL_BUFFERSIZE - Len(B.p) THEN [B EXCEPT !.p = @ \o s]
    ELSE Given(emptybuffer(B), LAMBDA empty :
           adjuststack([empty EXCEPT !.stack = Append(@, s), !.most = Max({@, Len(empty.stack) + 1})]))
luaL_pushresult(B) == FlattenSeq(emptybuffer(B).stack)

-----------------------------------------------------------------------------
(* The other functions of the string library.                              *)

posrelat(pos, len) ==
    LET from == IF pos < 0 THEN pos + len + 1 ELSE pos IN IF from >= 0 THEN from ELSE 0

str_sub(s, i, j) ==
    LET start == Max({posrelat(i, Len(s)), 1})
        end == Min({posrelat(j, Len(s)), Len(s)})
    IN IF start <= end THEN SubSeq(s, start, end) ELSE <<>>

\* All the bytes of a slice, each a value of its own.
str_byte(s, i, j) ==
    LET posi == Max({posrelat(i, Len(s)), 1})
        pose == Min({posrelat(j, Len(s)), Len(s)})
    IN IF posi > pose THEN <<>> ELSE [k \in 1..(pose - posi + 1) |-> s[posi + k - 1]]

Built(chars) == luaL_pushresult(luaL_addlstring(luaL_buffinit, chars))
str_char(bytes) == Built(bytes)
str_reverse(s) == Built(Reverse(s))
str_rep(s, n) == luaL_pushresult(FoldLeft(LAMBDA B, i : luaL_addlstring(B, s), luaL_buffinit, [i \in 1..n |-> i]))

\* %q: the text of a program that stands for the string.
addquoted(s) ==
    LET quoted(c) == CASE c \in {"\"", "\\", "\n"} -> <<"\\", c>>
                       [] c = "\r" -> <<"\\", "r">>
                       [] c = "\\0" -> <<"\\", "0", "0", "0">>
                       [] OTHER -> <<c>>
    IN <<"\"">> \o FlattenSeq([i \in DOMAIN s |-> quoted(s[i])]) \o <<"\"">>

FLAGS == {"-", "+", " ", "#", "0"}
MAX_FORMAT == 18
UNFORMATTED == 11    \* 100 in the code, longer than any width: from this length on %s keeps a string as it is

\* The conversion of a format item that begins at i: where its character is, or Raised; flags, width and precision.
scanformat(fmt, i) ==
    LET unlike(k, set) == Min({n \in k..(Len(fmt) + 1) : At(fmt, n) \notin set})
        twodigits(k) == Min({k + 2, unlike(k, Digits)})
        flags == unlike(i, FLAGS)
        width == twodigits(flags)
        dot == At(fmt, width) = "."
        p == IF dot THEN twodigits(width + 1) ELSE width
    IN IF flags - i > Cardinality(FLAGS) \/ At(fmt, p) \in Digits THEN [p |-> Raised]
       ELSE [p |-> p, left |-> "-" \in ToSet(SubSeq(fmt, i, flags - 1)), width |-> SubSeq(fmt, flags, width - 1),
             precision |-> IF dot THEN SubSeq(fmt, width + 1, p - 1) ELSE <<"none">>, form |-> p - i + 3]

addintlen(form) == form + 1

Amount(digits) == FoldLeft(LAMBDA n, d : 10 * n + (CASE d = "0" -> 0 [] d = "1" -> 1 [] d = "2" -> 2), 0, digits)
Padded(text, left, width) ==
    LET blanks == [i \in 1..Max({width - Len(text), 0}) |-> " "] IN IF left THEN text \o blanks ELSE blanks \o text
\* sprintf() of a string: up to its zero, and to its precision.
sprintf(spec, s) ==
    LET zeros == {i \in DOMAIN s : s[i] = "\\0"}
        all == IF zeros = {} THEN s ELSE SubSeq(s, 1, Min(zeros) - 1)
        cut == IF spec.precision = <<"none">> \/ Amount(spec.precision) >= Len(all) THEN all
               ELSE SubSeq(all, 1, Amount(spec.precision))
    IN Padded(cut, spec.left, Amount(spec.width))

\* What string.format has put out, the next argument, and whether it goes on; arguments are strings.
RECURSIVE str_format(_, _, _, _)
str_format(fmt, i, args, B) ==
    LET spec == scanformat(fmt, i + 1)
        conv == At(fmt, spec.p)
        goes_on(C) == str_format(fmt, spec.p + 1, Tail(args), C)
    IN IF i > Len(fmt) THEN luaL_pushresult(B)
       ELSE IF fmt[i] # "%" THEN str_format(fmt, i + 1, args, luaL_addchar(B, fmt[i]))
       ELSE IF At(fmt, i + 1) = "%" THEN str_format(fmt, i + 2, args, luaL_addchar(B, "%"))
       ELSE IF args = <<>> \/ spec.p = Raised THEN <<"error">>
       ELSE CASE conv = "q" -> goes_on(luaL_addlstring(B, addquoted(Head(args))))
              [] conv = "s" /\ spec.precision = <<"none">> /\ Len(Head(args)) >= UNFORMATTED -> goes_on(luaL_addvalue(B, Head(args)))
              [] conv \in {"s", "c"} -> goes_on(luaL_addlstring(B, sprintf(spec, Head(args))))
              [] OTHER -> <<"error">>

-----------------------------------------------------------------------------
(* What patterns mean. An item has its text, the characters it stands for  *)
(* and how often; a capture has a pattern; the rest are other checks.      *)

RECURSIVE Text(_)
Text(tree) ==
    IF tree = <<>> THEN <<>>
    ELSE LET x == Head(tree)
         IN (CASE x.kind = "item" -> x.text \o x.often
               [] x.kind = "capture" -> <<"(">> \o Text(x.inner) \o <<")">>
               [] x.kind = "position" -> <<"(", ")">>
               [] x.kind = "back" -> <<"%", x.digit>>
               [] x.kind = "balance" -> <<"%", "b", x.open, x.close>>
               [] x.kind = "frontier" -> <<"%", "f">> \o x.text
               [] x.kind = "end" -> <<"$">>) \o Text(Tail(tree))

Run(src, s, chars) ==
    Max({n \in 0..(Len(src) - s + 1) : \A i \in 0..(n - 1) : src[s + i] \in chars})

Counts(x, n) ==
    CASE x.often = <<>> -> IF n = 0 THEN <<>> ELSE <<1>>
      [] x.often = <<"?">> -> IF n = 0 THEN <<0>> ELSE <<1, 0>>
      [] x.often = <<"*">> -> [i \in 1..(n + 1) |-> n + 1 - i]
      [] x.often = <<"+">> -> [i \in 1..n |-> n + 1 - i]
      [] x.often = <<"-">> -> [i \in 1..(n + 1) |-> i - 1]

Depth(src, s, e, x) ==
    Cardinality({i \in s..e : src[i] = x.open}) - Cardinality({i \in s..e : src[i] = x.close})

\* The matches of a tree at s, in order: where each ends, and its captures.
RECURSIVE Ways(_, _, _, _)
Ways(tree, src, s, caps) ==
    IF tree = <<>> THEN <<[end |-> s, captures |-> caps]>>
    ELSE
    LET x == Head(tree)
        Then(e, c) == Ways(Tail(tree), src, e, c)
        First(ways) == FlattenSeq([i \in DOMAIN ways |-> Then(ways[i].end, ways[i].captures)])
    IN CASE x.kind = "item" ->
              LET counts == Counts(x, Run(src, s, x.chars))
              IN FlattenSeq([i \in DOMAIN counts |-> Then(s + counts[i], caps)])
         [] x.kind = "capture" ->
              LET l == Len(caps) + 1
                  inner == Ways(x.inner, src, s, Append(caps, <<s>>))
              IN First([i \in DOMAIN inner |->
                          [inner[i] EXCEPT !.captures[l] = <<s, inner[i].end>>]])
         [] x.kind = "position" -> Then(s, Append(caps, <<s>>))
         [] x.kind = "back" ->
              LET c == caps[IF x.digit = "1" THEN 1 ELSE 2]
                  n == c[2] - c[1]
              IN IF s + n - 1 <= Len(src) /\ SubSeq(src, c[1], c[2] - 1) = SubSeq(src, s, s + n - 1)
                 THEN Then(s + n, caps) ELSE <<>>
         [] x.kind = "balance" ->
              LET ends == {e \in s..Len(src) : Depth(src, s, e, x) = 0}
              IN IF s <= Len(src) /\ src[s] = x.open /\ ends # {} THEN Then(Min(ends) + 1, caps)
                 ELSE <<>>
         [] x.kind = "frontier" ->
              IF At(src, s - 1) \notin x.chars /\ At(src, s) \in x.chars THEN Then(s, caps) ELSE <<>>
         [] x.kind = "end" -> IF s = Len(src) + 1 THEN Then(s, caps) ELSE <<>>

Found(tree, src, anchor) ==
    LET starts == {s \in 1..(IF anchor THEN 1 ELSE Len(src) + 1) : Ways(tree, src, s, <<>>) # <<>>}
        s == Min(starts)
        way == Head(Ways(tree, src, s, <<>>))
    IN IF starts = {} THEN NotFound
       ELSE [start |-> s, end |-> way.end,
             captures |-> IF way.captures = <<>> THEN <<<<s, way.end>>>> ELSE way.captures]

\* string.find gives the first match of the first place that has one, with its
\* captures, whatever was tried and undone before (lstrlib.c:354); gsub keeps
\* what it does not match, and meets the same matches as gmatch.
MatchesAsMeant(tree, src, anchor) ==
    LET pat == (IF anchor THEN <<"^">> ELSE <<>>) \o Text(tree)
        many == Len(src) + 1
        all == str_gsub(src, 1, pat, <<"string", <<"%0">>>>, many)
        texts == {SubSeq(src, i, j) : i, j \in 1..Len(src)} \cup {<<>>}
        identity == [t \in texts |-> t]
    IN /\ str_find(src, pat) = Found(tree, src, anchor)
       /\ all.text = src
       /\ str_gsub(src, 1, pat, <<"function", <<>>>>, many) = all
       /\ tree[1].kind # "position" =>
            str_gsub(src, 1, pat, <<"table", identity>>, many) = str_gsub(src, 1, pat, <<"string", <<"%1">>>>, many)
       /\ ~anchor => all.n = Len(gmatch_aux(src, 1, pat))
       /\ (~anchor /\ \A x \in ToSet(tree) : x.kind = "item" /\ x.often = <<>> /\ Len(x.text) = 1
                                            /\ x.text # <<".">>)
          => lmemfind(src, 1, pat) = str_find(src, pat).start

-----------------------------------------------------------------------------
\* A slice has the characters between two places, which count from the end if they are negative.
SlicesAsMeant(s, i, j) ==
    LET place(k) == IF k < 0 THEN Len(s) + 1 + k ELSE k
        within == SelectSeq([k \in DOMAIN s |-> k], LAMBDA k : place(i) <= k /\ k <= place(j))
        slice == [k \in DOMAIN within |-> s[within[k]]]
    IN /\ str_sub(s, i, j) = slice
       /\ str_char(str_byte(s, i, j)) = slice
       /\ i >= 0 => str_sub(s, 1, i) \o str_sub(s, i + 1, -1) = s
       /\ i > 0 => str_reverse(str_sub(s, 1, i)) = str_sub(str_reverse(s), -i, -1)
       /\ Len(str_rep(s, i)) = (IF i > 0 THEN i * Len(s) ELSE 0)

\* A buffer holds what was added, in order, in no more than LIMIT + 1 places of the stack. Additions are
\* <<"string", s>> or <<"value", s>>.
BuffersAsMeant(adds) ==
    LET add(B, a) == IF a[1] = "string" THEN luaL_addlstring(B, a[2]) ELSE luaL_addvalue(B, a[2])
    IN Given(FoldLeft(add, luaL_buffinit, adds), LAMBDA B :
         /\ luaL_pushresult(B) = FlattenSeq([i \in DOMAIN adds |-> adds[i][2]])
         /\ B.most <= LIMIT + 1)

\* Pieces of a format are <<"text", s>> or <<"item", flags, width, precision, conversion>>.
FormatsAsMeant(pieces, args) ==
    LET point(x) == IF x[4] = <<"none">> THEN <<>> ELSE <<".">> \o x[4]
        spelled(x) == IF x[1] = "text" THEN x[2] ELSE <<"%">> \o x[2] \o x[3] \o point(x) \o <<x[5]>>
        sound(x) == Len(x[2]) <= Cardinality(FLAGS) /\ Len(x[3]) <= 2 /\ (x[4] = <<"none">> \/ Len(x[4]) <= 2)
        put(x, s) == IF x[5] = "q" THEN addquoted(s)
                     ELSE IF x[5] = "s" /\ x[4] = <<"none">> /\ Len(s) >= UNFORMATTED THEN s
                     ELSE sprintf([left |-> "-" \in ToSet(x[2]), width |-> x[3], precision |-> x[4]], s)
        step(r, x) == IF ~r.ok \/ x[1] = "text" THEN [r EXCEPT !.out = @ \o x[2]]
                      ELSE IF r.args = <<>> \/ ~sound(x) THEN [r EXCEPT !.ok = FALSE]
                      ELSE [r EXCEPT !.out = @ \o put(x, Head(r.args)), !.args = Tail(@)]
        fmt == FlattenSeq([i \in DOMAIN pieces |-> spelled(pieces[i])])
    IN /\ Given(FoldLeft(step, [ok |-> TRUE, out |-> <<>>, args |-> args], pieces), LAMBDA r :
            str_format(fmt, 1, args, luaL_buffinit) = IF r.ok THEN r.out ELSE <<"error">>)
       /\ \A i \in DOMAIN fmt : fmt[i] = "%" => Given(scanformat(fmt, i + 1), LAMBDA spec :
            spec.p # Raised => addintlen(spec.form) <= MAX_FORMAT)
=============================================================================
