--------------------------------- MODULE MCLibraries ---------------------------------
(***************************************************************************)
(* What programs have from the libraries they come with: the files of      *)
(* Files, the tables of TableLayout, and calls of the scanner, the pattern *)
(* matcher, the table functions, JSON, MIME and URLs.  Each behaviour      *)
(* works with one of these.                                                *)
(***************************************************************************)
EXTENDS Files, TableLayout, TLC
Scanner == INSTANCE LuaScanner
Matcher == INSTANCE StringMatch
J == INSTANCE Json
Codec == INSTANCE Mime
U == INSTANCE Url

CONSTANTS mine, other,    \* images
          w1, w2,         \* writers
          notes           \* a file name

VARIABLES suite,    \* what this behaviour works with
          call      \* the last call, of the library suite

-----------------------------------------------------------------------------
(* Files and tables                                                        *)

MCImage == {mine, other}
MCKeys == (mine :> {"^f", "^a"}) @@ (other :> {"^n"})
Always(answer) == [read |-> answer, write |-> answer]
MCAnswer ==
  ("return false" :> Always("no")) @@ ("return not is_write" :> [read |-> "yes", write |-> "no"]) @@ ("return true" :> Always("yes"))
  @@ ("return (" :> Always("malformed")) @@ ("" :> Always("nothing")) @@ ("return x.y" :> Always("error"))
MCBody == DOMAIN MCAnswer
MCWriter == {w1, w2}
MCName == {notes}

MCNumber == 1..3
MCKey == {<<"number", i>> : i \in MCNumber} \cup {<<"name", s>> : s \in {"a", "b"}}
MCHash == [k \in MCKey |-> IF k[1] = "number" THEN k[2] ELSE IF k[2] = "a" THEN 1 ELSE 3]

-----------------------------------------------------------------------------
(* Texts for the scanner                                                   *)

Spelled(text, lines, tokens) == [text |-> text, lines |-> lines, tokens |-> tokens]
Word(text) == Spelled(text, 0, <<<<"name", text>>>>)
Kept(text, lines, str) == Spelled(text, lines, <<<<"string", str>>>>)
Numeral(text) == Spelled(text, 0, <<<<"number", text>>>>)
Wrong(text, lines, msg) == Spelled(text, lines, <<<<"error", msg>>>>)
Sound == {
  Word(<<"i">>), Word(<<"e", "n", "d", "_">>), Word(<<"_", "1", "x">>), Spelled(<<"i", "f">>, 0, <<<<"i", "f">>>>), Spelled(<<"e", "n", "d">>, 0, <<<<"e", "n", "d">>>>),
  Spelled(<<"a", ".", ".", "i">>, 0, <<<<"name", <<"a">>>>, <<"..">>, <<"name", <<"i">>>>>>),
  Spelled(<<"~", "=", "=", "=">>, 0, <<<<"~=">>, <<"==">>>>), Spelled(<<"<", ">", "=">>, 0, <<<<"<">>, <<">=">>>>),
  Spelled(<<".", ".", ".", ".">>, 0, <<<<"...">>, <<".">>>>), Spelled(<<"-", "[", "]">>, 0, <<<<"-">>, <<"[">>, <<"]">>>>),
  Spelled(<<"(", "2", ")">>, 0, <<<<"(">>, <<"number", <<"2">>>>, <<")">>>>),
  Numeral(<<"1", ".", "2", "e", "-", "1">>), Numeral(<<".", "9">>), Numeral(<<"0", "x", "1", "f">>), Numeral(<<"2", "E", "1">>),
  Spelled(<<"2", "-", "1">>, 0, <<<<"number", <<"2">>>>, <<"-">>, <<"number", <<"1">>>>>>),
  Kept(<<"\"", "a", "'", "\"">>, 0, <<"a", "'">>), Kept(<<"'", "\\", "n", "\\", "'", "'">>, 0, <<"\n", "'">>),
  Kept(<<"\"", "\\", "1", "0", "a", "\\", "0", "9", "9", "9", "\"">>, 0, <<"\n", "a", "c", "9">>), Kept(<<"'", "\\", "\r", "\n", "'">>, 1, <<"\n">>),
  Kept(<<"[", "[", "\n", "a", "]", "]">>, 1, <<"a">>), Kept(<<"[", "=", "[", "a", "]", "]", "\r", "\n", "[", "[", "]", "=", "]">>, 1, <<"a", "]", "]", "\n", "[", "[">>),
  Kept(<<"[", "=", "[", "[", "=", "[", "]", "=", "=", "]", "=", "]">>, 0, <<"[", "=", "[", "]", "=", "=">>) }
Unsound == {
  Wrong(<<"2", ".", ".", "9">>, 0, "malformed number"), Wrong(<<"1", "e">>, 0, "malformed number"), Wrong(<<"9", "x">>, 0, "malformed number"), Wrong(<<"0", "x">>, 0, "malformed number"),
  Wrong(<<"\"", "a", "\n", "\"">>, 0, "unfinished string"), Wrong(<<"'", "a", "\\">>, 0, "unfinished string"), Wrong(<<"'", "\\", "2", "9", "9", "'">>, 0, "escape sequence too large"),
  Wrong(<<"[", "[", "a", "\n", "]">>, 1, "unfinished long string"), Wrong(<<"[", "[", "a", "[", "[">>, 0, "nesting is deprecated"),
  Wrong(<<"[", "=", "a">>, 0, "invalid long string delimiter"), Wrong(<<"-", "-", "[", "=", "[", "\n", "]", "]">>, 1, "unfinished long string") }
Between == {
  Spelled(<<" ">>, 0, <<>>), Spelled(<<"\n">>, 1, <<>>), Spelled(<<"\r", "\n", "\t">>, 1, <<>>), Spelled(<<"\r", "\r">>, 2, <<>>), Spelled(<<"\n", "\n", "\r">>, 2, <<>>),
  Spelled(<<"-", "-", "a", "]", "]", "\n">>, 1, <<>>), Spelled(<<"-", "-", "[", "=", "a", "'", "\r">>, 1, <<>>),
  Spelled(<<"-", "-", "[", "=", "[", "a", "\n", "]", "]", "\n", "\r", "]", "=", "]">>, 2, <<>>), Spelled(<<"-", "-", "[", "[", "]", "]">>, 0, <<>>) }

-----------------------------------------------------------------------------
(* Patterns, as trees, and subjects                                        *)

Matching(text, chars, often) == [kind |-> "item", text |-> text, chars |-> chars, often |-> often]
Captured(inner) == [kind |-> "capture", inner |-> inner]
SomeChars == {"a", "b", "1", "%"}
Often == {<<>>, <<"?">>, <<"*">>, <<"+">>, <<"-">>}
LetterA == Matching(<<"a">>, {"a"}, <<>>)
AnyChar == Matching(<<".">>, SomeChars, <<>>)
Single == {
  LetterA, AnyChar, Matching(<<"[", "^", "a", "]">>, SomeChars \ {"a"}, <<>>), Matching(<<"[", "a", "-", "b", "]">>, {"a", "b"}, <<>>),
  Matching(<<"%", "a">>, {"a", "b"}, <<>>), Matching(<<"%", "A">>, SomeChars \ {"a", "b"}, <<>>), Matching(<<"[", "%", "d", "b", "]">>, {"1", "b"}, <<>>) }
Repeated(items) == {[x EXCEPT !.often = often] : x \in items, often \in Often}
Back(digit) == [kind |-> "back", digit |-> digit]
Balance == [kind |-> "balance", open |-> "a", close |-> "b"]
Frontier == [kind |-> "frontier", text |-> <<"[", "%", "a", "]">>, chars |-> {"a", "b"}]
AtEnd == [kind |-> "end"]
Position == [kind |-> "position"]
Patterns ==
  LET Small == Repeated({LetterA, AnyChar})
  IN {<<x>> : x \in Repeated(Single) \cup {Balance, Frontier, Position}} \cup {<<x, y>> : x, y \in Small}
     \cup {<<Captured(<<x>>), y, z>> : x, y \in Small, z \in {Back("1"), AtEnd}}
     \cup {<<Captured(<<x, Captured(<<y>>)>>), Back("2")>> : x, y \in Small}
     \cup {<<Position, x, Captured(<<y>>), AtEnd>> : x, y \in Small} \cup {<<Frontier, Captured(<<x>>), y>> : x, y \in Small}
     \cup {<<Captured(<<Balance>>), y, Back("1")>> : y \in Small}
Subjects == BoundedSeq({"a", "b"}, 3) \cup {<<"1">>, <<"a", "1">>, <<"1", "a">>, <<"a", "a", "b", "b">>, <<"a", "b", "a", "b">>}

-----------------------------------------------------------------------------
(* Strings, additions to buffers, formats and their arguments              *)

QuoteChars == {"a", "1", "\"", "\\", "\n", "\r", "\\0"}
Additions == {<<how, [i \in 1..n |-> IF i = n THEN "b" ELSE "a"]>> : how \in {"string", "value"}, n \in {0, 1, 2, 5}}
Items == {
  <<"item", flags, width, precision, conv>> :
    flags \in {<<>>, <<"-">>, <<"-", "+", " ", "#", "0">>, <<"-", "-", "-", "-", "-", "-">>}, width \in {<<>>, <<"2">>, <<"1", "0">>, <<"1", "1", "1">>},
    precision \in {<<"none">>, <<>>, <<"1">>, <<"1", "0", "1">>}, conv \in {"s", "q"} }
SimpleItems == {<<"text", <<"a">>>>, <<"item", <<>>, <<>>, <<"none">>, "c">>, <<"item", <<>>, <<>>, <<"none">>, "q">>, <<"item", <<"-">>, <<"2">>, <<"none">>, "s">>}
Long == [i \in 1..11 |-> IF i = 9 THEN "\\0" ELSE "a"]
Arguments == BoundedSeq({<<>>, <<"a">>, <<"b", "\\0", "a">>, <<"\"", "\n", "x">>, Long}, 2)

-----------------------------------------------------------------------------
(* Relations to sort by, good and bad, on 1, 2, 3 and nil                  *)

Relations == {
  {<<1, 2>>, <<2, 3>>, <<1, 3>>}, {<<1, 1>>, <<1, 2>>, <<1, 3>>, <<2, 2>>, <<2, 3>>, <<3, 3>>}, {<<3, 2>>, <<2, 1>>, <<3, 1>>}, {},
  {<<1, 2>>, <<2, 3>>, <<3, 1>>}, {<<1, 3>>, <<2, 3>>}, {<<nil, 2>>, <<2, nil>>, <<1, 2>>}, {1, 2, 3, nil} \X {1, 2, 3, nil} }

-----------------------------------------------------------------------------
(* JSON values and texts                                                   *)

Leaf == {J!Num(0), J!Num(-12), J!Num(305), J!Str(<<>>), J!Str(<<97, 34>>), J!Str(<<92, 10, 1>>), J!Bool(TRUE), J!Str(<<31, 47>>)}
Flat ==
  {J!List(s) : s \in BoundedSeq(Leaf \cup {J!Null}, 2)}
  \cup {J!Tab(f) : f \in UNION {[keys -> {J!Num(7), J!Bool(FALSE)}] : keys \in SUBSET {J!Str(<<97>>), J!Str(<<98, 34>>), J!Num(1)}}}
Nested ==
  {J!List(s) : s \in BoundedSeq({J!Num(3), J!List(<<>>), J!List(<<J!Num(1)>>), J!Tab(J!Str(<<97>>) :> J!Num(1))}, 3)}
  \cup {J!Tab(J!Str(<<97>>) :> v) : v \in Flat} \cup {J!Tab((J!Num(1) :> J!Num(2)) @@ (J!Num(3) :> J!Num(4)))}
Holed == {J!Constructed(s) : s \in BoundedSeq({J!Num(3), J!Null}, 6)}
JsonPieces == {
  <<J!Open>>, <<J!Close>>, <<J!OpenBrace>>, <<J!CloseBrace>>, <<J!Comma>>, <<J!Colon>>, <<J!Space>>, <<49>>, J!NullWord, <<J!Quote, 97, J!Quote>>, <<J!Quote>>, <<J!Minus>> }
Escapes == {
  <<J!Backslash, J!LetterU, 48, 48, 54, 49>>, <<J!Backslash, J!LetterU, 68, 56, 48, 48>>, <<J!Backslash, J!LetterU, 68, 67, 48, 49>>, <<J!Backslash>>, <<110>>, <<195>> }
JsonTexts ==
  BoundedSeq(JsonPieces, 3) \cup {<<<<J!Open>>>> \o s \o <<<<J!Close>>>> : s \in BoundedSeq(JsonPieces, 3)}
  \cup {<<<<J!Quote>>>> \o s \o <<<<J!Quote>>>> : s \in BoundedSeq(Escapes, 3)}

-----------------------------------------------------------------------------
(* MIME: chains of filters, by their names, and bytes                      *)

Filter == Codec!encodet(5)
Chains == {
  <<"base64">>, <<"base64", "wrap">>, <<"text", "qpwrap">>, <<"normalize", "stuff">>, <<"binary">>, <<"unquote">>,
  <<"normalize", "text", "qpwrap">>, <<"text", "unquote", "stuff">>, <<"wrap">>, <<"stuff", "base64", "wrap">> }
Bytes(n) == BoundedSeq({65, 13, 10, 46, 61, 32}, n)

-----------------------------------------------------------------------------
(* URLs by their fields, and paths                                         *)

OrNil(s) == {Nil, s}
IPv6Host == <<":", ":", "1">>
Located(host, user, password, port) ==
  LET userinfo == IF user = Nil THEN Nil ELSE user \o U!If(password, <<":">>, <<>>)
      bracketed == IF host = IPv6Host THEN <<"[">> \o host \o <<"]">> ELSE host
  IN IF host = Nil THEN U!NoFields
     ELSE [U!NoFields EXCEPT !.host = host, !.user = user, !.password = IF user = Nil THEN Nil ELSE password, !.port = port,
             !.userinfo = userinfo, !.authority = U!If(userinfo, <<>>, <<"@">>) \o bracketed \o U!If(port, <<":">>, <<>>)]
Urls == {
  [Located(host, user, password, port) EXCEPT !.scheme = scheme, !.path = path, !.params = params, !.query = query, !.fragment = fragment] :
    scheme \in OrNil(<<"a", "+", "1">>), host \in {Nil, <<"a", ".", "b">>, IPv6Host}, user \in OrNil(<<"b">>), password \in {Nil, <<>>, <<"1", "?">>},
    port \in OrNil(<<"2">>), path \in {Nil, <<"/">>, <<"/", "a">>}, params \in OrNil(<<"x">>), query \in {Nil, <<>>, <<"a", "=", ";", "/">>},
    fragment \in OrNil(<<"?", ":">>) }
Bases == {<<"/">>, <<"/", "a">>, <<"/", "a", "/">>, <<"/", "a", "/", "b">>}
Relatives == {U!Joined(s) : s \in BoundedSeq({<<"a">>, <<"b">>, <<".">>, <<".", ".">>, <<>>}, 4)} \ {<<>>}
SegmentLists == BoundedSeq(BoundedSeq({"a", "1", "2", "0", "%", "?", "/", "="}, 2) \ {<<>>}, 2)

-----------------------------------------------------------------------------
libvars == <<vars, tab, suite, call>>
Libraries == {"scanner", "matcher", "strings", "sorter", "json", "mime", "url"}
Idle == FilesInit /\ config[App] = <<>>

Init ==
  \/ suite = "permissions" /\ FilesInit /\ TableInit /\ call = Nil
  \/ suite = "streams" /\ FilesInit /\ (kept[App].ask => kept[App].body = Default) /\ TableInit /\ call = Nil
  \/ suite = "table" /\ Idle /\ TableInit /\ call = Nil
  \/ suite \in Libraries /\ Idle /\ TableInit /\ call = Nil

Called(lib) == suite = lib /\ call = Nil /\ UNCHANGED <<vars, tab, suite>>

Next ==
  \/ /\ suite \in {"permissions", "streams"} /\ FilesNext /\ UNCHANGED <<tab, suite, call>>
     /\ suite = "permissions" => writers' = writers /\ reader' = reader
     /\ suite = "streams" => screen'[other] = screen[other] /\ screen'[mine] \in {"app", "off"}
                          /\ (writers'[w2] # Nil => Len(writers'[w2].text.wrote) <= 1)
  \/ suite = "table" /\ TableNext /\ UNCHANGED <<vars, suite, call>>
  \/ /\ Called("scanner")
     /\ \E p \in Sound, s \in Between, q \in Sound \cup Unsound, looks \in {{}, {1}, {1, 2}} :
          call' = [kind |-> "scan", pieces |-> <<p, s, q>>, looks |-> looks]
  \/ Called("matcher") /\ \E tree \in Patterns, s \in Subjects, anchor \in BOOLEAN : call' = [kind |-> "match", tree |-> tree, s |-> s, anchor |-> anchor]
  \/ Called("strings") /\ \E s \in BoundedSeq(QuoteChars, 3), i, j \in -4..4 : call' = [kind |-> "slice", s |-> s, i |-> i, j |-> j]
  \/ Called("strings") /\ \E adds \in BoundedSeq(Additions, 4) : call' = [kind |-> "buffer", adds |-> adds]
  \/ Called("strings") /\ \E x \in SimpleItems, y \in Items \cup SimpleItems, args \in Arguments : call' = [kind |-> "format", pieces |-> <<x, y>>, args |-> args]
  \/ Called("sorter") /\ \E seq \in BoundedSeq(1..3, 6), lt \in Relations : call' = [kind |-> "sort", seq |-> seq, lt |-> lt]
  \/ Called("sorter") /\ \E seq \in BoundedSeq(1..2, 4), at \in -1..6, v \in 1..3 : call' = [kind |-> "move", seq |-> seq, at |-> at, v |-> v]
  \/ /\ Called("json")
     /\ \E v \in Leaf \cup Flat \cup Nested \cup Holed \cup {J!Constructed(<<v>>) : v \in Holed}, spaces \in {<<>>, <<J!Space>>, <<J!Newline, J!Space>>}, comma \in BOOLEAN :
          call' = [kind |-> "value", v |-> v, spaces |-> spaces, comma |-> comma]
  \/ Called("json") /\ \E text \in JsonTexts : call' = [kind |-> "text", text |-> FlattenSeq(text)]
  \/ Called("mime") /\ \E bytes \in Bytes(4) \cup {<<0, 255, 128>>, <<1, 2, 3, 4, 5, 6, 7>>, <<200, 32>>, <<250, 251, 252, 253>>} :
       call' = [kind |-> "code", bytes |-> bytes]
  \/ /\ Called("mime")
     /\ \E chain \in Chains, b1, b2, b4 \in Bytes(1), b3 \in {<<>>, <<13>>, <<65, 66, 67, 68, 69, 70>>} :
          call' = [kind |-> "chunks", chain |-> chain, chunks |-> <<b1, b2, b3, b4>>]
  \/ Called("url") /\ \E parsed \in Urls : call' = [kind |-> "pieces", parsed |-> parsed]
  \/ Called("url") /\ \E base \in Bases, relative \in Relatives : call' = [kind |-> "resolve", base |-> base, relative |-> relative]
  \/ Called("url") /\ \E segments \in SegmentLists, is_absolute, is_directory \in BOOLEAN :
       call' = [kind |-> "segments", p |-> [segments |-> segments, is_absolute |-> is_absolute, is_directory |-> is_directory]]

Spec == Init /\ [][Next]_libvars

-----------------------------------------------------------------------------
\* The scanner reads what %q wrote as the same string.
ReadsBack(s) ==
  LET chars == [i \in DOMAIN s |-> IF s[i] = "\\0" THEN "NUL" ELSE s[i]]
  IN Scanner!Tokens(Matcher!addquoted(s), {})[1][1] = <<"string", chars>>

(* What is called gives what it is for: a text its tokens (llex.c); the longest, first or shortest of the matches that *)
(* a pattern has (lstrlib.c); a sorted permutation, or the error that the order is none (ltablib.c); the value that was *)
(* written, streamed or at once (json.lua, jsonf.lua); the bytes that were encoded, in chunks of any size (mime.c, *)
(* mime.lua, ltn12.lua); the URL that was taken apart, and the path that RFC 3986 resolves (url.lua). *)
CallsAsMeant ==
  call # Nil =>
    CASE call.kind = "scan" -> Scanner!ScansAsMeant(call.pieces, call.looks)
      [] call.kind = "match" -> Matcher!MatchesAsMeant(call.tree, call.s, call.anchor)
      [] call.kind = "slice" -> Matcher!SlicesAsMeant(call.s, call.i, call.j) /\ ReadsBack(call.s)
      [] call.kind = "buffer" -> Matcher!BuffersAsMeant(call.adds)
      [] call.kind = "format" -> Matcher!FormatsAsMeant(call.pieces, call.args)
      [] call.kind = "sort" -> SortsAsMeant(call.seq, call.lt)
      [] call.kind = "move" -> MovesAsMeant(call.seq, call.at, call.v)
      [] call.kind = "value" -> J!ValueReturns(call.v, call.spaces, call.comma)
      [] call.kind = "text" -> J!SameToBoth(call.text)
      [] call.kind = "code" -> Codec!CodesReturn(call.bytes, 5)
      [] call.kind = "chunks" -> Codec!ChunksDoNotMatter([i \in DOMAIN call.chain |-> Filter[call.chain[i]]], call.chunks)
      [] call.kind = "pieces" -> U!build(call.parsed) = <<>> \/ U!PiecesReturn(call.parsed)
      [] call.kind = "resolve" -> U!PathResolves(call.base, call.relative)
      [] call.kind = "segments" -> U!SegmentsReturn(call.p)
=============================================================================
