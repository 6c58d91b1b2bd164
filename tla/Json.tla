---------------------------------- MODULE Json ----------------------------------
(***************************************************************************)
(* json.lua, which encodes a value as a text and decodes a text, and       *)
(* jsonf.lua, which decodes the characters of a stream one at a time.      *)
(* Characters are bytes. A number is a decimal integer: what tonumber()    *)
(* and %.14g do with the others is left out.                               *)
(***************************************************************************)
EXTENDS Integers, FiniteSets, SequencesExt
LOCAL INSTANCE TLC

Quote == 34      Comma == 44      Minus == 45     Slash == 47     Colon == 58
Open == 91       Backslash == 92  Close == 93     LetterU == 117
OpenBrace == 123                  CloseBrace == 125
Newline == 10    Space == 32

True == <<116, 114, 117, 101>>
False == <<102, 97, 108, 115, 101>>
NullWord == <<110, 117, 108, 108>>

\* Lua's values: numbers, strings, booleans, nil and tables of them.
Num(n) == [num |-> n]
Str(s) == [str |-> s]
Bool(b) == [bool |-> b]
Null == [nil |-> "nil"]
Tab(f) == [table |-> f]
Is(v, type) == type \in DOMAIN v
\* The items of a constructor, nils among them, have an array part of their number.
Constructed(values) ==
    [table |-> [k \in {Num(i) : i \in {j \in DOMAIN values : values[j] # Null}} |-> values[k.num]], array |-> Len(values)]
List(values) ==    \* its nils are not there
    Tab([k \in {Num(i) : i \in {j \in DOMAIN values : values[j] # Null}} |-> values[k.num]])

Digit == 48..57
Decimal[n \in Nat] == IF n < 10 THEN <<48 + n>> ELSE Append(Decimal[n \div 10], 48 + (n % 10))
HexDigit(d) == IF d < 10 THEN 48 + d ELSE 87 + d
HexValue == [c \in Digit |-> c - 48] @@ [c \in 97..102 |-> c - 87] @@ [c \in 65..70 |-> c - 55]
Hex(s) == FoldLeft(LAMBDA n, c : 16 * n + HexValue[c], 0, s)
IsHex(s) == ToSet(s) \subseteq DOMAIN HexValue

\* json.lua:34 and its inverse: "/" is only read.
escape_char_map == (92 :> 92) @@ (34 :> 34) @@ (8 :> 98) @@ (12 :> 102) @@ (10 :> 110) @@ (13 :> 114) @@ (9 :> 116)
escape_char_map_inv == (47 :> 47) @@ [e \in {escape_char_map[c] : c \in DOMAIN escape_char_map} |->
                                        CHOOSE c \in DOMAIN escape_char_map : escape_char_map[c] = e]

-----------------------------------------------------------------------------
(* Encoding: a text, or an error.                                          *)

Error == <<-1>>
Fails(texts) == \E i \in DOMAIN texts : texts[i] = Error

escape_char(c) ==
    <<Backslash>> \o (IF c \in DOMAIN escape_char_map THEN <<escape_char_map[c]>>
                      ELSE <<LetterU, 48, 48, HexDigit(c \div 16), HexDigit(c % 16)>>)

encode_string(s) ==
    <<Quote>> \o FlattenSeq([i \in DOMAIN s |->
                    IF s[i] < 32 \/ s[i] \in {Backslash, Quote} THEN escape_char(s[i]) ELSE <<s[i]>>])
              \o <<Quote>>

encode_number(n) == IF n < 0 THEN <<Minus>> \o Decimal[-n] ELSE Decimal[n]

Separated(texts) ==
    FlattenSeq([i \in DOMAIN texts |-> IF i = 1 THEN texts[i] ELSE <<Comma>> \o texts[i]])

\* The operator #: one of the borders of a table, by its layout (ltable.c).
RECURSIVE binary_search(_, _, _), unbound_search(_, _, _)
binary_search(f, i, j) ==
    LET m == (i + j) \div 2
    IN IF j - i <= 1 THEN i ELSE IF Num(m) \in DOMAIN f THEN binary_search(f, m, j) ELSE binary_search(f, i, m)
unbound_search(f, i, j) == IF Num(j) \in DOMAIN f THEN unbound_search(f, j, 2 * j) ELSE binary_search(f, i, j)
length(v) ==
    LET size == IF Is(v, "array") THEN v.array ELSE 0
    IN IF size > 0 /\ Num(size) \notin DOMAIN v.table THEN binary_search(v.table, 0, size)
       ELSE unbound_search(v.table, size, size + 1)
\* What ipairs() goes through.
BeforeHole(f) == CHOOSE n \in 0..Cardinality(DOMAIN f) : Num(n + 1) \notin DOMAIN f /\ \A i \in 1..n : Num(i) \in DOMAIN f

\* Lua walks a table in any order; every order has to do.
RECURSIVE encode(_)
encode_list(v) ==
    LET f == v.table
        texts == [i \in 1..BeforeHole(f) |-> encode(f[Num(i)])]
    IN IF (\E k \in DOMAIN f : ~Is(k, "num")) \/ Cardinality(DOMAIN f) # length(v) \/ Fails(texts) THEN Error
       ELSE <<Open>> \o Separated(texts) \o <<Close>>

encode_object(f) ==
    LET keys == SetToSeq(DOMAIN f)
        texts == [i \in DOMAIN keys |-> encode(f[keys[i]])]
        named == [i \in DOMAIN keys |-> encode(keys[i]) \o <<Colon>> \o texts[i]]
    IN IF (\E k \in DOMAIN f : ~Is(k, "str")) \/ Fails(texts) THEN Error
       ELSE <<OpenBrace>> \o Separated(named) \o <<CloseBrace>>

encode(v) ==
    CASE Is(v, "nil") -> NullWord
      [] Is(v, "bool") -> IF v.bool THEN True ELSE False
      [] Is(v, "num") -> encode_number(v.num)
      [] Is(v, "str") -> encode_string(v.str)
      [] Is(v, "table") -> IF Num(1) \in DOMAIN v.table \/ DOMAIN v.table = {}
                           THEN encode_list(v) ELSE encode_object(v.table)

-----------------------------------------------------------------------------
(* Decoding: a value and the place after it, or 0 for an error.            *)

Given(value, Body(_)) == Body(value)
Raised == [value |-> Null, next |-> 0]
Got(v, i) == [value |-> v, next |-> i]

space_chars == {Space, 9, 13, Newline}
delim_chars == space_chars \cup {Close, CloseBrace, Comma}
End == -1
At(str, i) == IF i \in DOMAIN str THEN str[i] ELSE End

next_char(str, idx, set) ==
    Min({Len(str) + 1} \cup {i \in idx..Len(str) : str[i] \in set})
skip(str, idx) == next_char(str, idx, -1..255 \ space_chars)

Trail(n) == 128 + (n % 64)    \* the last six bits
codepoint_to_utf8(n) ==
    CASE n <= 127 -> <<n>>
      [] n \in 128..2047 -> <<192 + n \div 64, Trail(n)>>
      [] n \in 2048..65535 -> <<224 + n \div 4096, Trail(n \div 64), Trail(n)>>
      [] OTHER -> <<240 + n \div 262144, Trail(n \div 4096), Trail(n \div 64), Trail(n)>>

\* Six characters more when s is a pair of surrogates.
parse_unicode_escape(s) ==
    IF Len(s) = 10
    THEN codepoint_to_utf8((Hex(SubSeq(s, 1, 4)) - 55296) * 1024 + Hex(SubSeq(s, 7, 10)) - 56320 + 65536)
    ELSE codepoint_to_utf8(Hex(s))

IsPair(s) ==
    /\ Len(s) = 10
    /\ s[1] \in {68, 100} /\ s[2] \in {56, 57, 65, 66, 97, 98}
    /\ s[5] = Backslash /\ s[6] = LetterU
    /\ IsHex(SubSeq(s, 3, 4) \o SubSeq(s, 7, 10))

Piece(str, i, n) == IF i + n - 1 <= Len(str) THEN SubSeq(str, i, i + n - 1) ELSE <<>>

RECURSIVE string_from(_, _, _)
string_from(str, j, res) ==
    LET x == At(str, j)
        c == At(str, j + 1)
        pair == Piece(str, j + 2, 10)
        hex == IF IsPair(pair) THEN pair ELSE Piece(str, j + 2, 4)
    IN CASE x < 32 -> Raised    \* the end of the text, too
         [] x = Quote -> Got(Str(res), j + 1)
         [] x = Backslash /\ c = LetterU ->
              IF Len(hex) >= 4 /\ (Len(hex) = 10 \/ IsHex(hex))
              THEN string_from(str, j + 2 + Len(hex), res \o parse_unicode_escape(hex)) ELSE Raised
         [] x = Backslash /\ c # LetterU ->
              IF c \in DOMAIN escape_char_map_inv
              THEN string_from(str, j + 2, Append(res, escape_char_map_inv[c])) ELSE Raised
         [] OTHER -> string_from(str, j + 1, Append(res, x))
parse_string(str, i) == string_from(str, i + 1, <<>>)

tonumber(s) ==
    LET digits == IF s # <<>> /\ s[1] = Minus THEN Tail(s) ELSE s
        n == FoldLeft(LAMBDA m, c : 10 * m + c - 48, 0, digits)
    IN IF digits = <<>> \/ ~(ToSet(digits) \subseteq Digit) THEN Null
       ELSE Num(IF digits = s THEN n ELSE -n)

parse_number(str, i) ==
    LET x == next_char(str, i, delim_chars)
        n == tonumber(SubSeq(str, i, x - 1))
    IN IF n = Null THEN Raised ELSE Got(n, x)

literal_map(word) == CASE word = True -> Bool(TRUE) [] word = False -> Bool(FALSE) [] OTHER -> Null
literals == {True, False, NullWord}

parse_literal(str, i) ==
    LET x == next_char(str, i, delim_chars)
        word == SubSeq(str, i, x - 1)
    IN IF word \in literals THEN Got(literal_map(word), x) ELSE Raised

RECURSIVE parse(_, _), elements(_, _, _), fields(_, _, _)

\* After "[" or ",": a trailing comma is accepted.
elements(str, i, res) ==
    LET more(x, after) ==
            CASE At(str, after) = Close -> Got(List(Append(res, x)), after + 1)
              [] At(str, after) = Comma -> elements(str, after + 1, Append(res, x))
              [] OTHER -> Raised
    IN Given(skip(str, i), LAMBDA at :
         IF At(str, at) = Close THEN Got(List(res), at + 1)
         ELSE Given(parse(str, at), LAMBDA x : IF x = Raised THEN Raised ELSE more(x.value, skip(str, x.next))))
parse_array(str, i) == elements(str, i + 1, <<>>)

SetField(f, key, value) ==
    IF value = Null THEN [k \in DOMAIN f \ {key} |-> f[k]]
    ELSE [k \in DOMAIN f \cup {key} |-> IF k = key THEN value ELSE f[k]]

fields(str, i, res) ==
    LET more(key, val, after) ==
            CASE At(str, after) = CloseBrace -> Got(Tab(SetField(res, key, val)), after + 1)
              [] At(str, after) = Comma -> fields(str, after + 1, SetField(res, key, val))
              [] OTHER -> Raised
        value(key, colon) ==
            IF At(str, colon) # Colon THEN Raised
            ELSE Given(parse(str, skip(str, colon + 1)), LAMBDA val :
                   IF val = Raised THEN Raised ELSE more(key, val.value, skip(str, val.next)))
    IN Given(skip(str, i), LAMBDA at :
         CASE At(str, at) = CloseBrace -> Got(Tab(res), at + 1)
           [] At(str, at) = Quote ->
                Given(parse(str, at), LAMBDA key : IF key = Raised THEN Raised ELSE value(key.value, skip(str, key.next)))
           [] OTHER -> Raised)
parse_object(str, i) == fields(str, i + 1, <<>>)

parse(str, i) ==
    LET c == At(str, i)
    IN CASE c = Quote -> parse_string(str, i)
         [] c \in Digit \cup {Minus} -> parse_number(str, i)
         [] c \in {116, 102, 110} -> parse_literal(str, i)
         [] c = Open -> parse_array(str, i)
         [] c = OpenBrace -> parse_object(str, i)
         [] OTHER -> Raised

decode(str) ==
    Given(parse(str, skip(str, 1)), LAMBDA r : IF r = Raised \/ skip(str, r.next) <= Len(str) THEN Raised ELSE r)

-----------------------------------------------------------------------------
(* jsonf.lua. A parser is given the character before place i, and hands on *)
(* the character it read last: the one before next.                        *)

skip_spaces(str, i) == IF skip(str, i) <= Len(str) THEN skip(str, i) + 1 ELSE Len(str) + 2
Last1(str, i) == At(str, i - 1)
Settled(str, i) == IF Last1(str, i) \in space_chars THEN skip_spaces(str, i) ELSE i

RECURSIVE streamed_string(_, _, _)
streamed_string(str, j, res) ==
    LET x == At(str, j)
        c == At(str, j + 1)
        hex == Piece(str, j + 2, 4)
    IN CASE x < 32 -> Raised
         [] x = Quote -> Got(Str(res), j + 2)
         [] x = Backslash /\ c = LetterU ->
              IF Len(hex) = 4 /\ IsHex(hex)
              THEN streamed_string(str, j + 6, res \o parse_unicode_escape(hex)) ELSE Raised
         [] x = Backslash /\ c # LetterU ->
              IF c \in DOMAIN escape_char_map_inv
              THEN streamed_string(str, j + 2, Append(res, escape_char_map_inv[c])) ELSE Raised
         [] OTHER -> streamed_string(str, j + 1, Append(res, x))

next_chars(str, i) == next_char(str, i, delim_chars)
streamed_number(str, i) ==
    LET n == tonumber(SubSeq(str, i - 1, next_chars(str, i) - 1))
    IN IF n = Null THEN Raised ELSE Got(n, next_chars(str, i) + 1)
streamed_literal(str, i) ==
    LET word == SubSeq(str, i - 1, next_chars(str, i) - 1)
    IN IF word \in literals THEN Got(literal_map(word), next_chars(str, i) + 1) ELSE Raised

RECURSIVE streamed(_, _), streamed_elements(_, _, _), streamed_fields(_, _, _)

\* table.insert(res, nil) leaves the table as it was.
streamed_elements(str, i, res) ==
    LET more(all, after) ==
            CASE Last1(str, after) = Close -> Got(List(all), skip_spaces(str, after))
              [] Last1(str, after) = Comma -> streamed_elements(str, after, all)
              [] OTHER -> Raised
    IN Given(skip_spaces(str, i), LAMBDA at :
         CASE Last1(str, at) = End -> Raised
           [] Last1(str, at) = Close -> Got(List(res), skip_spaces(str, at))
           [] OTHER ->
                Given(streamed(str, at), LAMBDA x :
                  IF x = Raised THEN Raised
                  ELSE more(IF x.value = Null THEN res ELSE Append(res, x.value), Settled(str, x.next))))

streamed_fields(str, i, res) ==
    LET more(all, after) ==
            CASE Last1(str, after) = CloseBrace -> Got(Tab(all), skip_spaces(str, after))
              [] Last1(str, after) = Comma -> streamed_fields(str, after, all)
              [] OTHER -> Raised
        value(key, colon) ==
            IF Last1(str, colon) # Colon THEN Raised
            ELSE Given(streamed(str, skip_spaces(str, colon)), LAMBDA val :
                   IF val = Raised THEN Raised ELSE more(SetField(res, key, val.value), Settled(str, val.next)))
    IN Given(skip_spaces(str, i), LAMBDA at :
         CASE Last1(str, at) = CloseBrace -> Got(Tab(res), skip_spaces(str, at))
           [] Last1(str, at) = Quote ->
                Given(streamed(str, at), LAMBDA key : IF key = Raised THEN Raised ELSE value(key.value, Settled(str, key.next)))
           [] OTHER -> Raised)

streamed(str, i) ==
    LET c == Last1(str, i)
    IN CASE c = Quote -> streamed_string(str, i, <<>>)
         [] c \in Digit \cup {Minus} -> streamed_number(str, i)
         [] c \in {116, 102, 110} -> streamed_literal(str, i)
         [] c = Open -> streamed_elements(str, i, <<>>)
         [] c = OpenBrace -> streamed_fields(str, i, <<>>)
         [] OTHER -> Raised

jsonf_decode(str) ==
    Given(streamed(str, skip_spaces(str, 1)), LAMBDA r : IF r = Raised \/ Last1(str, r.next) # End THEN Raised ELSE r)

-----------------------------------------------------------------------------
(* A value spelled with some space after every token, and a comma before   *)
(* the closing of a table.                                                 *)
RECURSIVE Spelled(_, _, _)
Spelled(v, spaces, comma) ==
    LET tok(t) == t \o spaces
        end(n, c) == (IF comma /\ n > 0 THEN tok(<<Comma>>) ELSE <<>>) \o tok(<<c>>)
        sep(texts) == FlattenSeq([i \in DOMAIN texts |->
                          (IF i = 1 THEN <<>> ELSE tok(<<Comma>>)) \o texts[i]])
        keys == SetToSeq(DOMAIN v.table)
        texts == [i \in DOMAIN keys |-> Spelled(v.table[keys[i]], spaces, comma)]
        inorder == [i \in DOMAIN keys |-> Spelled(v.table[Num(i)], spaces, comma)]
    IN IF ~Is(v, "table") THEN tok(encode(v))
       ELSE IF Num(1) \in DOMAIN v.table
       THEN tok(<<Open>>) \o sep(inorder) \o end(Len(keys), Close)
       ELSE tok(<<OpenBrace>>)
            \o sep([i \in DOMAIN keys |->
                       tok(encode(keys[i])) \o tok(<<Colon>>) \o texts[i]])
            \o end(Len(keys), CloseBrace)

\* A value, and its lists up to their first holes.
RECURSIVE Kept(_)
Kept(v) ==
    IF ~Is(v, "table") THEN v
    ELSE IF Num(1) \in DOMAIN v.table THEN List([i \in 1..BeforeHole(v.table) |-> Kept(v.table[Num(i)])])
    ELSE Tab([k \in DOMAIN v.table |-> Kept(v.table[k])])

\* A value that encode() accepts comes back from its text, however it is
\* spaced (json.lua:127, :376), but for what follows a hole of a list whose
\* length happens to be its number of items (json.lua:77); without its last
\* character the text of a table or a string is refused.
ValueReturns(v, spaces, comma) ==
    encode(v) # Error =>
      /\ decode(encode(v)).value = Kept(v)
      /\ Given(Spelled(Kept(v), spaces, comma), LAMBDA text :
           /\ Given(decode(text), LAMBDA r : r.value = Kept(v) /\ r # Raised)
           /\ (Is(v, "table") \/ Is(v, "str")) /\ spaces = <<>> =>
                decode(Front(text)) = Raised /\ jsonf_decode(Front(text)) = Raised)

HasNull(str) == \E j \in 1..(Len(str) - 3) : SubSeq(str, j, j + 3) = NullWord
HasPair(str) == \E j \in DOMAIN str : IsPair(Piece(str, j, 10))

\* jsonf.lua is a variant of json.lua (jsonf.lua:1): a text means the same to
\* both. What differs: jsonf drops the nulls of lists, takes the two surrogates
\* of a pair for two characters, and refuses space after a lone scalar.
SameToBoth(str) ==
    LET alone(r) == r # Raised /\ ~Is(r.value, "table") /\ str[Len(str)] \in space_chars
        same(r, f) ==
            /\ f # Raised => r # Raised
            /\ r # Raised /\ ~alone(r) => f # Raised
            /\ r # Raised /\ f # Raised /\ ~HasNull(str) /\ ~HasPair(str) => f.value = r.value
    IN Given(decode(str), LAMBDA r : Given(jsonf_decode(str), LAMBDA f : same(r, f)))
=============================================================================
