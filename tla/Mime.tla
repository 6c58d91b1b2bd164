---------------------------------- MODULE Mime ----------------------------------
(***************************************************************************)
(* The low-level filters of mime.c, the filters mime.lua makes of them,    *)
(* and the chains, sources and sinks of ltn12.lua that run a text through  *)
(* them chunk by chunk. A chunk is a sequence of bytes, or Nil at the end; *)
(* a filter's call gives what it returns and the context it is next called *)
(* with.                                                                   *)
(***************************************************************************)
EXTENDS Integers, FiniteSets, SequencesExt

CONSTANT Nil

CR == 13      LF == 10      TAB == 9      SPACE == 32      DOT == 46      EQ == 61
CRLF == <<CR, LF>>
EQCRLF == <<EQ, CR, LF>>
Call(ret, ctx) == [ret |-> ret, ctx |-> ctx]

\* Bytes that a filter cannot place yet (atom), and what it has put out.
State(atom, out) == [atom |-> atom, out |-> out]
Fold(step(_, _), atom, bytes) == FoldLeft(step, State(atom, <<>>), bytes)
Given(value, Body(_)) == Body(value)
OrNil(bytes) == IF bytes = <<>> THEN Nil ELSE bytes

-----------------------------------------------------------------------------
(* Base64                                                                  *)

b64base == [i \in 0..63 |-> IF i < 26 THEN 65 + i ELSE IF i < 52 THEN 71 + i
                            ELSE IF i < 62 THEN i - 4 ELSE IF i = 62 THEN 43 ELSE 47]
\* -1 for what the decoder ignores; the padding counts as 0.
b64unbase(c) ==
    IF c = EQ THEN 0
    ELSE IF \E i \in 0..63 : b64base[i] = c THEN CHOOSE i \in 0..63 : b64base[i] = c ELSE -1

Digits64(value, n) == [k \in 1..n |-> b64base[(value \div (64 ^ (n - k))) % 64]]

b64encode(s, c) ==
    LET a == Append(s.atom, c)
    IN IF Len(a) < 3 THEN State(a, s.out)
       ELSE State(<<>>, s.out \o Digits64(65536 * a[1] + 256 * a[2] + a[3], 4))

b64pad(a) ==
    CASE Len(a) = 0 -> <<>>
      [] Len(a) = 1 -> Digits64(a[1] * 16, 2) \o <<EQ, EQ>>
      [] Len(a) = 2 -> Digits64((256 * a[1] + a[2]) * 4, 3) \o <<EQ>>

b64decode(s, c) ==
    LET a == Append(s.atom, c)
        value == FoldLeft(LAMBDA v, d : 64 * v + b64unbase(d), 0, a)
        decoded == <<value \div 65536, (value \div 256) % 256, value % 256>>
        valid == IF a[3] = EQ THEN 1 ELSE IF a[4] = EQ THEN 2 ELSE 3
    IN IF b64unbase(c) = -1 THEN s
       ELSE IF Len(a) < 4 THEN State(a, s.out)
       ELSE State(<<>>, s.out \o SubSeq(decoded, 1, valid))

mime_global_b64(C, D) ==
    LET first == Fold(b64encode, <<>>, C)
        all == Fold(b64encode, <<>>, C \o D)
    IN IF C = Nil THEN Call(Nil, Nil)
       ELSE IF D = Nil THEN Call(OrNil(first.out \o b64pad(first.atom)), Nil)
       ELSE Call(all.out, all.atom)

mime_global_unb64(C, D) ==
    LET all == Fold(b64decode, <<>>, C \o D)
    IN IF C = Nil THEN Call(Nil, Nil)
       ELSE IF D = Nil THEN Call(OrNil(Fold(b64decode, <<>>, C).out), Nil)
       ELSE Call(all.out, all.atom)

-----------------------------------------------------------------------------
(* Quoted-printable                                                        *)

qpclass(c) ==
    CASE c = CR -> "CR"
      [] c \in {TAB, SPACE} -> "IF_LAST"
      [] c \in 33..126 \ {EQ} -> "PLAIN"
      [] OTHER -> "QUOTED"
qpbase == [d \in 0..15 |-> IF d < 10 THEN 48 + d ELSE 55 + d]
qpunbase == [c \in 0..255 |-> IF c \in 48..57 THEN c - 48 ELSE IF c \in 65..70 THEN c - 55
                              ELSE IF c \in 97..102 THEN c - 87 ELSE 255]
qpquote(c) == <<EQ, qpbase[c \div 16], qpbase[c % 16]>>

\* What is first in the atom goes out when it is clear how.
RECURSIVE qpsettle(_, _)
qpsettle(s, marker) ==
    LET a == s.atom
        class == qpclass(a[1])
        put(bytes) == qpsettle(State(Tail(a), s.out \o bytes), marker)
    IN IF a = <<>> THEN s
       ELSE CASE class = "CR" ->
                   IF Len(a) < 2 THEN s
                   ELSE IF a[2] = LF THEN State(<<>>, s.out \o marker) ELSE put(qpquote(a[1]))
              [] class = "IF_LAST" ->
                   IF Len(a) < 3 THEN s
                   ELSE IF Tail(a) = CRLF THEN State(<<>>, s.out \o qpquote(a[1]) \o marker)
                   ELSE put(<<a[1]>>)
              [] class = "QUOTED" -> put(qpquote(a[1]))
              [] class = "PLAIN" -> put(<<a[1]>>)
qpencode(s, c, marker) == qpsettle(State(Append(s.atom, c), s.out), marker)

qppad(a) ==
    FlattenSeq([i \in DOMAIN a |-> IF qpclass(a[i]) = "PLAIN" THEN <<a[i]>> ELSE qpquote(a[i])])
    \o (IF a = <<>> THEN <<>> ELSE EQCRLF)

qpdecode(s, c) ==
    LET a == Append(s.atom, c)
        done(bytes) == State(<<>>, s.out \o bytes)
    IN CASE a[1] = EQ ->
              IF Len(a) < 3 THEN State(a, s.out)
              ELSE IF Tail(a) = CRLF THEN done(<<>>)
              ELSE IF 255 \in {qpunbase[a[2]], qpunbase[a[3]]} THEN done(a)
              ELSE done(<<16 * qpunbase[a[2]] + qpunbase[a[3]]>>)
         [] a[1] = CR ->
              IF Len(a) < 2 THEN State(a, s.out) ELSE done(IF a[2] = LF THEN a ELSE <<>>)
         [] OTHER -> done(IF a[1] \in {TAB} \cup 32..126 THEN a ELSE <<>>)

mime_global_qp(C, D, marker) ==
    LET step(s, c) == qpencode(s, c, marker)
        first == Fold(step, <<>>, C)
        all == Fold(step, <<>>, C \o D)
    IN IF C = Nil THEN Call(Nil, Nil)
       ELSE IF D = Nil THEN Call(OrNil(first.out \o qppad(first.atom)), Nil)
       ELSE Call(all.out, all.atom)

\* What is still in the atom at the end is lost.
mime_global_unqp(C, D) ==
    LET all == Fold(qpdecode, <<>>, C \o D)
    IN IF C = Nil THEN Call(Nil, Nil)
       ELSE IF D = Nil THEN Call(OrNil(Fold(qpdecode, <<>>, C).out), Nil)
       ELSE Call(all.out, all.atom)

-----------------------------------------------------------------------------
(* Lines. The context is a number: the room left in the line, the last     *)
(* character, or how much of CRLF was last.                                *)

wrp(s, c, length) ==
    CASE c = CR -> s
      [] c = LF -> State(length, s.out \o CRLF)
      [] OTHER -> IF s.atom <= 0 THEN State(length - 1, s.out \o CRLF \o <<c>>)
                  ELSE State(s.atom - 1, Append(s.out, c))

qpwrp(s, c, length) ==
    CASE c = CR -> s
      [] c = LF -> State(length, s.out \o CRLF)
      [] OTHER -> IF s.atom <= (IF c = EQ THEN 3 ELSE 1)
                  THEN State(length - 1, s.out \o EQCRLF \o <<c>>)
                  ELSE State(s.atom - 1, Append(s.out, c))

\* One marker for each of CR, LF, CRLF and LFCR.
eolprocess(s, c, marker) ==
    IF c \notin {CR, LF} THEN State(0, Append(s.out, c))
    ELSE IF s.atom \in {CR, LF} THEN State(0, s.out \o (IF c = s.atom THEN marker ELSE <<>>))
    ELSE State(c, s.out \o marker)

dot(s, c) ==
    CASE c = CR -> State(1, Append(s.out, c))
      [] c = LF -> State(IF s.atom = 1 THEN 2 ELSE 0, Append(s.out, c))
      [] c = DOT -> State(0, s.out \o (IF s.atom = 2 THEN <<DOT, DOT>> ELSE <<DOT>>))
      [] OTHER -> State(0, Append(s.out, c))

Lines(step(_, _), ctx, chunk, ret, after) ==
    LET s == Fold(step, ctx, chunk)
    IN IF chunk = Nil THEN Call(ret, after) ELSE Call(s.out, s.atom)

mime_global_wrp(left, chunk, length) ==
    LET step(s, c) == wrp(s, c, length)
    IN Lines(step, left, chunk, IF left < length THEN CRLF ELSE Nil, length)
mime_global_qpwrp(left, chunk, length) ==
    LET step(s, c) == qpwrp(s, c, length)
    IN Lines(step, left, chunk, IF left < length THEN EQCRLF ELSE Nil, length)

\* Mutant: every chunk begins anew.
mime_global_eolAnew(ctx, chunk, marker) ==
    LET step(s, c) == eolprocess(s, c, marker) IN Lines(step, 0, chunk, Nil, 0)

mime_global_eol(ctx, chunk, marker) ==
    LET step(s, c) == eolprocess(s, c, marker) IN Lines(step, ctx, chunk, Nil, 0)

mime_global_dot(state, chunk) == Lines(dot, state, chunk, Nil, 2)

-----------------------------------------------------------------------------
(* mime.lua and ltn12.lua. A filter is its name, its context and the extra *)
(* argument that filter.cycle() passes along.                              *)

cycle(low, ctx, extra) == [low |-> low, ctx |-> ctx, extra |-> extra]
encodet(length) == [base64 |-> cycle("b64", <<>>, Nil),
                    text |-> cycle("qp", <<>>, CRLF), binary |-> cycle("qp", <<>>, qpquote(CR) \o qpquote(LF)),
                    wrap |-> cycle("wrp", length, length), qpwrap |-> cycle("qpwrp", length, length),
                    normalize |-> cycle("eol", 0, CRLF), stuff |-> cycle("dot", 2, Nil),
                    unbase64 |-> cycle("unb64", <<>>, Nil), unquote |-> cycle("unqp", <<>>, Nil)]

Low(f, chunk) ==
    CASE f.low = "b64" -> mime_global_b64(f.ctx, chunk)
      [] f.low = "unb64" -> mime_global_unb64(f.ctx, chunk)
      [] f.low = "qp" -> mime_global_qp(f.ctx, chunk, f.extra)
      [] f.low = "unqp" -> mime_global_unqp(f.ctx, chunk)
      [] f.low = "wrp" -> mime_global_wrp(f.ctx, chunk, f.extra)
      [] f.low = "qpwrp" -> mime_global_qpwrp(f.ctx, chunk, f.extra)
      [] f.low = "eol" -> mime_global_eol(f.ctx, chunk, f.extra)
      [] f.low = "dot" -> mime_global_dot(f.ctx, chunk)

Failed == <<-1>>    \* error(): no chunk has this byte

NewChain(filters) == [arg |-> filters, top |-> 1, index |-> 1, retry |-> <<>>]

\* The filters before top have come to their end. A filter after it that
\* wants more sends the loop back to the one before.
RECURSIVE chainloop(_, _)
chainloop(ch, chunk) ==
    LET n == Len(ch.arg)
        i == ch.index
        given == IF i # ch.top /\ chunk = Nil THEN <<>> ELSE chunk
    IN Given(Low(ch.arg[i], given), LAMBDA r :
         LET called == [ch EXCEPT !.arg[i].ctx = r.ctx]
             done == [ret |-> r.ret, chain |-> called]
         IN IF i = ch.top
            THEN IF r.ret = <<>> \/ ch.top = n THEN done
                 ELSE IF r.ret # Nil THEN chainloop([called EXCEPT !.index = @ + 1], r.ret)
                 ELSE chainloop([called EXCEPT !.top = @ + 1, !.index = ch.top + 1], Nil)
            ELSE IF r.ret = <<>> THEN chainloop([called EXCEPT !.index = @ - 1], ch.retry)
                 ELSE IF r.ret = Nil THEN [done EXCEPT !.ret = Failed]
                 ELSE IF i = n THEN done
                 ELSE chainloop([called EXCEPT !.index = @ + 1], r.ret))
chain(ch, chunk) == chainloop([ch EXCEPT !.retry = IF chunk = Nil THEN Nil ELSE @], chunk)

\* source.chain() over source.table(): everything it gives until it is empty.
RECURSIVE feeding(_, _), eating(_, _, _)
feeding(ch, chunks) ==
    LET last_in == IF chunks = <<>> THEN Nil ELSE Head(chunks)
        rest == IF chunks = <<>> THEN <<>> ELSE Tail(chunks)
    IN Given(chain(ch, last_in), LAMBDA r :
         IF r.ret = Nil \/ r.ret = Failed THEN (IF last_in = Nil /\ r.ret = Nil THEN <<>> ELSE Failed)
         ELSE IF r.ret = <<>> THEN feeding(r.chain, rest)
         ELSE r.ret \o eating(r.chain, IF last_in = Nil THEN Nil ELSE <<>>, rest))
eating(ch, last_in, chunks) ==
    Given(chain(ch, last_in), LAMBDA r :
      IF r.ret = <<>> THEN (IF last_in = <<>> THEN feeding(r.chain, chunks) ELSE Failed)
      ELSE IF r.ret = Nil \/ r.ret = Failed THEN (IF last_in = Nil /\ r.ret = Nil THEN <<>> ELSE Failed)
      ELSE r.ret \o eating(r.chain, last_in, chunks))

\* pump.all() into sink.chain() over sink.table().
RECURSIVE sinking(_, _, _), pump_all(_, _)
sinking(ch, chunk, done) ==
    Given(chain(ch, chunk), LAMBDA r :
      IF r.ret = Failed \/ r.ret = done
      THEN [out |-> IF r.ret = Failed THEN Failed ELSE <<>>, chain |-> r.chain]
      ELSE [sinking(r.chain, done, done) EXCEPT !.out = (IF r.ret = Nil THEN <<>> ELSE r.ret) \o @])
pump_all(ch, chunks) ==
    LET chunk == Head(chunks)
        sunk == IF chunk = <<>> THEN [out |-> <<>>, chain |-> ch]
                ELSE sinking(ch, chunk, IF chunk = Nil THEN Nil ELSE <<>>)
    IN Given(sunk, LAMBDA s : s.out \o (IF chunk = Nil THEN <<>> ELSE pump_all(s.chain, Tail(chunks))))

-----------------------------------------------------------------------------
\* What one filter makes of a whole text.
RECURSIVE Ending(_)
Ending(f) == Given(Low(f, Nil), LAMBDA r : IF r.ret = Nil THEN <<>> ELSE r.ret \o Ending([f EXCEPT !.ctx = r.ctx]))
Whole(f, text) == Given(Low(f, text), LAMBDA r : r.ret \o Ending([f EXCEPT !.ctx = r.ctx]))
WholeOf(filters, text) == FoldLeft(LAMBDA t, f : Whole(f, t), text, filters)

RECURSIVE LinesOf(_, _)
LinesOf(text, line) ==
    IF text = <<>> THEN {line}
    ELSE IF Head(text) = LF THEN {line} \cup LinesOf(Tail(text), <<>>)
    ELSE LinesOf(Tail(text), IF Head(text) = CR THEN line ELSE Append(line, Head(text)))

\* However a text is cut into chunks, a chain of filters makes of it, on the
\* side of the source and on the side of the sink, what each filter would make
\* of the whole (ltn12.lua:36): no byte waits for a chunk that does not come.
ChunksDoNotMatter(filters, chunks) ==
    Given(WholeOf(filters, FlattenSeq(chunks)), LAMBDA whole :
      /\ feeding(NewChain(filters), chunks) = whole
      /\ pump_all(NewChain(filters), chunks \o <<Nil>>) = whole)

\* Decoding undoes encoding and wrapping, and no wrapped line is too long
\* (mime.c:408, :574).
CodesReturn(bytes, length) ==
    LET f == encodet(length)
    IN /\ Given(WholeOf(<<f.base64, f.wrap>>, bytes), LAMBDA code :
            WholeOf(<<f.unbase64>>, code) = bytes /\ \A line \in LinesOf(code, <<>>) : Len(line) <= length)
       /\ Given(WholeOf(<<f.text, f.qpwrap>>, bytes), LAMBDA text :
            WholeOf(<<f.unquote>>, text) = bytes /\ \A line \in LinesOf(text, <<>>) : Len(line) <= length)
       /\ WholeOf(<<f.binary, f.qpwrap, f.unquote>>, bytes) = bytes
=============================================================================
