------------------------------- MODULE LuaReference -------------------------------
(***************************************************************************)
(* What a Lua program means, by the Lua 5.1 reference manual and not by    *)
(* the code: an evaluator of syntax trees, in which every local is a cell  *)
(* of a store and closures hold environments.  The same trees, printed as  *)
(* tokens, compiled by LuaParser and run by LuaVM, are compared with it.   *)
(* Where the implementation is known to depart from the manual, Departs... *)
(* says so: a key of nil, chains of tables, the message of assert.         *)
(***************************************************************************)
EXTENDS LuaVM, LuaParser, LuaChunk

-----------------------------------------------------------------------------
(* Printing, with the parentheses that the manual's precedences call for *)

prec ==
  ("or" :> 1) @@ ("and" :> 2) @@ [op \in DOMAIN CompOp |-> 3] @@ (".." :> 4) @@ [op \in {"+", "-"} |-> 5] @@ [op \in {"*", "%"} |-> 6]
unaryPrec == 7

Comma(tokss) == FoldLeftDomain(LAMBDA ts, j : ts \o (IF j = 1 THEN <<>> ELSE <<<<",">>>>) \o tokss[j], <<>>, tokss)
Name(x) == <<"name", x>>
Names(xs) == Comma([j \in DOMAIN xs |-> <<Name(xs[j])>>])

RECURSIVE ExpTokens(_, _), BlockTokens(_)

ExpsTokens(es) == Comma([j \in DOMAIN es |-> ExpTokens(es[j], 0)])
Parens(ts) == <<<<"(">>>> \o ts \o <<<<")">>>>
Prefix(e) == IF e[1] \in {"name", "index", "call", "method", "paren"} THEN ExpTokens(e, 0) ELSE Parens(ExpTokens(e, 0))
FunctionTokens(f) ==
  Parens(Comma([j \in DOMAIN f[2] |-> <<Name(f[2][j])>>] \o (IF f[3] = "fixed" THEN <<>> ELSE <<<<<<"...">>>>>>)))
  \o BlockTokens(f[4]) \o <<<<"end">>>>

ExpTokens(e, min) ==
  LET t == e[1]
      left == IF e[2] = ".." THEN prec[e[2]] + 1 ELSE prec[e[2]]
      right == IF e[2] = ".." THEN prec[e[2]] ELSE prec[e[2]] + 1
      op == ExpTokens(e[3], left) \o <<<<e[2]>>>> \o ExpTokens(e[4], right)
      unop == <<<<e[2]>>>> \o ExpTokens(e[3], unaryPrec)
      item(x) == IF x[1] = "item" THEN ExpTokens(x[2], 0)
                 ELSE <<<<"[">>>> \o ExpTokens(x[2], 0) \o <<<<"]">>, <<"=">>>> \o ExpTokens(x[3], 0)
  IN CASE t \in {"nil", "true", "false", "..."} -> <<<<t>>>>
       [] t \in {"number", "string", "name"} -> <<e>>
       [] t = "index" -> Prefix(e[2]) \o (IF e[3][1] = "string" THEN <<<<".">>, Name(e[3][2])>>
                                                ELSE <<<<"[">>>> \o ExpTokens(e[3], 0) \o <<<<"]">>>>)
       [] t = "call" -> Prefix(e[2]) \o Parens(ExpsTokens(e[3]))
       [] t = "method" -> Prefix(e[2]) \o <<<<":">>, Name(e[3])>> \o Parens(ExpsTokens(e[4]))
       [] t = "function" -> <<<<"function">>>> \o FunctionTokens(e)
       [] t = "paren" -> Parens(ExpTokens(e[2], 0))
       [] t = "table" -> <<<<"{">>>> \o Comma([j \in DOMAIN e[2] |-> item(e[2][j])]) \o <<<<"}">>>>
       [] t = "op" -> IF prec[e[2]] < min THEN Parens(op) ELSE op
       [] t = "unop" -> IF unaryPrec < min THEN Parens(unop) ELSE unop

Do(b) == <<<<"do">>>> \o BlockTokens(b) \o <<<<"end">>>>
InitTokens(es) == IF es = <<>> THEN <<>> ELSE <<<<"=">>>> \o ExpsTokens(es)
StatTokens(st) ==
  LET t == st[1]
      clause(c) == ExpTokens(c[1], 0) \o <<<<"then">>>> \o BlockTokens(c[2])
      clauses == FoldLeftDomain(LAMBDA ts, j : ts \o <<<<IF j = 1 THEN "if" ELSE "elseif">>>> \o clause(st[2][j]), <<>>, st[2])
  IN CASE t = "local" -> <<<<"local">>>> \o Names(st[2]) \o InitTokens(st[3])
       [] t = "assign" -> ExpsTokens(st[2]) \o InitTokens(st[3])
       [] t = "callstat" -> ExpTokens(st[2], 0)
       [] t = "do" -> Do(st[2])
       [] t = "while" -> <<<<"while">>>> \o ExpTokens(st[2], 0) \o Do(st[3])
       [] t = "repeat" -> <<<<"repeat">>>> \o BlockTokens(st[2]) \o <<<<"until">>>> \o ExpTokens(st[3], 0)
       [] t = "if" -> clauses \o (IF st[3] = <<>> THEN <<>> ELSE <<<<"else">>>> \o BlockTokens(st[3])) \o <<<<"end">>>>
       [] t = "fornum" -> <<<<"for">>, Name(st[2])>> \o InitTokens(st[3]) \o Do(st[4])
       [] t = "forin" -> <<<<"for">>>> \o Names(st[2]) \o <<<<"in">>>> \o ExpsTokens(st[3]) \o Do(st[4])
       [] t = "localfunction" -> <<<<"local">>, <<"function">>, Name(st[2])>> \o FunctionTokens(st[3])
       [] t = "functionstat" -> <<<<"function">>, Name(st[2])>> \o FunctionTokens(st[3])
       [] t = "methodstat" -> <<<<"function">>, Name(st[2]), <<":">>, Name(st[3])>> \o FunctionTokens(st[4])
       [] t = "return" -> <<<<"return">>>> \o ExpsTokens(st[2])
       [] t = "break" -> <<<<"break">>>>

BlockTokens(b) == FoldLeft(LAMBDA ts, st : ts \o StatTokens(st) \o <<<<";">>>>, <<>>, b)

-----------------------------------------------------------------------------
(* Evaluation: an outcome has the state s, what happened, and values. *)

Ok(s, vs) == [s |-> s, o |-> "ok", v |-> vs]
Error(s, err) == [s |-> s, o |-> "error", v |-> <<err>>]
Bind(r, F(_, _)) == IF r.o = "ok" THEN F(r.s, r.v) ELSE r
One(r) == IF r.o = "ok" THEN Ok(r.s, <<IF r.v = <<>> THEN Nil ELSE r.v[1]>>) ELSE r
Adjust(vs, k) == [j \in 1..k |-> IF j <= Len(vs) THEN vs[j] ELSE Nil]

Cells(s, xs, vs) == [s EXCEPT !.store = @ \o Adjust(vs, Len(xs))]
\* Later names hide earlier ones.
Bound(s, xs, env) == FoldLeftDomain(LAMBDA en, j : (xs[j] :> Len(s.store) + j) @@ en, env, xs)

\* One operator is recursive for the three that need each other.
RECURSIVE Evaluate(_, _), Loop(_, _, _, _)
Eval(e, env, va, s) == Evaluate(<<"exp", e, env, va>>, s)
Block(stats, env, va, s) == Evaluate(<<"block", stats, env, va>>, s)
Apply(s, f, args) == Evaluate(<<"call", f, args>>, s)

\* The manual lets an index go through any number of objects.
DepartsLoop(through) == through = MAXTAGLOOP
\* By the manual, a table that lacks a key passes it to __newindex; nil, which no table has, is refused first.
DepartsNilKey(t, key) == t[1] = "table" /\ key = Nil
\* By the manual the message is what error() is given; here it is a string.
DepartsMessage(v) == IF v[1] \in {"string", "number"} THEN Str(text(v)) ELSE Str("argument")

RECURSIVE IndexVia(_, _, _, _), SetIndexVia(_, _, _, _, _)
IndexVia(s, t, key, through) ==
  LET raw == rawget(s, t[2], key)
      h == gettm(s, t, "__index")
  IN IF DepartsLoop(through) THEN Error(s, Str("loop"))
     ELSE IF t[1] = "table" /\ (raw # Nil \/ h = Nil) THEN Ok(s, <<raw>>)
     ELSE IF h = Nil THEN Error(s, Str("index"))
     ELSE IF IsFunction(h) THEN One(Apply(s, h, <<t, key>>)) ELSE IndexVia(s, h, key, through + 1)
Index(s, t, key) == IndexVia(s, t, key, 0)

SetIndexVia(s, t, key, v, through) ==
  LET raw == rawget(s, t[2], key)
      h == gettm(s, t, "__newindex")
  IN IF DepartsLoop(through) THEN Error(s, Str("loop"))
     ELSE IF DepartsNilKey(t, key) THEN Error(s, Str("index"))
     ELSE IF t[1] = "table" /\ (raw # Nil \/ h = Nil) THEN Ok(rawset(s, t[2], key, v), <<>>)
     ELSE IF h = Nil THEN Error(s, Str("index"))
     ELSE IF IsFunction(h) THEN Apply(s, h, <<t, key, v>>) ELSE SetIndexVia(s, h, key, v, through + 1)
SetIndex(s, t, key, v) == SetIndexVia(s, t, key, v, 0)

\* The manual's getbinhandler and getcomphandler.
BinHandler(s, a, b, event) == IF gettm(s, a, event) # Nil THEN gettm(s, a, event) ELSE gettm(s, b, event)
CompHandler(s, a, b, event) ==
  IF Type(a) = Type(b) /\ gettm(s, a, event) = gettm(s, b, event) THEN gettm(s, a, event) ELSE Nil
Truth(r, sense) == Bind(r, LAMBDA s, v : Ok(s, <<Boolean(~l_isfalse(v[1]) = sense)>>))

Less(s, a, b, event) ==
  LET h == CompHandler(s, a, b, event)
      lt == CompHandler(s, b, a, "__lt")
      res == IF event = "__lt" THEN a[2] < b[2] ELSE a[2] <= b[2]
  IN CASE a[1] = "number" /\ b[1] = "number" -> Ok(s, <<Boolean(res)>>)
       [] OTHER -> CASE h # Nil -> Truth(One(Apply(s, h, <<a, b>>)), TRUE)
                     [] h = Nil /\ event = "__le" /\ lt # Nil -> Truth(One(Apply(s, lt, <<b, a>>)), FALSE)
                     [] OTHER -> Error(s, Str("compare"))

Same(s, a, b) ==
  LET h == CompHandler(s, a, b, "__eq")
  IN IF a = b \/ a[1] # "table" \/ b[1] # "table" \/ h = Nil THEN Ok(s, <<Boolean(a = b)>>)
     ELSE Truth(One(Apply(s, h, <<a, b>>)), TRUE)

Binary(s, op, a, b) ==
  LET event == IF op = ".." THEN "__concat" ELSE Event(ArithOp[op])
      h == BinHandler(s, a, b, event)
  IN CASE op = "==" -> Same(s, a, b)
       [] op = "~=" -> Truth(Same(s, a, b), FALSE)
       [] op \in {"<", "<="} -> Less(s, a, b, IF op = "<" THEN "__lt" ELSE "__le")
       [] op \in {">", ">="} -> Less(s, b, a, IF op = ">" THEN "__lt" ELSE "__le")
       [] op = ".." /\ {a[1], b[1]} \subseteq {"string", "number"} -> Ok(s, <<Str(text(a) \o text(b))>>)
       [] op \in DOMAIN ArithOp /\ a[1] = "number" /\ b[1] = "number" -> Ok(s, <<<<"number", luai_num(ArithOp[op], a[2], b[2])>>>>)
       [] OTHER -> IF h # Nil THEN One(Apply(s, h, <<a, b>>)) ELSE Error(s, Str(IF op = ".." THEN "concat" ELSE "arith"))

Unary(s, op, a) ==
  LET h == gettm(s, a, "__unm")
  IN CASE op = "not" -> Ok(s, <<Boolean(l_isfalse(a))>>)
       [] op = "#" -> IF a[1] = "table" THEN Ok(s, <<<<"number", border(s, a[2])>>>>)
                      ELSE IF a[1] = "string" THEN Ok(s, <<<<"number", Len(a[2])>>>>) ELSE Error(s, Str("length"))
       [] OTHER -> IF a[1] = "number" THEN Ok(s, <<<<"number", -a[2]>>>>)
                   ELSE IF h # Nil THEN One(Apply(s, h, <<a, a>>)) ELSE Error(s, Str("arith"))

\* All values of the last expression, one of each other.
RECURSIVE EvalList(_, _, _, _)
EvalList(es, env, va, s) ==
  IF es = <<>> THEN Ok(s, <<>>)
  ELSE IF Len(es) = 1 THEN Eval(es[1], env, va, s)
  ELSE Bind(One(Eval(es[1], env, va, s)), LAMBDA s1, v1 : Bind(EvalList(Tail(es), env, va, s1), LAMBDA s2, v2 : Ok(s2, v1 \o v2)))

RECURSIVE Items(_, _, _, _, _, _)
Items(items, t, count, env, va, s) ==
  LET it == items[1]
      value == Eval(IF it[1] = "item" THEN it[2] ELSE it[3], env, va, s)
      all == IF it[1] = "item" /\ Len(items) = 1 THEN value ELSE One(value)
      put(x, vs) == FoldLeftDomain(LAMBDA y, j : rawset(y, t, <<"number", count + j>>, vs[j]), x, vs)
  IN IF items = <<>> THEN Ok(s, <<<<"table", t>>>>)
     ELSE IF it[1] = "item" THEN Bind(all, LAMBDA x, vs : Items(Tail(items), t, count + 1, env, va, put(x, vs)))
     ELSE Bind(One(Eval(it[2], env, va, s)), LAMBDA x, k :
            Bind(One(Eval(it[3], env, va, x)), LAMBDA y, v :
              Bind(SetIndex(y, <<"table", t>>, k[1], v[1]), LAMBDA z, none : Items(Tail(items), t, count, env, va, z))))

MakeFunction(s, f, env) ==
  Ok([s EXCEPT !.closures = Append(@, [params |-> f[2], vararg |-> f[3], body |-> f[4], env |-> env])], <<<<"function", Len(s.closures) + 1>>>>)

Exp(e, env, va, s) ==
  LET t == e[1]
      One1(x) == One(Eval(x, env, va, s))
  IN CASE t = "nil" -> Ok(s, <<Nil>>)
       [] t \in {"true", "false"} -> Ok(s, <<Boolean(t = "true")>>)
       [] t \in {"number", "string"} -> Ok(s, <<e>>)
       [] t = "..." -> Ok(s, va)
       [] t = "name" -> IF e[2] \in DOMAIN env THEN Ok(s, <<s.store[env[e[2]]]>>) ELSE Index(s, Globals, Str(e[2]))
       [] t = "paren" -> One1(e[2])
       [] t = "function" -> MakeFunction(s, e, env)
       [] t = "table" -> Items(e[2], Len(s.tables) + 1, 0, env, va, newtable(s))
       [] t = "index" -> Bind(One1(e[2]), LAMBDA s1, o : Bind(One(Eval(e[3], env, va, s1)), LAMBDA s2, k : Index(s2, o[1], k[1])))
       [] t = "call" -> Bind(One1(e[2]), LAMBDA s1, f : Bind(EvalList(e[3], env, va, s1), LAMBDA s2, vs : Apply(s2, f[1], vs)))
       [] t = "method" -> Bind(One1(e[2]), LAMBDA s1, o : Bind(Index(s1, o[1], Str(e[3])), LAMBDA s2, f :
                            Bind(EvalList(e[4], env, va, s2), LAMBDA s3, vs : Apply(s3, f[1], o \o vs))))
       [] t = "unop" -> Bind(One1(e[3]), LAMBDA s1, a : Unary(s1, e[2], a[1]))
       [] t = "op" -> Bind(One1(e[3]), LAMBDA s1, a :
                        IF (e[2] = "and" /\ l_isfalse(a[1])) \/ (e[2] = "or" /\ ~l_isfalse(a[1])) THEN Ok(s1, a)
                        ELSE Bind(One(Eval(e[4], env, va, s1)), LAMBDA s2, b :
                               IF e[2] \in {"and", "or"} THEN Ok(s2, b) ELSE Binary(s2, e[2], a[1], b[1])))

ArgTable(vs) == [k \in {<<"number", j>> : j \in DOMAIN vs} |-> vs[k[2]]] @@ (Str("n") :> <<"number", Len(vs)>>)
\* What the manual says of the functions of the library that are in Library.
LibraryFunction(s, name, args) ==
  LET a == Adjust(args, 3)
      t == a[1][2]
      wrong == Error(s, Str("argument"))
      meta == s.tables[t].meta
      protected == IF meta = 0 THEN Nil ELSE rawget(s, meta, Str("__metatable"))
      called == Apply(s, a[1], Tail(args))
      next == <<"number", a[2][2] + 1>>
      from == IF t < 0 THEN Len(args) + t ELSE t
      range == (IF a[2] = Nil THEN 1 ELSE a[2][2]) .. (IF a[3] = Nil THEN border(s, t) ELSE a[3][2])
      onTable == {"setmetatable", "rawget", "rawset", "unpack", "ipairs"}
      few == Len(args) < (CASE name = "error" -> 0 [] name \in {"setmetatable", "rawget", "rawequal"} -> 2 [] name = "rawset" -> 3 [] OTHER -> 1)
  IN CASE few \/ (name \in onTable /\ a[1][1] # "table") -> wrong
       [] name = "error" -> Error(s, a[1])
       [] name = "type" -> Ok(s, <<Str(Type(a[1]))>>)
       [] name = "assert" -> IF ~l_isfalse(a[1]) THEN Ok(s, args) ELSE Error(s, IF a[2] = Nil THEN Str("assertion failed!") ELSE DepartsMessage(a[2]))
       [] name = "getmetatable" -> Ok(s, <<IF a[1][1] # "table" THEN Nil ELSE IF protected # Nil THEN protected ELSE IF meta = 0 THEN Nil ELSE <<"table", meta>>>>)
       [] name = "setmetatable" -> IF a[2][1] \notin {"nil", "table"} THEN wrong
                                   ELSE IF protected # Nil THEN Error(s, Str("protected"))
                                   ELSE Ok([s EXCEPT !.tables[t].meta = IF a[2] = Nil THEN 0 ELSE a[2][2]], <<a[1]>>)
       [] name = "rawget" -> Ok(s, <<rawget(s, t, a[2])>>)
       [] name = "rawset" -> IF a[2] = Nil THEN Error(s, Str("index")) ELSE Ok(rawset(s, t, a[2], a[3]), <<a[1]>>)
       [] name = "rawequal" -> Ok(s, <<Boolean(a[1] = a[2])>>)
       [] name = "select" -> IF a[1] = Str("#") THEN Ok(s, <<<<"number", Len(args) - 1>>>>)
                             ELSE IF from < 1 THEN wrong ELSE Ok(s, SubSeq(args, from + 1, Len(args)))
       [] name = "unpack" -> Ok(s, [j \in 1..Cardinality(range) |-> rawget(s, t, <<"number", Min(range) + j - 1>>)])
       [] name = "ipairs" -> Ok(s, <<<<"builtin", "ipairsaux">>, a[1], <<"number", 0>>>>)
       [] name = "ipairsaux" -> Ok(s, IF rawget(s, t, next) = Nil THEN <<>> ELSE <<next, rawget(s, t, next)>>)
       [] name = "pcall" -> Ok(called.s, <<Boolean(called.o # "error")>> \o called.v)

\* The extra arguments of a function with `...' are there, and in a local table arg if it does not use `...'.
CallFunction(s, f, args) ==
  LET c == s.closures[f[2]]
      fixed == Adjust(args, Len(c.params))
      va == IF c.vararg # "fixed" THEN SubSeq(args, Len(c.params) + 1, Len(args)) ELSE <<>>
      hasarg == c.vararg = "arg"
      xs == IF hasarg THEN Append(c.params, "arg") ELSE c.params
      s1 == IF hasarg THEN [s EXCEPT !.tables = Append(@, [map |-> ArgTable(va), meta |-> 0])] ELSE s
      s2 == Cells(s1, xs, IF hasarg THEN Append(fixed, <<"table", Len(s1.tables)>>) ELSE fixed)
      r == Block(c.body, Bound(s1, xs, c.env), va, s2)
      h == gettm(s, f, "__call")
  IN CASE f[1] = "function" -> IF r.o = "error" THEN Error(r.s, r.v[1]) ELSE Ok(r.s, IF r.o = "return" THEN r.v ELSE <<>>)
       [] f[1] \notin {"function", "builtin"} -> IF IsFunction(h) THEN Apply(s, h, <<f>> \o args) ELSE Error(s, Str("call"))
       [] OTHER -> LibraryFunction(s, f[2], args)

-----------------------------------------------------------------------------
(* Statements: an outcome may be "break" or "return", and has the environment after. *)

With(r, env) == [s |-> r.s, o |-> r.o, v |-> r.v, env |-> env]
Inner(r) == [s |-> r.s, o |-> r.o, v |-> r.v]
\* A loop ends after a body that does not end normally.
LoopEnd(r) == IF r.o = "break" THEN Ok(r.s, <<>>) ELSE Inner(r)

\* The targets' tables and keys, then the values, then the assignments.
RECURSIVE Targets(_, _, _, _), Assign(_, _, _, _)
Targets(ts, env, va, s) ==
  IF ts = <<>> THEN Ok(s, <<>>)
  ELSE IF ts[1][1] = "index" THEN Bind(EvalList(<<<<"paren", ts[1][2]>>, <<"paren", ts[1][3]>>>>, env, va, s), LAMBDA s1, v1 :
                                    Bind(Targets(Tail(ts), env, va, s1), LAMBDA s2, v2 : Ok(s2, <<v1>> \o v2)))
  ELSE Bind(Targets(Tail(ts), env, va, s), LAMBDA s2, v2 : Ok(s2, <<<<Globals, Str(ts[1][2])>>>> \o v2))
Assign(ts, places, vs, s) ==
  IF ts = <<>> THEN Ok(s, <<>>)
  ELSE Bind(IF ts[1] > 0 THEN Ok([s EXCEPT !.store[ts[1]] = vs[1]], <<>>) ELSE SetIndex(s, places[1][1], places[1][2], vs[1]),
            LAMBDA s1, v1 : Assign(Tail(ts), Tail(places), Tail(vs), s1))
AssignTo(ts, vs, env, va, s0, s) ==
  LET cells == [j \in DOMAIN ts |-> IF ts[j][1] = "name" /\ ts[j][2] \in DOMAIN env THEN env[ts[j][2]] ELSE 0]
  IN Bind(Targets(ts, env, va, s0), LAMBDA s1, places : Bind(EvalList(vs, env, va, s1), LAMBDA s2, v :
        Assign(Reverse(cells), Reverse(places), Reverse(Adjust(v, Len(ts))), s2)))

Declared(r, xs, env) == IF r.o = "ok" THEN With(Ok(Cells(r.s, xs, r.v), <<>>), Bound(r.s, xs, env)) ELSE With(r, env)

RECURSIVE NumericFor(_, _, _, _, _), GenericFor(_, _, _, _, _), Clauses(_, _, _, _, _)
NumericFor(st, range, env, va, s) ==
  LET r == Block(st[4], Bound(s, <<st[2]>>, env), va, Cells(s, <<st[2]>>, <<<<"number", range[1]>>>>))
  IN IF IF range[3] > 0 THEN range[1] > range[2] ELSE range[1] < range[2] THEN Ok(s, <<>>)
     ELSE IF r.o = "ok" THEN NumericFor(st, <<range[1] + range[3], range[2], range[3]>>, env, va, r.s) ELSE LoopEnd(r)

GenericFor(st, state, env, va, s) ==
  Bind(Apply(s, state[1], <<state[2], state[3]>>), LAMBDA s1, vs :
    LET v == Adjust(vs, Len(st[2]))
        r == Block(st[4], Bound(s1, st[2], env), va, Cells(s1, st[2], v))
    IN IF v[1] = Nil THEN Ok(s1, <<>>)
       ELSE IF r.o = "ok" THEN GenericFor(st, <<state[1], state[2], v[1]>>, env, va, r.s) ELSE LoopEnd(r))

Clauses(cs, else, env, va, s) ==
  IF cs = <<>> THEN Inner(Block(else, env, va, s))
  ELSE Bind(One(Eval(cs[1][1], env, va, s)), LAMBDA s1, c :
         IF l_isfalse(c[1]) THEN Clauses(Tail(cs), else, env, va, s1) ELSE Inner(Block(cs[1][2], env, va, s1)))

\* while (and repeat, whose condition sees the block's locals)
Loop(st, env, va, s) ==
  LET run(x) == Block(IF st[1] = "while" THEN st[3] ELSE st[2], env, va, x)
      again(r) == IF r.o = "ok" THEN Loop(st, env, va, r.s) ELSE LoopEnd(r)
      first == run(s)
  IN IF st[1] = "while"
     THEN Bind(One(Eval(st[2], env, va, s)), LAMBDA s1, c : IF l_isfalse(c[1]) THEN Ok(s1, <<>>) ELSE again(run(s1)))
     ELSE IF first.o # "ok" THEN LoopEnd(first)
     ELSE Bind(One(Eval(st[3], first.env, va, first.s)), LAMBDA s1, c :
            IF l_isfalse(c[1]) THEN Loop(st, env, va, s1) ELSE Ok(s1, <<>>))

Stat(st, env, va, s) ==
  LET t == st[1]
      exps == EvalList(st[3], env, va, s)
      own == Bound(s, <<st[2]>>, env)
  IN CASE t = "local" -> Declared(exps, st[2], env)
       [] t = "localfunction" -> LET r == MakeFunction(Cells(s, <<st[2]>>, <<>>), st[3], own)
                                 IN With(Ok([r.s EXCEPT !.store[Len(s.store) + 1] = r.v[1]], <<>>), own)
       [] t = "return" -> LET r == EvalList(st[2], env, va, s) IN With(IF r.o = "ok" THEN [r EXCEPT !.o = "return"] ELSE r, env)
       [] t = "break" -> With([Ok(s, <<>>) EXCEPT !.o = "break"], env)
       [] OTHER -> With(
            CASE t = "assign" -> AssignTo(st[2], st[3], env, va, s, s)
              [] t = "functionstat" -> AssignTo(<<<<"name", st[2]>>>>, <<st[3]>>, env, va, s, s)
              [] t = "methodstat" -> AssignTo(<<<<"index", Name(st[2]), <<"string", st[3]>>>>>>,
                                              <<[st[4] EXCEPT ![2] = <<"self">> \o @]>>, env, va, s, s)
              [] t = "callstat" -> Eval(st[2], env, va, s)
              [] t = "do" -> Inner(Block(st[2], env, va, s))
              [] t \in {"while", "repeat"} -> Loop(st, env, va, s)
              [] t = "if" -> Clauses(st[2], st[3], env, va, s)
              [] t = "fornum" -> Bind(exps, LAMBDA s1, v : IF \E j \in DOMAIN v : v[j][1] # "number" THEN Error(s1, Str("for"))
                                   ELSE NumericFor(st, <<v[1][2], v[2][2], IF Len(v) = 3 THEN v[3][2] ELSE 1>>, env, va, s1))
              [] t = "forin" -> Bind(exps, LAMBDA s1, v : GenericFor(st, Adjust(v, 3), env, va, s1)), env)

Stats(b, env, va, s) ==
  IF b = <<>> THEN With(Ok(s, <<>>), env)
  ELSE LET r == Stat(b[1], env, va, s) IN IF r.o = "ok" THEN Block(Tail(b), r.env, va, r.s) ELSE r

Evaluate(what, s) ==
  CASE what[1] = "exp" -> Exp(what[2], what[3], what[4], s)
    [] what[1] = "block" -> Stats(what[2], what[3], what[4], s)
    [] what[1] = "call" -> CallFunction(s, what[2], what[3])

Meaning(b) ==
  LET globals == [k \in {Str(f) : f \in Library} |-> <<"builtin", k[2]>>]
      r == Block(b, <<>>, <<>>, [store |-> <<>>, tables |-> <<[map |-> globals, meta |-> 0]>>, closures |-> <<>>])
  IN <<IF r.o = "error" THEN "error" ELSE "ok", IF r.o = "ok" THEN <<>> ELSE r.v>>

-----------------------------------------------------------------------------
(* Programs, compiled and run *)

\* For the syntax trees programs: their main functions, and what they do.
CompileAll(programs) == [c \in DOMAIN programs |-> luaY_parser(BlockTokens(programs[c]))] @@ <<>>
MeanAll(programs) == [c \in DOMAIN programs |-> Meaning(programs[c])] @@ <<>>

CONSTANTS Compiled,  \* CompileAll of the programs
          Meant      \* MeanAll of them

\* Definitions, so that TLC evaluates them once.
Chunks == Compiled
Meanings == Meant

Init == chunk_id \in DOMAIN Chunks /\ m = Loaded(Chunks[chunk_id])

Spec == Init /\ [][Next]_vars

-----------------------------------------------------------------------------
(* Properties *)

(* What lparser.c and lcode.c compile passes ldebug.c's checker, and comes back as it was from the chunk that ldump.c *)
(* writes and lundump.c reads, with its debug information or stripped of it; a chunk cut short is refused. *)
ChunksReturn == m = Loaded(m.program) => ReturnsFromChunk(m.program)

Shown(vs) == [j \in DOMAIN vs |-> IF vs[j][1] \in {"table", "function", "builtin"} THEN Type(vs[j]) ELSE vs[j]]

(* Compiled by lparser.c and lcode.c and run by lvm.c, a program returns the values, or raises the error, that the *)
(* manual gives it: whatever jumps, registers, upvalues and metamethods it took. *)
RunMeansProgram ==
  finished => m.status = Meanings[chunk_id][1] /\ Shown(m.results) = Shown(Meanings[chunk_id][2])

\* The locals of frame f that are in scope at its next instruction, as the compiler recorded them.
ActiveLocals(f) ==
  LET p == proto_at(m.closures[m.stack[f.func][2]].p)
  IN Cardinality({v \in DOMAIN p.locvars : p.locvars[v].startpc <= f.savedpc /\ f.savedpc < p.locvars[v].endpc})
NextOp(f) == proto_at(m.closures[m.stack[f.func][2]].p).code[f.savedpc + 1][1]

(* An open upvalue is the register of a local in scope, or the next instruction closes it: the compiler's CLOSE *)
(* at the ends of blocks, breaks and loops (leaveblock, breakstat, repeatstat) leaves none behind, and neither *)
(* do returns, tail calls and errors (luaF_close). *)
OpenUpvaluesLive ==
  running => \A u \in ToSet(m.openupval) :
    LET level == m.upvals[u].level
        f == m.ci[Max({c \in DOMAIN m.ci : m.ci[c].base <= level} \cup {1})]
    IN f.base <= level /\ (level < f.base + ActiveLocals(f) \/ NextOp(f) \in {"CLOSE", "RETURN", "TAILCALL"})

NoRegisterA == {"JMP", "EQ", "LT", "LE", "RETURN"}
RegisterB == {"MOVE", "LOADNIL", "GETTABLE", "SELF", "UNM", "NOT", "LEN", "CONCAT", "TESTSET"}
OperandB == {"SETTABLE", "ADD", "SUB", "MUL", "MOD", "EQ", "LT", "LE"}
OperandC == {"GETTABLE", "SELF"} \cup OperandB
(* No assertion of the compiler failed, and those of luaV_execute hold: the top of the stack is the frame's unless the *)
(* instruction is the open end of a list, and the instruction uses registers of its frame only. *)
StackDiscipline ==
  running =>
    LET open == i[1] \in {"CALL", "TAILCALL", "RETURN", "SETLIST"} /\ i[B] = 0
        Within(r) == r < proto.maxstacksize
    IN /\ proto.ok
       /\ IF open THEN m.top >= ra ELSE m.top = cur.top
       /\ i[1] \notin NoRegisterA => Within(i[A])
       /\ (i[1] \in RegisterB \/ (i[1] \in OperandB /\ i[B] < BITRK)) => Within(i[B])
       /\ (i[1] \in OperandC /\ i[C] < BITRK) => Within(i[C])
=============================================================================
