---------------------------------- MODULE MCLua ----------------------------------
(* Programs for LuaReference. *)
EXTENDS LuaReference

Num(k) == <<"number", k>>
Op2(left, op, right) == <<"op", op, left, right>>
Unop(op, e) == <<"unop", op, e>>
At(t, key) == <<"index", t, key>>
CallOf(f, args) == <<"call", f, args>>
CallN(f, args) == CallOf(Name(f), args)
Fun(ps, b) == <<"function", ps, "fixed", b>>
VarFun(ps, kind, b) == <<"function", ps, kind, b>>
Local(xs, es) == <<"local", xs, es>>
Set1(target, e) == <<"assign", <<target>>, <<e>>>>
SetN(targets, es) == <<"assign", targets, es>>
If1(c, b) == <<"if", <<<<c, b>>>>, <<>>>>
IfElse(c, b1, b2) == <<"if", <<<<c, b1>>>>, b2>>
Ret(es) == <<"return", es>>
Ret1(e) == Ret(<<e>>)
Item(e) == <<"item", e>>
Table(items) == <<"table", items>>
Keyed(key, e) == <<"keyed", key, e>>
NilE == <<"nil">>
TrueE == <<"true">>
Dots == <<"...">>
Inc(x, k) == Set1(Name(x), Op2(Name(x), "+", Num(k)))
Break == <<"break">>
a == Name("a")
b == Name("b")
f == Name("f")
k == Name("k")
t == Name("t")
x == Name("x")

-----------------------------------------------------------------------------
(* Boolean expressions as values, in conditions and returned, for three pairs of arguments *)

Atoms == {a, b, Unop("not", a), Op2(a, "==", b), Op2(Num(1), "<", Num(2)), NilE}
Ops(es1, es2) == {Op2(e1, op, e2) : e1 \in es1, e2 \in es2, op \in {"and", "or"}}
Pairs == Ops({a, Unop("not", b), Op2(a, "~=", Num(1)), TrueE}, Atoms)
Exps == Pairs \cup {Unop("not", e) : e \in Pairs} \cup Ops({a, Op2(a, "==", NilE)}, Ops({b}, Atoms)) \cup Ops(Ops({b}, Atoms), {a, NilE})

Try(e) ==
  <<<<"localfunction", "f", Fun(<<"a", "b">>,
       <<Local(<<"x">>, <<e>>), Local(<<"c">>, <<>>), IfElse(e, <<Set1(Name("c"), Num(1))>>, <<Set1(Name("c"), Num(2))>>),
         <<"while", e, <<Inc("c", 10), Break>>>>, Ret(<<x, Name("c"), e>>)>>)>>,
    Local(<<"x", "y", "z">>, <<CallN("f", <<NilE, Num(1)>>)>>), Local(<<"a", "b">>, <<CallN("f", <<Num(1), Num(1)>>)>>),
    Ret(<<x, Name("y"), Name("z"), a, b, CallN("f", <<Num(1), NilE>>)>>)>>

-----------------------------------------------------------------------------
(* Closures, loops and breaks *)

Counter(v) == Fun(<<>>, <<Inc(v, 10), Ret1(Name(v))>>)
Fs(j) == CallOf(At(Name("fs"), Num(j)), <<>>)

Closures == <<
  \* closures of a loop's locals, with break out of an inner block
  <<Local(<<"fs", "k">>, <<Table(<<>>), Num(1)>>),
    <<"while", TrueE,
      <<Local(<<"x">>, <<k>>),
        <<"do", <<Local(<<"y">>, <<Op2(k, "*", Num(2))>>),
                  Set1(At(Name("fs"), k), Fun(<<>>, <<Inc("x", 10), Inc("y", 100), Ret1(Op2(x, "+", Name("y")))>>)),
                  Inc("k", 1),
                  If1(Op2(k, ">", Num(2)), <<Break>>)>>>>>>>>,
    Local(<<"z">>, <<Num(7)>>),
    Ret(<<Fs(1), Fs(1), Fs(2), k, Name("z")>>)>>,
  \* numeric for, downwards, with closures
  <<Local(<<"fs">>, <<Table(<<>>)>>),
    <<"fornum", "k", <<Num(3), Num(1), Unop("-", Num(1))>>,
      <<Set1(At(Name("fs"), k), Counter("k")), If1(Op2(k, "==", Num(2)), <<Break>>)>>>>,
    Local(<<"y", "z">>, <<Num(8), Num(9)>>),
    Ret(<<Fs(3), Fs(3), Fs(2), At(Name("fs"), Num(1)), Name("y")>>)>>,
  \* repeat whose condition sees a captured local
  <<Local(<<"f", "k">>, <<NilE, Num(0)>>),
    <<"repeat", <<Local(<<"y">>, <<k>>), Set1(f, Counter("y")), Inc("k", 1)>>, Op2(Name("y"), ">=", Num(1))>>,
    Local(<<"z">>, <<Num(5)>>),
    Ret(<<CallN("f", <<>>), CallN("f", <<>>), k, Name("z")>>)>>,
  \* repeat with a local that must be nil again, and a break
  <<Local(<<"k">>, <<Num(0)>>),
    <<"repeat", <<Local(<<"y">>, <<>>), If1(Op2(Name("y"), "~=", NilE), <<Ret1(Str("stale"))>>), Set1(Name("y"), Num(1)),
                  Inc("k", 1), If1(Op2(k, "==", Num(3)), <<Break>>)>>, Op2(k, "==", Num(5))>>,
    Ret1(k)>>,
  \* locals without values after a block that used their registers
  <<<<"do", <<Local(<<"x", "y">>, <<Num(1), Num(2)>>)>>>>, Local(<<"a", "b">>, <<>>), Ret(<<a, b>>)>>,
  \* two closures share a variable, one of them two functions below
  <<Local(<<"x">>, <<Num(1)>>),
    <<"localfunction", "f", Fun(<<>>, <<Ret1(Counter("x"))>>)>>,
    <<"localfunction", "g", Fun(<<"x">>, <<Local(<<"x">>, <<Op2(x, "+", Num(1))>>), Ret1(Counter("x"))>>)>>,
    Local(<<"h">>, <<CallN("g", <<Num(50)>>)>>),
    Ret(<<CallOf(CallN("f", <<>>), <<>>), x, CallN("h", <<>>), CallN("h", <<>>), x>>)>>,
  \* generic for over ipairs
  <<Local(<<"fs", "k">>, <<Table(<<>>), Num(0)>>),
    <<"forin", <<"j", "v">>, <<CallN("ipairs", <<Table(<<Item(Num(5)), Item(Num(6)), Item(Num(7))>>)>>)>>,
      <<Set1(At(Name("fs"), Name("j")), Counter("v")), Inc("k", 1), If1(Op2(Name("v"), "==", Num(6)), <<Break>>)>>>>,
    Ret(<<Fs(1), Fs(2), Fs(1), k>>)>>,
  \* elseif
  <<<<"localfunction", "f", Fun(<<"x">>, <<<<"if", <<<<Op2(x, "<", Num(1)), <<Ret1(Num(10))>>>>, <<Op2(x, "<=", Num(1)), <<Inc("x", 5)>>>>>>,
                                              <<Set1(x, Unop("not", x))>>>>, Ret1(x)>>)>>,
    Ret(<<CallN("f", <<Num(0)>>), CallN("f", <<Num(1)>>), CallN("f", <<Num(2)>>)>>)>>
>>

-----------------------------------------------------------------------------
(* Assignments, calls, variable arguments and constructors *)

Two == <<"localfunction", "two", Fun(<<>>, <<Ret(<<Num(1), Num(2)>>)>>)>>
two == CallN("two", <<>>)

Calls == <<
  \* targets that use an assigned local
  <<Local(<<"a", "t">>, <<Num(1), Table(<<>>)>>), SetN(<<At(t, a), a>>, <<Num(8), Num(2)>>), SetN(<<a, At(t, a)>>, <<Num(3), Num(9)>>),
    Local(<<"x">>, <<t>>), SetN(<<At(t, Num(3)), t>>, <<a, Num(4)>>), SetN(<<a, b, t>>, <<t, a>>),
    Ret(<<At(x, Num(1)), At(x, Num(2)), At(x, Num(3)), a, b, t>>)>>,
  \* adjustment to one, some and all results
  <<Two, Local(<<"a", "b", "c">>, <<two>>), Local(<<"x", "y">>, <<two, two>>), Local(<<"z">>, <<two, Num(5)>>), Local(<<"p", "q">>, <<<<"paren", two>>>>),
    SetN(<<a, b, Name("g")>>, <<b, two>>), <<"callstat", two>>,
    Ret(<<a, b, Name("g"), x, Name("y"), Name("z"), Name("p"), Name("q"), two>>)>>,
  \* constructors
  <<Two, Local(<<"t">>, <<Table(<<Item(Num(1)), Item(two), Item(Num(3)), Keyed(Str("x"), Num(4)), Item(two)>>)>>),
    Local(<<"x">>, <<Table(<<Item(Num(7)), Keyed(Num(9), two), Item(Num(8))>>)>>),
    Ret(<<At(t, Num(1)), At(t, Num(2)), At(t, Num(3)), At(t, Num(4)), At(t, Num(5)), At(t, Str("x")), Unop("#", x), At(x, Num(9)), Unop("#", Str("abc"))>>)>>,
  \* variable arguments, with and without arg
  <<<<"functionstat", "f", VarFun(<<"a">>, "dots", <<Local(<<"x", "y">>, <<Dots>>), Local(<<"t">>, <<Table(<<Item(Dots)>>)>>),
                                     Ret(<<CallN("select", <<Str("#"), Dots>>), x, Name("y"), Unop("#", t), CallN("select", <<Num(2), a, Dots>>)>>)>>)>>,
    <<"functionstat", "g", VarFun(<<"a", "b">>, "arg", <<Local(<<"x">>, <<At(Name("arg"), Num(1))>>), Ret(<<b, x, At(Name("arg"), Str("n"))>>)>>)>>,
    Local(<<"p", "q", "r">>, <<CallN("g", <<Num(1)>>)>>), Local(<<"u", "v", "w">>, <<CallN("g", <<Num(1), Num(2), Num(3), Num(4)>>)>>),
    Ret(<<Name("p"), Name("q"), Name("r"), Name("u"), Name("v"), Name("w"), CallN("f", <<Num(6), Num(7), Num(8)>>)>>)>>,
  \* tail calls that leave captured locals behind
  <<Local(<<"fs">>, <<Table(<<>>)>>),
    <<"localfunction", "f", VarFun(<<"a", "k">>, "dots", <<Set1(At(Name("fs"), k), Counter("k")),
         IfElse(Op2(k, "==", Num(1)), <<Ret(<<a, Dots>>)>>, <<Ret1(CallN("f", <<Op2(a, "+", k), Op2(k, "-", Num(1)), k, Dots>>))>>)>>)>>,
    Local(<<"x", "y", "z">>, <<CallN("f", <<Num(0), Num(3)>>)>>),
    Ret(<<x, Name("y"), Name("z"), Fs(1), Fs(2), Fs(2), Fs(3)>>)>>,
  <<Ret1(CallN("select", <<Num(2), Num(4), Num(5), Num(6)>>))>>,
  <<Local(<<"x", "y">>, <<CallN("select", <<Unop("-", Num(2)), Num(4), Num(5), Num(6)>>)>>),
    Ret(<<x, Name("y"), CallN("pcall", <<Name("select"), Unop("-", Num(3)), Num(4)>>)>>)>>,
  <<Local(<<"t">>, <<Table(<<Item(Num(4)), Item(Num(5)), Item(Num(6))>>)>>),
    Local(<<"x">>, <<Table(<<Item(CallN("unpack", <<t>>)), Item(CallN("unpack", <<t, Num(2)>>))>>)>>),
    Ret(<<Unop("#", x), CallN("type", <<x>>), CallN("type", <<NilE>>), CallN("unpack", <<t, Num(3), Num(2)>>), CallN("unpack", <<t, Num(2), Num(4)>>)>>)>>,
  <<Local(<<"x", "y">>, <<CallN("assert", <<Num(1), Num(2)>>)>>), Local(<<"z", "w">>, <<CallN("pcall", <<Name("assert"), Unop("not", Num(1))>>)>>),
    Ret(<<x, Name("y"), Name("z"), Name("w"), CallN("pcall", <<Name("assert"), NilE, Str("s")>>)>>)>>,
  <<Ret(<<CallN("rawequal", <<Num(1), Num(1)>>), CallN("pcall", <<Name("type")>>)>>)>>,
  <<Ret1(CallN("pcall", <<Fun(<<>>, <<Local(<<"k">>, <<Num(1)>>), Set1(Name("g"), Counter("k")), Ret1(CallN("error", <<CallN("g", <<>>)>>))>>)>>))>>,
  \* constants beyond the operands, folding and concatenation
  <<Local(<<"x">>, <<Num(3)>>), Local(<<"y">>, <<Op2(Num(2), "+", Op2(Num(3), "*", Num(4)))>>), Local(<<"t">>, <<Table(<<>>)>>),
    Set1(At(t, Str("p")), Num(21)), Set1(At(t, Str("q")), Str("v")), Set1(At(t, Num(5)), Op2(Num(30), "-", x)),
    Ret(<<Op2(Op2(x, "+", Num(40)), "*", Op2(Num(41), "%", x)), Name("y"), At(t, Str("p")), At(t, Num(5)), Unop("-", x),
          Op2(Str("s"), "..", Op2(At(t, Str("q")), "..", Op2(x, "..", Num(1)))), Op2(Op2(x, "-", Num(1)), "-", Num(1)), Op2(x, ">", Num(2))>>)>>,
  \* globals and recursion
  <<<<"functionstat", "f", Fun(<<"x">>, <<If1(Op2(x, "==", Num(0)), <<Ret1(Num(0))>>), Ret1(Op2(x, "+", CallN("f", <<Op2(x, "-", Num(1))>>)))>>)>>,
    Set1(Name("g"), CallN("f", <<Num(3)>>)), Ret(<<Name("g"), Name("undefined")>>)>>
>>

-----------------------------------------------------------------------------
(* Metamethods and errors *)

Meta(event, h) == Keyed(Str(event), h)
\* local t = setmetatable({v = 1}, {...}), and u with the same metatable
Object(ms) ==
  <<Local(<<"mt">>, <<Table(ms)>>), Local(<<"t">>, <<CallN("setmetatable", <<Table(<<Keyed(Str("v"), Num(1))>>), Name("mt")>>)>>),
    Local(<<"u">>, <<CallN("setmetatable", <<Table(<<Keyed(Str("v"), Num(2))>>), Name("mt")>>)>>)>>
u == Name("u")
V(o) == At(o, Str("v"))
Rel(e) == Fun(<<"p", "q">>, <<Ret1(e)>>)
p == Name("p")
q == Name("q")
Raises(e) == CallN("error", <<e>>)
Try1(stats) == CallN("pcall", <<Fun(<<>>, stats)>>)

Metamethods == <<
  Object(<<Meta("__index", Rel(Op2(q, "..", Str("!")))), Meta("__newindex", Fun(<<"p", "q", "r">>, <<Set1(Name("g"), Op2(q, "..", Name("r")))>>)),
           Meta("__call", Fun(<<"p", "q">>, <<Ret(<<V(p), q>>)>>))>>)
  \o <<Set1(At(t, Str("w")), Num(5)), Set1(At(t, Str("v")), Num(6)),
       <<"methodstat", "u", "v", Fun(<<"a">>, <<Ret(<<a, Op2(Name("self"), "==", u)>>)>>)>>,
       Ret(<<At(t, Str("w")), V(t), Name("g"), <<"paren", CallN("t", <<Num(3)>>)>>, <<"method", u, "v", <<Num(7)>>>>>>)>>,
  Object(<<Meta("__call", Fun(<<"p", "q">>, <<Ret(<<V(p), q>>)>>))>>) \o <<Ret1(CallN("t", <<Num(3)>>))>>,
  <<Local(<<"mt">>, <<Table(<<Meta("__index", Table(<<Keyed(Str("x"), Num(3))>>)), Meta("__newindex", Table(<<>>))>>)>>),
    Local(<<"t">>, <<CallN("setmetatable", <<Table(<<>>), Name("mt")>>)>>), Set1(At(t, Str("y")), Num(4)),
    Ret(<<At(t, Str("x")), At(t, Str("y")), At(At(Name("mt"), Str("__newindex")), Str("y"))>>)>>,
  Object(<<Meta("__add", Rel(Op2(V(p), "+", Num(10)))), Meta("__unm", Fun(<<"p">>, <<Ret1(V(p))>>)), Meta("__sub", Rel(Op2(p, "-", V(q)))),
           Meta("__concat", Fun(<<"p", "q">>, <<IfElse(Op2(p, "==", Num(2)), <<Ret1(Num(7))>>, <<Ret1(q)>>)>>))>>)
  \o <<Local(<<"x">>, <<Op2(Num(1), "..", Op2(Num(2), "..", t))>>),
       Ret(<<Op2(t, "+", Num(1)), Unop("-", u), Op2(Num(9), "-", u), x, Op2(t, "..", Op2(Num(2), "..", Num(3)))>>)>>,
  Object(<<Meta("__eq", Rel(Op2(V(p), "<", V(q)))), Meta("__lt", Rel(Op2(V(p), "<", V(q))))>>)
  \o <<Local(<<"x">>, <<Num(0)>>), If1(Op2(Op2(t, "<", u), "and", Op2(u, ">", t)), <<Inc("x", 1)>>), <<"while", Op2(t, "<=", u), <<Inc("x", 10), Break>>>>,
       Ret(<<x, Op2(t, "==", u), Op2(u, "==", t), Op2(t, "~=", t), Op2(t, ">=", u), Op2(t, "==", Num(1))>>)>>,
  Object(<<Meta("__le", Rel(NilE)), Meta("__eq", Rel(Num(0)))>>) \o <<Ret(<<Op2(t, "<=", u), Op2(t, ">=", u), Op2(t, "~=", u), Try1(<<Ret1(Op2(t, "<", u))>>)>>)>>,
  \* an error closes the captured locals it unwinds
  <<Local(<<"f">>, <<>>), Local(<<"x", "y">>, <<Try1(<<Local(<<"k">>, <<Num(1)>>), Set1(f, Counter("k")),
        <<"fornum", "j", <<Num(1), Num(3)>>, <<Local(<<"a">>, <<Op2(k, "+", Name("j"))>>), If1(Op2(a, "==", Num(3)), <<<<"callstat", Raises(Num(4))>>>>)>>>>,
        Ret1(Num(5))>>)>>),
    Local(<<"z", "w">>, <<Num(8), Num(9)>>), Ret(<<x, Name("y"), CallN("f", <<>>), CallN("f", <<>>), Name("z")>>)>>,
  <<Local(<<"x", "y">>, <<Try1(<<Ret1(Op2(NilE, "+", Num(1)))>>)>>), Local(<<"z", "w">>, <<Try1(<<Set1(At(Table(<<>>), NilE), Num(1))>>)>>),
    Ret(<<x, Name("y"), Name("z"), Name("w"), Try1(<<Ret(<<Num(1), Try1(<<Ret1(At(Num(1), Num(2)))>>)>>)>>)>>)>>,
  <<Local(<<"x", "y">>, <<Try1(<<<<"callstat", CallOf(Table(<<>>), <<>>)>>>>)>>), Local(<<"z", "w">>, <<Try1(<<Ret1(Unop("#", Num(1)))>>)>>),
    Local(<<"a", "b">>, <<Try1(<<<<"fornum", "j", <<Num(1), NilE>>, <<>>>>>>)>>), Ret(<<x, Name("y"), Name("z"), Name("w"), a, b, Try1(<<Ret1(Op2(Str("s"), "..", NilE))>>)>>)>>,
  \* what metamethods hide, and what hides the metatable
  Object(<<Meta("__index", Rel(Num(3))), Meta("__newindex", Rel(Num(0))), Meta("__eq", Rel(Num(1))), Meta("__metatable", Num(7))>>)
  \o <<<<"callstat", CallN("rawset", <<t, Str("w"), Num(5)>>)>>,
       Ret(<<At(t, Str("w")), At(t, Str("x")), CallN("rawget", <<t, Str("x")>>), Op2(t, "==", u), CallN("rawequal", <<t, u>>), CallN("getmetatable", <<u>>),
             CallN("pcall", <<Name("setmetatable"), t, NilE>>)>>)>>,
  Object(<<>>) \o <<Local(<<"x">>, <<CallN("getmetatable", <<CallN("setmetatable", <<t, NilE>>)>>)>>),
       Ret(<<x, Op2(CallN("getmetatable", <<u>>), "==", Name("mt")), CallN("pcall", <<Name("setmetatable"), t>>), CallN("pcall", <<Name("ipairs"), Num(1)>>)>>)>>,
  <<<<"callstat", Raises(Num(3))>>, Ret1(Num(4))>>,
  \* a key of nil: __newindex of the first table, of the next one, rawset, a constructor; __index is asked
  Object(<<Meta("__newindex", Rel(Num(0))), Meta("__index", Rel(Num(6)))>>)
  \o <<Local(<<"k">>, <<CallN("setmetatable", <<Table(<<>>), Table(<<Meta("__newindex", t)>>)>>)>>),
       Local(<<"x", "y">>, <<Try1(<<Set1(At(t, NilE), Num(1))>>)>>), Local(<<"z", "w">>, <<Try1(<<Set1(At(k, NilE), Num(1))>>)>>),
       Ret(<<x, Name("y"), Name("z"), Name("w"), At(t, NilE), CallN("pcall", <<Name("rawset"), t, NilE, Num(1)>>)>>)>>,
  <<Local(<<"x", "y">>, <<Try1(<<Ret1(Table(<<Keyed(NilE, Num(1))>>))>>)>>), Local(<<"z", "w">>, <<CallN("pcall", <<Name("assert"), NilE, Num(5)>>)>>),
    Ret(<<x, Name("y"), Name("z"), Name("w"), CallN("pcall", <<Name("assert"), NilE, Table(<<>>)>>)>>)>>,
  \* chains of __index and __newindex of three tables, of four, and without an end
  <<Local(<<"a">>, <<Table(<<Keyed(Str("v"), Num(8))>>)>>), <<"localfunction", "f", Fun(<<"x">>, <<Ret1(CallN("setmetatable", <<Table(<<>>),
                     Table(<<Meta("__index", x), Meta("__newindex", x)>>)>>))>>)>>,
    Local(<<"b">>, <<CallN("f", <<CallN("f", <<a>>)>>)>>), Local(<<"x", "y">>, <<Try1(<<Set1(V(b), Num(3)), Ret1(V(b))>>)>>),
    Local(<<"t">>, <<CallN("f", <<b>>)>>), Local(<<"z", "w">>, <<Try1(<<Ret1(V(t))>>)>>),
    Local(<<"p", "q">>, <<Try1(<<Set1(V(t), Num(4))>>)>>), Ret(<<x, Name("y"), Name("z"), Name("w"), p, q, V(a), V(b)>>)>>,
  Object(<<>>) \o <<Set1(At(Name("mt"), Str("__index")), t), Ret(<<V(u), Try1(<<Ret1(At(u, Str("x")))>>)>>)>>
>>

Cases == Closures \o Calls \o Metamethods
MCPrograms ==
  [c \in {<<"boolean", e>> : e \in Exps} |-> Try(c[2])] @@ [c \in {<<"case", j>> : j \in DOMAIN Cases} |-> Cases[c[2]]]
MCCompiled == CompileAll(MCPrograms)
MCMeant == MeanAll(MCPrograms)
=============================================================================
