---------------------------------- MODULE LuaVM ----------------------------------
(***************************************************************************)
(* The Lua virtual machine: the instructions of src/src/lvm.c, calls,      *)
(* returns, variable arguments and errors of src/src/ldo.c, upvalues of    *)
(* src/src/lfunc.c, and a few functions of src/src/lbaselib.c.  One action *)
(* per instruction.  Values are <<type, payload>>; m is the machine.       *)
(* Where C code calls Lua (metamethods, iterators, pcall), what the C code *)
(* does with the results is the continuation k of the called frame: GoOn.  *)
(* Numbers are integers, strings never look like numbers and are not       *)
(* ordered, messages of errors are their kinds; hooks, the growth of the   *)
(* stack, coroutines and the collector (LuaGC) are left out.               *)
(***************************************************************************)
EXTENDS LuaCode, TLC

CONSTANTS StackSize,   \* bound of the stack
          MAXTAGLOOP   \* how many objects an index goes through

VARIABLES chunk_id,  \* the program that runs
          m          \* the machine

vars == <<chunk_id, m>>

Nil == <<"nil">>
Str(s) == <<"string", s>>
Boolean(b) == <<"boolean", b>>
l_isfalse(v) == v[1] = "nil" \/ v = Boolean(FALSE)
IsFunction(v) == v[1] \in {"function", "builtin"}
Type(v) == IF IsFunction(v) THEN "function" ELSE v[1]

cur == m.ci[Len(m.ci)]
Set(x, i, v) == [x EXCEPT !.stack[i] = v]
\* Values vs from stack position i on.
SetAll(x, i, vs) == [x EXCEPT !.stack = [j \in i .. i + Len(vs) - 1 |-> vs[j - i + 1]] @@ @]
Nils(n) == [i \in 1..n |-> Nil]
Values(x, i, n) == [j \in 1..n |-> x.stack[i + j - 1]]
SetPc(x, pc) == [x EXCEPT !.ci[Len(x.ci)].savedpc = pc]
dojump(x, i) == SetPc(x, x.ci[Len(x.ci)].savedpc + i)

-----------------------------------------------------------------------------
(* Upvalues: open ones point into the stack, closed ones hold their value. *)

upvalue(x, u) == IF x.upvals[u].level >= 0 THEN x.stack[x.upvals[u].level] ELSE x.upvals[u].value
setupvalue(x, u, v) == IF x.upvals[u].level >= 0 THEN Set(x, x.upvals[u].level, v) ELSE [x EXCEPT !.upvals[u].value = v]

\* openupval is ordered by level, the highest first.
findupval(x, level) ==
  LET above == SelectSeq(x.openupval, LAMBDA u : x.upvals[u].level > level)
      rest == SubSeq(x.openupval, Len(above) + 1, Len(x.openupval))
      new == Len(x.upvals) + 1
  IN IF rest # <<>> /\ x.upvals[Head(rest)].level = level THEN x
     ELSE [x EXCEPT !.upvals = Append(@, [level |-> level, value |-> Nil]), !.openupval = above \o <<new>> \o rest]
upvalAt(x, level) == CHOOSE u \in ToSet(x.openupval) : x.upvals[u].level = level

luaF_close(x, level) ==
  [x EXCEPT !.openupval = SelectSeq(@, LAMBDA u : x.upvals[u].level < level),
            !.upvals = [u \in DOMAIN @ |-> IF @[u].level >= level THEN [level |-> -1, value |-> x.stack[@[u].level]] ELSE @[u]]]

-----------------------------------------------------------------------------
(* Tables *)

rawget(x, t, key) == IF key \in DOMAIN x.tables[t].map THEN x.tables[t].map[key] ELSE Nil
rawset(x, t, key, v) == [x EXCEPT !.tables[t].map = (key :> v) @@ @]
newtable(x) == [x EXCEPT !.tables = Append(@, [map |-> <<>>, meta |-> 0])]
border(x, t) == CHOOSE n \in 0..Cardinality(DOMAIN x.tables[t].map) :
                  rawget(x, t, <<"number", n + 1>>) = Nil /\ (n = 0 \/ rawget(x, t, <<"number", n>>) # Nil)

gettm(x, v, event) ==
  IF v[1] = "table" /\ x.tables[v[2]].meta # 0 THEN rawget(x, x.tables[v[2]].meta, Str(event)) ELSE Nil

-----------------------------------------------------------------------------
(* Calls *)

proto_at(path) == FoldLeft(LAMBDA p, i : p.p[i], m.program, path)
closure_at(x, func) == x.closures[x.stack[func][2]]

Frame(func, base, top, nresults, k) ==
  [func |-> func, base |-> base, top |-> top, savedpc |-> 0, nresults |-> nresults, k |-> k, isC |-> FALSE]

RECURSIVE precall(_, _, _, _), getfrom(_, _, _, _, _), setin(_, _, _, _, _), concatenate(_, _, _, _, _)

\* What the caller does next is GoOn.
poscall(x, firstResult) ==
  LET ci == Last(x.ci)
      n == x.top - firstResult
      wanted == IF ci.nresults = LUA_MULTRET THEN n ELSE ci.nresults
      results == [i \in 1..wanted |-> IF i <= n THEN x.stack[firstResult + i - 1] ELSE Nil]
  IN [SetAll(x, ci.func, results) EXCEPT !.ci = Front(@), !.top = ci.func + wanted, !.status = "returned", !.returned = ci]

\* To the innermost pcall; luaD_pcall closes upvalues from the called function on.
throw(x, err) ==
  LET catching == {i \in DOMAIN x.ci : x.ci[i].isC}
      c == x.ci[Max(catching)]
      unwound == [luaF_close(x, c.base) EXCEPT !.ci = SubSeq(@, 1, Max(catching)), !.top = c.base + 2]
  IN IF catching = {} THEN [x EXCEPT !.status = "error", !.results = <<err>>]
     ELSE poscall(SetAll(unwound, c.base, <<Boolean(FALSE), err>>), c.base)

\* Fixed parameters move above the arguments; `arg' is made if the function does not use `...'.
adjust_varargs(x, p, func, actual) ==
  LET n == p.numparams
      filled == [SetAll(x, x.top, Nils(Max({0, n - actual}))) EXCEPT !.top = @ + Max({0, n - actual})]
      nargs == Max({actual, n})
      fixed == filled.top - nargs
      nvar == nargs - n
      arg == [i \in {<<"number", j>> : j \in 1..nvar} |-> x.stack[x.top - nvar + i[2] - 1]] @@ (Str("n") :> <<"number", nvar>>)
      moved == [SetAll(SetAll(filled, filled.top, Values(filled, fixed, n)), fixed, Nils(n)) EXCEPT !.top = @ + n]
      t == [moved EXCEPT !.tables = Append(@, [map |-> arg, meta |-> 0])]
  IN IF "NEEDSARG" \in p.is_vararg THEN [Set(t, t.top, <<"table", Len(t.tables)>>) EXCEPT !.top = @ + 1] ELSE moved

enter_lua(x, func, nresults, k) ==
  LET p == proto_at(closure_at(x, func).p)
      actual == x.top - func - 1
      vararg == "ISVARARG" \in p.is_vararg
      v == IF vararg THEN adjust_varargs(x, p, func, actual) ELSE [x EXCEPT !.top = Min({@, func + 1 + p.numparams})]
      base == IF vararg THEN func + 1 + Max({actual, p.numparams}) ELSE func + 1
      top == base + p.maxstacksize
  IN [SetAll(v, v.top, Nils(top - v.top)) EXCEPT !.top = top, !.ci = Append(@, Frame(func, base, top, nresults, k))]

callTMres(x, f, p1, p2, k) ==
  precall([SetAll(x, x.top, <<f, p1, p2>>) EXCEPT !.top = @ + 3], x.top, 1, k)
callTM(x, f, p1, p2, p3) ==
  precall([SetAll(x, x.top, <<f, p1, p2, p3>>) EXCEPT !.top = @ + 4], x.top, 0, <<"done">>)

enter_c(x, func, nresults, k) ==
  [x EXCEPT !.ci = Append(@, [Frame(func, func + 1, x.top, nresults, k) EXCEPT !.isC = TRUE])]
returns(x, vs) == poscall([SetAll(x, x.top, vs) EXCEPT !.top = @ + Len(vs)], x.top)

-----------------------------------------------------------------------------
(* Functions of lbaselib.c, called at stack position func: their arguments are what is above it. *)

lua_gettop(x, func) == x.top - func - 1
Arg(x, func, n) == IF n <= lua_gettop(x, func) THEN x.stack[func + n] ELSE Nil
IsTable(v) == v[1] = "table"
luaL_error(x, err) == throw([x EXCEPT !.ci = Front(@)], err)
luaL_argerror(x) == luaL_error(x, Str("argument"))
text(v) == IF v[1] = "number" THEN ToString(v[2]) ELSE v[2]
metafield(x, t, event) == IF x.tables[t[2]].meta = 0 THEN Nil ELSE rawget(x, x.tables[t[2]].meta, Str(event))

luaB_error(x, func) == luaL_error(x, Arg(x, func, 1))
luaB_type(x, func) == IF lua_gettop(x, func) = 0 THEN luaL_argerror(x) ELSE returns(x, <<Str(Type(Arg(x, func, 1)))>>)
luaB_assert(x, func) ==
  CASE lua_gettop(x, func) = 0 -> luaL_argerror(x)
    [] ~l_isfalse(Arg(x, func, 1)) -> returns(x, Values(x, func + 1, lua_gettop(x, func)))
    [] OTHER -> CASE Arg(x, func, 2) = Nil -> luaL_error(x, Str("assertion failed!"))
                  [] Arg(x, func, 2)[1] \in {"string", "number"} -> luaL_error(x, Str(text(Arg(x, func, 2))))
                  [] OTHER -> luaL_argerror(x)

luaB_getmetatable(x, func) ==
  LET t == Arg(x, func, 1)
      meta == IF IsTable(t) THEN x.tables[t[2]].meta ELSE 0
  IN CASE lua_gettop(x, func) = 0 -> luaL_argerror(x)
       [] meta = 0 -> returns(x, <<Nil>>)
       [] OTHER -> returns(x, <<IF metafield(x, t, "__metatable") = Nil THEN <<"table", meta>> ELSE metafield(x, t, "__metatable")>>)
luaB_setmetatable(x, func) ==
  LET t == Arg(x, func, 1)
      meta == Arg(x, func, 2)
  IN CASE ~IsTable(t) \/ ~(IsTable(meta) \/ (meta = Nil /\ lua_gettop(x, func) > 1)) -> luaL_argerror(x)
       [] IsTable(t) /\ metafield(x, t, "__metatable") # Nil -> luaL_error(x, Str("protected"))
       [] OTHER -> returns([x EXCEPT !.tables[t[2]].meta = IF meta = Nil THEN 0 ELSE meta[2]], <<t>>)

luaB_rawget(x, func) ==
  LET t == Arg(x, func, 1)
  IN IF IsTable(t) /\ lua_gettop(x, func) > 1 THEN returns(x, <<rawget(x, t[2], Arg(x, func, 2))>>) ELSE luaL_argerror(x)
luaB_rawset(x, func) ==
  LET t == Arg(x, func, 1)
  IN CASE ~IsTable(t) \/ lua_gettop(x, func) < 3 -> luaL_argerror(x)
       [] IsTable(t) /\ lua_gettop(x, func) > 2 /\ Arg(x, func, 2) = Nil -> luaL_error(x, Str("index"))
       [] OTHER -> returns(rawset(x, t[2], Arg(x, func, 2), Arg(x, func, 3)), <<t>>)
luaB_rawequal(x, func) ==
  IF lua_gettop(x, func) < 2 THEN luaL_argerror(x) ELSE returns(x, <<Boolean(Arg(x, func, 1) = Arg(x, func, 2))>>)

luaB_select(x, func) ==
  LET n == lua_gettop(x, func)
      given == Arg(x, func, 1)[2]
      from == IF given < 0 THEN n + given ELSE Min({given, n})
  IN CASE Arg(x, func, 1) = Str("#") -> returns(x, <<<<"number", n - 1>>>>)
       [] Arg(x, func, 1)[1] = "number" -> IF from < 1 THEN luaL_argerror(x) ELSE returns(x, Values(x, func + 1 + from, n - from))
       [] OTHER -> luaL_argerror(x)
luaB_unpack(x, func) ==
  LET t == Arg(x, func, 1)
      first == IF Arg(x, func, 2) = Nil THEN 1 ELSE Arg(x, func, 2)[2]
      last == IF Arg(x, func, 3) = Nil THEN border(x, t[2]) ELSE Arg(x, func, 3)[2]
  IN IF ~IsTable(t) THEN luaL_argerror(x)
     ELSE returns(x, [j \in 1..Max({0, last - first + 1}) |-> rawget(x, t[2], <<"number", first + j - 1>>)])

luaB_ipairs(x, func) ==
  LET t == Arg(x, func, 1)
  IN IF IsTable(t) THEN returns(x, <<<<"builtin", "ipairsaux">>, t, <<"number", 0>>>>) ELSE luaL_argerror(x)
ipairsaux(x, func) ==
  LET next == <<"number", Arg(x, func, 2)[2] + 1>>
      item == rawget(x, Arg(x, func, 1)[2], next)
  IN returns(x, IF item = Nil THEN <<>> ELSE <<next, item>>)

luaB_pcall(x, func) == IF lua_gettop(x, func) = 0 THEN luaL_argerror(x) ELSE precall(x, func + 1, LUA_MULTRET, <<"pcall">>)

builtin(x, name, func) ==
  CASE name = "error" -> luaB_error(x, func)
    [] name = "type" -> luaB_type(x, func)
    [] name = "assert" -> luaB_assert(x, func)
    [] name = "getmetatable" -> luaB_getmetatable(x, func)
    [] name = "setmetatable" -> luaB_setmetatable(x, func)
    [] name = "rawget" -> luaB_rawget(x, func)
    [] name = "rawset" -> luaB_rawset(x, func)
    [] name = "rawequal" -> luaB_rawequal(x, func)
    [] name = "select" -> luaB_select(x, func)
    [] name = "unpack" -> luaB_unpack(x, func)
    [] name = "ipairs" -> luaB_ipairs(x, func)
    [] name = "ipairsaux" -> ipairsaux(x, func)
    [] name = "pcall" -> luaB_pcall(x, func)

-----------------------------------------------------------------------------
(* Calls and jumps *)

\* A value that is no function is called through its metamethod, with itself as the first argument.
tryfuncTM(x, func) ==
  [SetAll(x, func, <<gettm(x, x.stack[func], "__call")>> \o Values(x, func, x.top - func)) EXCEPT !.top = @ + 1]

precall(x, func, nresults, k) ==
  LET v == x.stack[func]
  IN CASE v[1] = "function" -> enter_lua(x, func, nresults, k)
       [] v[1] = "builtin" -> builtin(enter_c(x, func, nresults, k), v[2], func)
       [] OTHER -> IF IsFunction(gettm(x, v, "__call")) THEN precall(tryfuncTM(x, func), func, nresults, k) ELSE throw(x, Str("call"))

CondJump(x, res, wanted) ==
  LET pc == Last(x.ci).savedpc
      jmp == proto_at(closure_at(x, Last(x.ci).func).p).code[pc + 1]
  IN SetPc(x, IF res = (wanted = 1) THEN pc + 1 + jmp[B] ELSE pc + 1)

-----------------------------------------------------------------------------
(* Operations with metamethods; the result goes to register position ra. *)

\* After `loop' objects of a chain of __index.
getfrom(x, t, key, ra, loop) ==
  LET raw == rawget(x, t[2], key)
      tm == gettm(x, t, "__index")
  IN CASE loop = MAXTAGLOOP -> throw(x, Str("loop"))
       [] loop < MAXTAGLOOP /\ t[1] = "table" /\ (raw # Nil \/ tm = Nil) -> Set(x, ra, raw)
       [] loop < MAXTAGLOOP /\ t[1] # "table" /\ tm = Nil -> throw(x, Str("index"))
       [] OTHER -> IF IsFunction(tm) THEN callTMres(x, tm, t, key, <<"res", ra>>) ELSE getfrom(x, tm, key, ra, loop + 1)
gettable(x, t, key, ra) == getfrom(x, t, key, ra, 0)

\* luaH_set refuses a key of nil in every table of the chain, before the metamethod is looked up.
setin(x, t, key, v, loop) ==
  LET raw == rawget(x, t[2], key)
      tm == gettm(x, t, "__newindex")
      refused == IF t[1] = "table" THEN key = Nil ELSE tm = Nil
  IN CASE loop = MAXTAGLOOP -> throw(x, Str("loop"))
       [] loop < MAXTAGLOOP /\ refused -> throw(x, Str("index"))
       [] loop < MAXTAGLOOP /\ ~refused /\ t[1] = "table" /\ (raw # Nil \/ tm = Nil) -> rawset(x, t[2], key, v)
       [] OTHER -> IF IsFunction(tm) THEN callTM(x, tm, t, key, v) ELSE setin(x, tm, key, v, loop + 1)
settable(x, t, key, v) == setin(x, t, key, v, 0)

binTM(x, p1, p2, event) == IF gettm(x, p1, event) # Nil THEN gettm(x, p1, event) ELSE gettm(x, p2, event)

Event(op) == CASE op = "ADD" -> "__add" [] op = "SUB" -> "__sub" [] op = "MUL" -> "__mul" [] op = "MOD" -> "__mod" [] op = "UNM" -> "__unm"

Arith(x, op, b, c, ra) ==
  LET tm == binTM(x, b, c, Event(op))
  IN CASE b[1] = "number" /\ c[1] = "number" -> Set(x, ra, <<"number", luai_num(op, b[2], c[2])>>)
       [] OTHER -> IF tm = Nil THEN throw(x, Str("arith")) ELSE callTMres(x, tm, b, c, <<"res", ra>>)

\* Comparable operands must agree on the metamethod.
orderTM(x, b, c, event) == IF gettm(x, b, event) = gettm(x, c, event) THEN gettm(x, b, event) ELSE Nil
isless(op, b, c) == IF op = "LT" THEN b[2] < c[2] ELSE b[2] <= c[2]

Compare(x, op, b, c, wanted) ==
  LET tm == orderTM(x, b, c, IF op = "LT" THEN "__lt" ELSE "__le")
      lt == IF op = "LE" THEN orderTM(x, c, b, "__lt") ELSE Nil
  IN CASE b[1] = "number" /\ c[1] = "number" -> CondJump(x, isless(op, b, c), wanted)
       [] OTHER -> CASE tm # Nil /\ Type(b) = Type(c) -> callTMres(x, tm, b, c, <<"cond", wanted, FALSE>>)
                     [] tm = Nil /\ lt # Nil /\ Type(b) = Type(c) -> callTMres(x, lt, c, b, <<"cond", wanted, TRUE>>)
                     [] OTHER -> throw(x, Str("compare"))

Equal(x, b, c, wanted) ==
  LET tm == orderTM(x, b, c, "__eq")
  IN IF b = c \/ b[1] # "table" \/ c[1] # "table" \/ tm = Nil THEN CondJump(x, b = c, wanted)
     ELSE callTMres(x, tm, b, c, <<"cond", wanted, FALSE>>)

\* From the right, registers last - total + 1 .. last of the frame.
concatenate(x, total, last, ra, b) ==
  LET r == Last(x.ci).base + last
      p1 == x.stack[r - 1]
      p2 == x.stack[r]
      tm == binTM(x, p1, p2, "__concat")
  IN CASE total = 1 -> Set(x, ra, x.stack[Last(x.ci).base + b])
       [] total > 1 /\ {p1[1], p2[1]} \subseteq {"string", "number"} ->
            concatenate(Set(x, r - 1, Str(text(p1) \o text(p2))), total - 1, last - 1, ra, b)
       [] OTHER -> IF tm = Nil THEN throw(x, Str("concat"))
                   ELSE callTMres(x, tm, p1, p2, <<"concat", total, last, ra, b>>)

\* After the call of frame ci has left its results.
continue(x, ci) ==
  LET k == ci.k
      res == x.stack[x.top - 1]
      popped == [x EXCEPT !.top = @ - 1]
      first == x.stack[ci.func]
  IN CASE k[1] = "lua" -> IF ci.nresults = LUA_MULTRET THEN x ELSE [x EXCEPT !.top = Last(x.ci).top]
       [] k[1] = "res" -> Set(popped, k[2], res)
       [] k[1] = "done" -> x
       [] k[1] = "cond" -> CondJump(popped, l_isfalse(res) = k[3], k[2])
       [] k[1] = "concat" -> concatenate(Set(popped, Last(x.ci).base + k[3] - 1, res), k[2] - 1, k[3] - 1, k[4], k[5])
       [] k[1] = "for" -> LET y == [x EXCEPT !.top = Last(x.ci).top]
                          IN CondJump(IF first = Nil THEN y ELSE Set(y, ci.func - 1, first), first # Nil, 1)
       [] k[1] = "pcall" -> LET c == Last(x.ci)
                                vs == <<Boolean(TRUE)>> \o Values(x, c.base, x.top - c.base)
                            IN poscall([SetAll(x, c.base, vs) EXCEPT !.top = @ + 1], c.base)
       [] k[1] = "exit" -> [x EXCEPT !.status = "ok", !.results = Values(x, 0, x.top)]

-----------------------------------------------------------------------------
(* Instructions *)

running == m.status = "running"
closure == closure_at(m, cur.func)
proto == proto_at(closure.p)
i == proto.code[cur.savedpc + 1]
Op(op) == running /\ i[1] = op /\ UNCHANGED chunk_id
n == SetPc(m, cur.savedpc + 1)  \* pc++
ra == cur.base + i[A]
K(x) == proto.k[x + 1]
R(x) == m.stack[cur.base + x]
RKof(x) == IF x >= BITRK THEN K(x - BITRK) ELSE R(x)
Globals == <<"table", 1>>

Move == Op("MOVE") /\ m' = Set(n, ra, R(i[B]))
LoadK == Op("LOADK") /\ m' = Set(n, ra, K(i[B]))
LoadBool == Op("LOADBOOL") /\ m' = Set(IF i[C] = 1 THEN dojump(n, 1) ELSE n, ra, Boolean(i[B] = 1))
LoadNil == Op("LOADNIL") /\ m' = SetAll(n, ra, Nils(i[B] - i[A] + 1))
GetUpval == Op("GETUPVAL") /\ m' = Set(n, ra, upvalue(m, closure.upvals[i[B] + 1]))
SetUpval == Op("SETUPVAL") /\ m' = setupvalue(n, closure.upvals[i[B] + 1], m.stack[ra])
GetGlobal == Op("GETGLOBAL") /\ m' = gettable(n, Globals, K(i[B]), ra)
SetGlobal == Op("SETGLOBAL") /\ m' = settable(n, Globals, K(i[B]), m.stack[ra])
GetTable == Op("GETTABLE") /\ m' = gettable(n, R(i[B]), RKof(i[C]), ra)
SetTable == Op("SETTABLE") /\ m' = settable(n, m.stack[ra], RKof(i[B]), RKof(i[C]))
NewTable == Op("NEWTABLE") /\ m' = Set(newtable(n), ra, <<"table", Len(m.tables) + 1>>)
Self == Op("SELF") /\ m' = gettable(Set(n, ra + 1, R(i[B])), R(i[B]), RKof(i[C]), ra)
ArithOps == \E op \in {"ADD", "SUB", "MUL", "MOD"} : Op(op) /\ m' = Arith(n, op, RKof(i[B]), RKof(i[C]), ra)
Unm == Op("UNM") /\ m' = Arith(n, "UNM", R(i[B]), R(i[B]), ra)
Not == Op("NOT") /\ m' = Set(n, ra, Boolean(l_isfalse(R(i[B]))))

LenOp ==
  /\ Op("LEN")
  /\ m' = CASE R(i[B])[1] = "table" -> Set(n, ra, <<"number", border(m, R(i[B])[2])>>)
            [] R(i[B])[1] = "string" -> Set(n, ra, <<"number", Len(R(i[B])[2])>>)
            [] OTHER -> throw(n, Str("length"))

ConcatOp == Op("CONCAT") /\ m' = concatenate(n, i[C] - i[B] + 1, i[C], ra, i[B])
Jmp == Op("JMP") /\ m' = dojump(n, i[B])
EqOp == Op("EQ") /\ m' = Equal(n, RKof(i[B]), RKof(i[C]), i[A])
LtLe == \E op \in {"LT", "LE"} : Op(op) /\ m' = Compare(n, op, RKof(i[B]), RKof(i[C]), i[A])
Test == Op("TEST") /\ m' = CondJump(n, l_isfalse(m.stack[ra]), 1 - i[C])
TestSet == Op("TESTSET") /\ m' = CondJump(IF l_isfalse(R(i[B])) = (i[C] = 0) THEN Set(n, ra, R(i[B])) ELSE n, l_isfalse(R(i[B])), 1 - i[C])

CallTop == IF i[B] # 0 THEN [n EXCEPT !.top = ra + i[B]] ELSE n
Call == Op("CALL") /\ m' = precall(CallTop, ra, i[C] - 1, <<"lua">>)

\* The new frame replaces the one of the caller.
TailCallLua(x) ==
  LET new == Last(x.ci)
      moved == Values(x, new.func, x.top - new.func)
      base == cur.func + new.base - new.func
  IN [SetAll(luaF_close(x, cur.base), cur.func, moved) EXCEPT
        !.top = cur.func + Len(moved),
        !.ci = Append(SubSeq(@, 1, Len(m.ci) - 1), [cur EXCEPT !.base = base, !.top = cur.func + Len(moved), !.savedpc = 0])]
TailCall ==
  /\ Op("TAILCALL")
  /\ LET x == precall(CallTop, ra, LUA_MULTRET, <<"lua">>)
     IN m' = IF Len(x.ci) = Len(m.ci) + 1 THEN TailCallLua(x) ELSE x

Return ==
  /\ Op("RETURN")
  /\ m' = poscall(luaF_close(IF i[B] # 0 THEN [n EXCEPT !.top = ra + i[B] - 1] ELSE n, cur.base), ra)

ForLoop ==
  /\ Op("FORLOOP")
  /\ LET step == m.stack[ra + 2][2]
         limit == m.stack[ra + 1][2]
         idx == m.stack[ra][2] + step
     IN m' = IF (step > 0 /\ idx <= limit) \/ (step <= 0 /\ limit <= idx)
             THEN SetAll(dojump(n, i[B]), ra, <<<<"number", idx>>, m.stack[ra + 1], m.stack[ra + 2], <<"number", idx>>>>)
             ELSE n

ForPrep ==
  /\ Op("FORPREP")
  /\ m' = IF \E j \in 0..2 : m.stack[ra + j][1] # "number" THEN throw(n, Str("for"))
          ELSE Set(dojump(n, i[B]), ra, <<"number", m.stack[ra][2] - m.stack[ra + 2][2]>>)

TForLoop ==
  /\ Op("TFORLOOP")
  /\ m' = precall([SetAll(n, ra + 3, Values(m, ra, 3)) EXCEPT !.top = ra + 6], ra + 3, i[C], <<"for">>)

SetList ==
  /\ Op("SETLIST")
  /\ LET count == IF i[B] = 0 THEN m.top - ra - 1 ELSE i[B]
         x == IF i[B] = 0 THEN [n EXCEPT !.top = cur.top] ELSE n
         first == (i[C] - 1) * LFIELDS_PER_FLUSH
     IN m' = FoldLeft(LAMBDA y, j : rawset(y, m.stack[ra][2], <<"number", first + j>>, m.stack[ra + j]), x, [j \in 1..count |-> j])

Close == Op("CLOSE") /\ m' = luaF_close(n, ra)

\* The pseudo-instructions after CLOSURE say where each upvalue is.
Closure ==
  /\ Op("CLOSURE")
  /\ LET path == Append(closure.p, i[B] + 1)
         uses == SubSeq(proto.code, cur.savedpc + 2, cur.savedpc + 1 + proto_at(path).nups)
         found == FoldLeft(LAMBDA x, u : IF u[1] = "MOVE" THEN findupval(x, cur.base + u[B]) ELSE x, n, uses)
         up(u) == IF u[1] = "MOVE" THEN upvalAt(found, cur.base + u[B]) ELSE closure.upvals[u[B] + 1]
         new == [p |-> path, upvals |-> [j \in DOMAIN uses |-> up(uses[j])]]
     IN m' = Set([dojump(found, Len(uses)) EXCEPT !.closures = Append(@, new)], ra, <<"function", Len(m.closures) + 1>>)

VarArg ==
  /\ Op("VARARG")
  /\ LET count == cur.base - cur.func - proto.numparams - 1
         wanted == IF i[B] = 0 THEN count ELSE i[B] - 1
         vs == [j \in 1..wanted |-> IF j <= count THEN m.stack[cur.base - count + j - 1] ELSE Nil]
     IN m' = SetAll(IF i[B] = 0 THEN [n EXCEPT !.top = ra + count] ELSE n, ra, vs)

GoOn == m.status = "returned" /\ m' = continue([m EXCEPT !.status = "running"], m.returned) /\ UNCHANGED chunk_id

finished == m.status \in {"ok", "error"}
Finished == finished /\ UNCHANGED vars

Library ==
  {"error", "type", "assert", "getmetatable", "setmetatable", "rawget", "rawset", "rawequal", "select", "unpack", "ipairs", "pcall"}

\* A state with compiled function f as the main function.
Loaded(f) ==
  [program |-> f, stack |-> [j \in 0..StackSize - 1 |-> IF j = 0 THEN <<"function", 1>> ELSE Nil], top |-> 1, ci |-> <<>>,
   upvals |-> <<>>, openupval |-> <<>>, closures |-> <<[p |-> <<>>, upvals |-> <<>>]>>,
   tables |-> <<[map |-> [g \in {Str(b) : b \in Library} |-> <<"builtin", g[2]>>], meta |-> 0]>>,
   status |-> "loaded", returned |-> <<>>, results |-> <<>>]

Start ==
  /\ m.status = "loaded"
  /\ m' = enter_lua([m EXCEPT !.status = "running"], 0, LUA_MULTRET, <<"exit">>)
  /\ UNCHANGED chunk_id

Next ==
  \/ Start \/ Move \/ LoadK \/ LoadBool \/ LoadNil \/ GetUpval \/ SetUpval \/ GetGlobal \/ SetGlobal \/ GetTable \/ SetTable
  \/ NewTable \/ Self \/ ArithOps \/ Unm \/ Not \/ LenOp \/ ConcatOp \/ Jmp \/ EqOp \/ LtLe \/ Test \/ TestSet
  \/ Call \/ TailCall \/ Return \/ ForLoop \/ ForPrep \/ TForLoop \/ SetList \/ Close \/ Closure \/ VarArg \/ GoOn \/ Finished
=============================================================================
