--------------------------------- MODULE LuaCode ---------------------------------
(***************************************************************************)
(* The code generator of the Lua compiler, src/src/lcode.c.  A function    *)
(* that is being compiled (struct FuncState) is a record s; s.e is the     *)
(* expression in hand (struct expdesc).  Instructions are <<op, A, B, C>>, *)
(* Bx and sBx are kept in B; pc n is s.code[n + 1].  Jumps whose target is *)
(* not known yet are chained through their own offsets, as in the code.    *)
(* Line information and the limits of sizes are left out.                  *)
(***************************************************************************)
EXTENDS Integers, SequencesExt, FiniteSetsExt

CONSTANTS MAXINDEXRK,        \* the largest constant that fits in an operand
          LFIELDS_PER_FLUSH  \* list items of a constructor that are stored at once

ASSUME LuaCodeAssumption == MAXINDEXRK \in Nat /\ LFIELDS_PER_FLUSH \in Nat \ {0}

A == 2
B == 3
C == 4
NO_JUMP == -1
NO_REG == 255
BITRK == 256
LUA_MULTRET == -1

init_exp(k, i) == [k |-> k, info |-> i, aux |-> 0, t |-> NO_JUMP, f |-> NO_JUMP]
hasjumps(e) == e.t # e.f
hasmultret(e) == e.k \in {"VCALL", "VVARARG"}
isnumeral(e) == e.k = "VKNUM" /\ e.t = NO_JUMP /\ e.f = NO_JUMP
RK(e) == IF e.k = "VK" THEN BITRK + e.info ELSE e.info
SetE(s, k, i) == [s EXCEPT !.e.k = k, !.e.info = i]
Bool(b) == IF b THEN 1 ELSE 0

\* LET x == value IN Body(x).  TLC's coverage expands a LET wherever its name is used, and this only once.
Given(value, Body(_)) == Body(value)

HereIs(s) == Len(s.code)  \* fs->pc
LastPc(s) == Len(s.code) - 1
TestModes == {"EQ", "LT", "LE", "TEST", "TESTSET", "TFORLOOP"}

-----------------------------------------------------------------------------
(* Lists of jumps *)

fixjump(s, pc, dest) == [s EXCEPT !.code[pc + 1][B] = dest - (pc + 1)]

getjump(s, pc) == LET offset == s.code[pc + 1][B] IN IF offset = NO_JUMP THEN NO_JUMP ELSE pc + 1 + offset

RECURSIVE Jumps(_, _)
Jumps(s, list) == IF list = NO_JUMP THEN <<>> ELSE <<list>> \o Jumps(s, getjump(s, list))

getjumpcontrol(s, pc) == IF pc >= 1 /\ s.code[pc][1] \in TestModes THEN pc - 1 ELSE pc

KeepsValue(s, node) == s.code[getjumpcontrol(s, node) + 1][1] = "TESTSET"

need_value(s, list) == \E j \in ToSet(Jumps(s, list)) : ~KeepsValue(s, j)

patchtestreg(s, node, reg) ==
  LET i == getjumpcontrol(s, node) + 1
      test == s.code[i]
  IN CASE ~KeepsValue(s, node) -> s
       [] KeepsValue(s, node) /\ reg # NO_REG /\ reg # test[B] -> [s EXCEPT !.code[i][A] = reg]
       [] OTHER -> [s EXCEPT !.code[i] = <<"TEST", test[B], 0, test[C]>>]

removevalues(s, list) == FoldLeft(LAMBDA x, j : patchtestreg(x, j, NO_REG), s, Jumps(s, list))

patchlistaux(s, list, vtarget, reg, dtarget) ==
  FoldLeft(LAMBDA x, j : fixjump(patchtestreg(x, j, reg), j, IF KeepsValue(x, j) THEN vtarget ELSE dtarget),
           s, Jumps(s, list))

\* luaK_concat leaves the list that starts at First(l1, l2).
First(l1, l2) == IF l1 = NO_JUMP THEN l2 ELSE l1
concat(s, l1, l2) ==
  IF l1 = NO_JUMP \/ l2 = NO_JUMP THEN s ELSE LET js == Jumps(s, l1) IN fixjump(s, js[Len(js)], l2)

getlabel(s) == [s EXCEPT !.lasttarget = Len(s.code)]

patchtohere(s, list) == [getlabel(concat(s, s.jpc, list)) EXCEPT !.jpc = First(@, list)]

patchlist(s, list, target) ==
  IF target = Len(s.code) THEN patchtohere(s, list) ELSE patchlistaux(s, list, target, NO_REG, target)

-----------------------------------------------------------------------------
(* Instructions, constants, registers *)

dischargejpc(s) == [patchlistaux(s, s.jpc, Len(s.code), NO_REG, Len(s.code)) EXCEPT !.jpc = NO_JUMP]

code(s, op, a, b, c) == [dischargejpc(s) EXCEPT !.code = Append(@, <<op, a, b, c>>)]

\* The jumps that were to arrive here are kept on hold in the list of the new one.
jump(s) == concat(code([s EXCEPT !.jpc = NO_JUMP], "JMP", 0, NO_JUMP, 0), HereIs(s), s.jpc)

condjump(s, op, a, b, c) == jump(code(s, op, a, b, c))

\* Joins the previous LOADNIL unless a jump arrives between.
loadnil(s, from, n) ==
  LET straight == Len(s.code) > s.lasttarget
      last == s.code[Len(s.code)]
  IN CASE straight /\ Len(s.code) = 0 /\ from >= s.nactvar -> s
       [] straight /\ Len(s.code) # 0 /\ last[1] = "LOADNIL" /\ last[A] <= from /\ from <= last[B] + 1 ->
            [s EXCEPT !.code[Len(s.code)][B] = Max({@, from + n - 1})]
       [] OTHER -> code(s, "LOADNIL", from, from + n - 1, 0)

addk(s, v) == IF v \in ToSet(s.k) THEN s ELSE [s EXCEPT !.k = Append(@, v)]
KIndex(s, v) == (CHOOSE i \in 1..Len(s.k) : s.k[i] = v) - 1

checkstack(s, n) == [s EXCEPT !.maxstacksize = Max({@, s.freereg + n})]
reserveregsUnchecked(s, n) == [s EXCEPT !.freereg = @ + n]
reserveregs(s, n) == [checkstack(s, n) EXCEPT !.freereg = @ + n]

freereg(s, reg) ==
  IF reg >= BITRK \/ reg < s.nactvar THEN s
  ELSE [s EXCEPT !.freereg = @ - 1, !.ok = @ /\ reg = s.freereg - 1]  \* lua_assert
freeexp(s, e) == IF e.k = "VNONRELOC" THEN freereg(s, e.info) ELSE s
freehand(s) == freeexp(s, s.e)

Relocable(s) == SetE(s, "VRELOCABLE", LastPc(s))

setreturns(s, nresults) ==
  CASE s.e.k = "VCALL" -> [s EXCEPT !.code[s.e.info + 1][C] = nresults + 1]
    [] s.e.k = "VVARARG" -> reserveregs([s EXCEPT !.code[s.e.info + 1][B] = nresults + 1,
                                                  !.code[s.e.info + 1][A] = s.freereg], 1)
    [] OTHER -> s

setoneret(s) ==
  CASE s.e.k = "VCALL" -> SetE(s, "VNONRELOC", s.code[s.e.info + 1][A])
    [] s.e.k = "VVARARG" -> SetE([s EXCEPT !.code[s.e.info + 1][B] = 2], "VRELOCABLE", s.e.info)
    [] OTHER -> s

-----------------------------------------------------------------------------
(* Expressions into registers *)

dischargevars(s) ==
  LET get == ("VUPVAL" :> "GETUPVAL") @@ ("VGLOBAL" :> "GETGLOBAL") @@ ("VINDEXED" :> "GETTABLE")
      table == IF s.e.k = "VINDEXED" THEN freereg(freereg(s, s.e.aux), s.e.info) ELSE s
  IN CASE s.e.k = "VLOCAL" -> SetE(s, "VNONRELOC", s.e.info)
       [] s.e.k \in DOMAIN get -> Relocable(code(table, get[s.e.k], 0, s.e.info, IF s.e.k = "VINDEXED" THEN s.e.aux ELSE 0))
       [] OTHER -> setoneret(s)

code_label(s, a, b, skip) == code(getlabel(s), "LOADBOOL", a, b, skip)

loaded(d, reg) ==
  CASE d.e.k = "VNIL" -> loadnil(d, reg, 1)
    [] d.e.k \in {"VFALSE", "VTRUE"} -> code(d, "LOADBOOL", reg, Bool(d.e.k = "VTRUE"), 0)
    [] d.e.k = "VK" -> code(d, "LOADK", reg, d.e.info, 0)
    [] d.e.k = "VKNUM" -> Given(addk(d, <<"number", d.e.info>>), LAMBDA n : code(n, "LOADK", reg, KIndex(n, <<"number", d.e.info>>), 0))
    [] d.e.k = "VRELOCABLE" -> [d EXCEPT !.code[d.e.info + 1][A] = reg]
    [] OTHER -> IF reg # d.e.info THEN code(d, "MOVE", reg, d.e.info, 0) ELSE d
discharge2reg(s, reg) ==
  Given(dischargevars(s), LAMBDA d : IF d.e.k \in {"VVOID", "VJMP"} THEN d ELSE SetE(loaded(d, reg), "VNONRELOC", reg))

discharge2anyreg(s) == IF s.e.k = "VNONRELOC" THEN s ELSE discharge2reg(reserveregs(s, 1), s.freereg)

\* Where a jump of the expression carries no value, true and false are loaded after it.
\* After the code c of the value: false at p_f and true behind it, which the other ways jump over.
loadbools(c, reg, p_f, isJump) ==
  LET fj == IF isJump THEN NO_JUMP ELSE HereIs(c)
  IN patchtohere(code_label(code_label(IF isJump THEN c ELSE jump(c), reg, 0, 1), reg, 1, 0), fj)

patchvalues(c, reg, isJump) ==
  LET p_f == HereIs(c) + Bool(~isJump)
      needed == need_value(c, c.e.t) \/ need_value(c, c.e.f)
  IN Given(getlabel(IF needed THEN loadbools(c, reg, p_f, isJump) ELSE c),
          LAMBDA l : patchlistaux(patchlistaux(l, l.e.f, HereIs(l), reg, p_f), l.e.t, HereIs(l), reg, p_f + 1))

exp2reg(s, reg) ==
  Given(discharge2reg(s, reg), LAMBDA d :
    Given(IF d.e.k = "VJMP" THEN [concat(d, d.e.t, d.e.info) EXCEPT !.e.t = First(@, d.e.info)] ELSE d, LAMBDA c :
      [(IF hasjumps(c.e) THEN patchvalues(c, reg, d.e.k = "VJMP") ELSE c) EXCEPT !.e = init_exp("VNONRELOC", reg)]))

exp2nextreg(s) == Given(freehand(dischargevars(s)), LAMBDA d : exp2reg(reserveregs(d, 1), d.freereg))

exp2anyreg(s) ==
  Given(dischargevars(s), LAMBDA d :
    LET stays == d.e.k = "VNONRELOC" /\ (hasjumps(d.e) => d.e.info >= d.nactvar)
        f == freehand(d)
    IN IF stays /\ ~hasjumps(d.e) THEN d
       ELSE exp2reg(IF stays THEN d ELSE reserveregs(f, 1), IF stays THEN d.e.info ELSE f.freereg))

exp2val(s) == IF hasjumps(s.e) THEN exp2anyreg(s) ELSE dischargevars(s)

\* The operand is then RK(e).
constant(e) ==
  CASE e.k = "VKNUM" -> <<"number", e.info>> [] e.k = "VNIL" -> <<"nil">> [] OTHER -> <<"boolean", e.k = "VTRUE">>
exp2RK(s) ==
  Given(IF hasjumps(s.e) THEN s ELSE dischargevars(s), LAMBDA v :
    CASE v.e.k \in {"VKNUM", "VTRUE", "VFALSE", "VNIL"} /\ ~hasjumps(v.e) /\ Len(v.k) <= MAXINDEXRK ->
           Given(addk(v, constant(v.e)), LAMBDA n : SetE(n, "VK", KIndex(n, constant(v.e))))
      [] v.e.k = "VK" /\ ~hasjumps(v.e) /\ v.e.info <= MAXINDEXRK -> v
      [] OTHER -> exp2anyreg(v))

\* The expression in hand is stored in var.
storevar(s, var) ==
  CASE var.k = "VLOCAL" -> exp2reg(freehand(s), var.info)
    [] var.k \in {"VUPVAL", "VGLOBAL"} ->
         Given(exp2anyreg(s), LAMBDA r :
           freehand(code(r, IF var.k = "VUPVAL" THEN "SETUPVAL" ELSE "SETGLOBAL", r.e.info, var.info, 0)))
    [] OTHER -> Given(exp2RK(s), LAMBDA r : freehand(code(r, "SETTABLE", var.info, var.aux, RK(r.e))))

\* e:key, the method and the object on the next two registers.
self(s, key) ==
  Given(freehand(exp2anyreg(s)), LAMBDA o :
    Given(exp2RK([reserveregs(o, 2) EXCEPT !.e = key]), LAMBDA k :
      SetE([freehand(code(k, "SELF", o.freereg, o.e.info, RK(k.e))) EXCEPT !.e = o.e], "VNONRELOC", o.freereg)))

-----------------------------------------------------------------------------
(* Conditions *)

invertjump(s) == LET i == getjumpcontrol(s, s.e.info) + 1 IN [s EXCEPT !.code[i][A] = 1 - @]

jumponcond(s, cond) ==
  IF s.e.k = "VRELOCABLE" /\ s.code[s.e.info + 1][1] = "NOT"
  THEN condjump([s EXCEPT !.code = Front(@)], "TEST", Last(s.code)[B], 0, 1 - cond)
  ELSE Given(discharge2anyreg(s), LAMBDA d : condjump(freehand(d), "TESTSET", NO_REG, d.e.info, cond))

iftrue(j, pc) == Given([concat(j, j.e.f, pc) EXCEPT !.e.f = First(@, pc)], LAMBDA c : [patchtohere(c, c.e.t) EXCEPT !.e.t = NO_JUMP])
goiftrue(s) ==
  Given(dischargevars(s), LAMBDA d :
    CASE d.e.k \in {"VK", "VKNUM", "VTRUE"} -> iftrue(d, NO_JUMP)
      [] d.e.k = "VJMP" -> iftrue(invertjump(d), d.e.info)
      [] OTHER -> Given(jumponcond(d, 0), LAMBDA j : iftrue(j, LastPc(j))))

iffalse(j, pc) == Given([concat(j, j.e.t, pc) EXCEPT !.e.t = First(@, pc)], LAMBDA c : [patchtohere(c, c.e.f) EXCEPT !.e.f = NO_JUMP])
goiffalse(s) ==
  Given(dischargevars(s), LAMBDA d :
    CASE d.e.k \in {"VNIL", "VFALSE"} -> iffalse(d, NO_JUMP)
      [] d.e.k = "VJMP" -> iffalse(d, d.e.info)
      [] OTHER -> Given(jumponcond(d, 1), LAMBDA j : iffalse(j, LastPc(j))))

negated(d) ==
  CASE d.e.k \in {"VNIL", "VFALSE"} -> SetE(d, "VTRUE", 0)
    [] d.e.k \in {"VK", "VKNUM", "VTRUE"} -> SetE(d, "VFALSE", 0)
    [] d.e.k = "VJMP" -> invertjump(d)
    [] OTHER -> Given(discharge2anyreg(d), LAMBDA r : Relocable(code(freehand(r), "NOT", 0, r.e.info, 0)))
codenotKeepsValues(s) ==
  Given(negated(dischargevars(s)), LAMBDA n : [n EXCEPT !.e.t = n.e.f, !.e.f = n.e.t])

codenot(s) ==
  Given(negated(dischargevars(s)), LAMBDA n :
    [removevalues(removevalues(n, n.e.t), n.e.f) EXCEPT !.e.t = n.e.f, !.e.f = n.e.t])

-----------------------------------------------------------------------------
(* Operators *)

indexed(s, t) == Given(exp2RK(s), LAMBDA k : [k EXCEPT !.e = [t EXCEPT !.k = "VINDEXED", !.aux = RK(k.e)]])

\* Lua's numbers, as far as they are integers.
luai_num(op, x, y) ==
  CASE op = "ADD" -> x + y [] op = "SUB" -> x - y [] op = "MUL" -> x * y [] op = "MOD" -> x % y [] op = "UNM" -> -x

\* Operations on two numerals are done by the compiler, except % 0.
folds(op, e1, e2) ==
  /\ op \in {"ADD", "SUB", "MUL", "MOD", "UNM"}
  /\ isnumeral(e1) /\ isnumeral(e2)
  /\ op = "MOD" => e2.info > 0

freeboth(s, e1, e2) == freeexp(freeexp(s, e1), e2)

\* Relocable keeps the expression's lists of jumps: they are those of e1.
codearith(s, op, e1, e2) ==
  IF folds(op, e1, e2) THEN [s EXCEPT !.e = [e1 EXCEPT !.info = luai_num(op, e1.info, e2.info)]]
  ELSE Given(IF op \in {"UNM", "LEN"} THEN [s EXCEPT !.e = e2] ELSE exp2RK([s EXCEPT !.e = e2]), LAMBDA x2 :
    LET o2 == IF op \in {"UNM", "LEN"} THEN 0 ELSE RK(x2.e)
    IN Given(exp2RK([x2 EXCEPT !.e = e1]), LAMBDA x1 :
         LET first == RK(x1.e) > o2
             freed == freeboth(x1, IF first THEN x1.e ELSE x2.e, IF first THEN x2.e ELSE x1.e)
         IN Relocable(code(freed, op, 0, RK(x1.e), o2))))

\* > and >= are < and <= with their operands exchanged.
codecomp(s, op, cond, e1, e2) ==
  Given(exp2RK([s EXCEPT !.e = e1]), LAMBDA x1 :
    Given(exp2RK([x1 EXCEPT !.e = e2]), LAMBDA x2 :
      LET swaps == cond = 0 /\ op # "EQ"
          left == IF swaps THEN x2 ELSE x1
          right == IF swaps THEN x1 ELSE x2
          freed == [freeboth(x2, x2.e, x1.e) EXCEPT !.e = x1.e]
      IN Given(condjump(freed, op, IF swaps THEN 1 ELSE cond, RK(left.e), RK(right.e)),
              LAMBDA c : SetE(c, "VJMP", LastPc(c)))))

prefix(s, op) ==
  IF op = "not" THEN codenot(s)
  ELSE Given(IF op = "-" /\ isnumeral(s.e) THEN s ELSE exp2anyreg(s),
            LAMBDA r : codearith(r, IF op = "-" THEN "UNM" ELSE "LEN", r.e, init_exp("VKNUM", 0)))

infix(s, op) ==
  CASE op = "and" -> goiftrue(s)
    [] op = "or" -> goiffalse(s)
    [] op = ".." -> exp2nextreg(s)
    [] OTHER -> IF op \in {"+", "-", "*", "%"} /\ isnumeral(s.e) THEN s ELSE exp2RK(s)

ArithOp == ("+" :> "ADD") @@ ("-" :> "SUB") @@ ("*" :> "MUL") @@ ("%" :> "MOD")
CompOp == ("==" :> <<"EQ", 1>>) @@ ("~=" :> <<"EQ", 0>>) @@ ("<" :> <<"LT", 1>>) @@ ("<=" :> <<"LE", 1>>)
          @@ (">" :> <<"LT", 0>>) @@ (">=" :> <<"LE", 0>>)

\* a .. (b .. c) becomes one instruction on consecutive registers.
codeconcat(s, e1) ==
  Given(exp2val(s), LAMBDA v :
    IF v.e.k = "VRELOCABLE" /\ v.code[v.e.info + 1][1] = "CONCAT"
    THEN [SetE([freeexp(v, e1) EXCEPT !.e = e1], "VRELOCABLE", v.e.info) EXCEPT
            !.ok = @ /\ e1.info = v.code[v.e.info + 1][B] - 1,
            !.code[v.e.info + 1][B] = e1.info]
    ELSE Given(exp2nextreg(v), LAMBDA n : codearith(n, "CONCAT", e1, n.e)))

posfix(s, op, e1) ==
  CASE op = "and" -> Given(dischargevars(s), LAMBDA d : [concat(d, d.e.f, e1.f) EXCEPT !.e.f = First(@, e1.f), !.ok = @ /\ e1.t = NO_JUMP])
    [] op = "or" -> Given(dischargevars(s), LAMBDA d : [concat(d, d.e.t, e1.t) EXCEPT !.e.t = First(@, e1.t), !.ok = @ /\ e1.f = NO_JUMP])
    [] op = ".." -> codeconcat(s, e1)
    [] op \in DOMAIN ArithOp -> codearith(s, ArithOp[op], e1, s.e)
    [] OTHER -> codecomp(s, CompOp[op][1], CompOp[op][2], e1, s.e)

\* B = 0 stores up to the top of the stack.
setlist(s, base, nelems, tostore) ==
  [code(s, "SETLIST", base, IF tostore = LUA_MULTRET THEN 0 ELSE tostore, (nelems - 1) \div LFIELDS_PER_FLUSH + 1)
   EXCEPT !.freereg = base + 1]
=============================================================================
