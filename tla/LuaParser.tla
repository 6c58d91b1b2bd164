-------------------------------- MODULE LuaParser --------------------------------
(***************************************************************************)
(* The Lua compiler, src/src/lparser.c: one pass over the tokens that      *)
(* resolves names to registers, upvalues and globals, keeps blocks and     *)
(* breaks, and drives LuaCode.  Tokens (from llex.c) are <<"name", n>>,    *)
(* <<"number", i>>, <<"string", s>> or <<keyword>>; s.toks are those still *)
(* to be read.  Programs are well-formed: syntax errors are left out, and  *)
(* so are the sizes that a constructor announces for its table.            *)
(***************************************************************************)
EXTENDS LuaCode

Tok(s) == s.toks[1][1]
Skip(s) == [s EXCEPT !.toks = Tail(@)]
SkipIf(s, t) == IF Tok(s) = t THEN Skip(s) ELSE s
block_follow(t) == t \in {"else", "elseif", "end", "until", "eos"}

codestring(s, str) ==
  Given(addk(s, <<"string", str>>), LAMBDA n : [n EXCEPT !.e = init_exp("VK", KIndex(n, <<"string", str>>))])

checkname(s) == codestring(Skip(s), s.toks[1][2])

-----------------------------------------------------------------------------
(* Variables *)

new_localvar(s, name, n) ==
  [s EXCEPT !.locvars = Append(@, [name |-> name, startpc |-> 0, endpc |-> 0]),
            !.actvar = Append(SubSeq(@, 1, s.nactvar + n), Len(s.locvars) + 1)]

adjustlocalvars(s, nvars) ==
  LET started == {s.actvar[i] : i \in s.nactvar + 1 .. s.nactvar + nvars}
  IN [s EXCEPT !.nactvar = @ + nvars,
               !.locvars = [i \in started |-> [@[i] EXCEPT !.startpc = HereIs(s)]] @@ @]

removevars(s, tolevel) ==
  LET ended == {s.actvar[i] : i \in tolevel + 1 .. s.nactvar}
  IN [s EXCEPT !.nactvar = tolevel,
               !.locvars = [i \in ended |-> [@[i] EXCEPT !.endpc = HereIs(s)]] @@ @]

searchvar(s, n) == Max({-1} \cup {i \in 0..s.nactvar - 1 : s.locvars[s.actvar[i + 1]].name = n})

\* Two locals of enclosing functions are told apart by kind and index.
indexupvalue(s, v) ==
  LET up == <<v.k, v.info>>
      u == IF up \in ToSet(s.upvalues) THEN s ELSE [s EXCEPT !.upvalues = Append(@, up)]
  IN [u EXCEPT !.e = init_exp("VUPVAL", (CHOOSE i \in DOMAIN u.upvalues : u.upvalues[i] = up) - 1)]

markupval(s, level) ==
  LET declaring == {i \in DOMAIN s.bl : s.bl[i].nactvar <= level}
  IN IF declaring = {} THEN s ELSE [s EXCEPT !.bl[Max(declaring)].upval = TRUE]

RECURSIVE singlevaraux(_, _, _)
singlevaraux(s, n, base) ==
  LET v == searchvar(s, n)
  IN CASE v >= 0 -> [(IF base THEN s ELSE markupval(s, v)) EXCEPT !.e = init_exp("VLOCAL", v)]
       [] v < 0 /\ s.level = 0 -> [s EXCEPT !.e = init_exp("VGLOBAL", NO_REG)]
       [] OTHER -> Given(singlevaraux(s.prev, n, FALSE), LAMBDA outer :
                     IF outer.e.k = "VGLOBAL" THEN [s EXCEPT !.e = outer.e]
                     ELSE indexupvalue([s EXCEPT !.prev = outer], outer.e))

singlevar(s) ==
  LET name == s.toks[1][2]
  IN Given(singlevaraux(Skip(s), name, TRUE), LAMBDA v :
       IF v.e.k = "VGLOBAL" THEN Given(codestring(v, name), LAMBDA g : SetE(g, "VGLOBAL", g.e.info)) ELSE v)

adjust_assign(s, nvars, nexps) ==
  LET extra == nvars - nexps
      wanted == Max({extra + 1, 0})
  IN IF hasmultret(s.e) THEN reserveregs(setreturns(s, wanted), Max({wanted - 1, 0}))
     ELSE Given(IF s.e.k = "VVOID" THEN s ELSE exp2nextreg(s), LAMBDA c :
            IF extra > 0 THEN loadnil(reserveregs(c, extra), c.freereg, extra) ELSE c)

-----------------------------------------------------------------------------
(* Blocks and functions *)

enterblock(s, isbreakable) ==
  [s EXCEPT !.bl = Append(@, [breaklist |-> NO_JUMP, isbreakable |-> isbreakable, nactvar |-> s.nactvar, upval |-> FALSE]),
            !.ok = @ /\ s.freereg = s.nactvar]

leaveblock(s) ==
  LET bl == Last(s.bl)
      r == removevars([s EXCEPT !.bl = Front(@)], bl.nactvar)
      c == IF bl.upval THEN code(r, "CLOSE", bl.nactvar, 0, 0) ELSE r
  IN patchtohere([c EXCEPT !.freereg = bl.nactvar, !.ok = @ /\ ~(bl.isbreakable /\ bl.upval)], bl.breaklist)

open_func(s) ==
  [toks |-> s.toks, prev |-> s, level |-> s.level + 1, ok |-> TRUE, e |-> init_exp("VVOID", 0),
   code |-> <<>>, k |-> <<>>, p |-> <<>>, upvalues |-> <<>>, lasttarget |-> -1, jpc |-> NO_JUMP,
   freereg |-> 0, maxstacksize |-> 2, nactvar |-> 0, actvar |-> <<>>, locvars |-> <<>>, bl |-> <<>>,
   numparams |-> 0, is_vararg |-> {}, n |-> 0, lhs |-> <<>>, cc |-> <<>>]

ret(s, first, nret) == code(s, "RETURN", first, nret + 1, 0)

close_func(s) == ret(removevars(s, 0), 0, 0)

Proto(s) ==
  [code |-> s.code, k |-> s.k, p |-> s.p, nups |-> Len(s.upvalues), locvars |-> s.locvars, numparams |-> s.numparams,
   is_vararg |-> s.is_vararg, maxstacksize |-> s.maxstacksize, ok |-> s.ok /\ s.bl = <<>>]

\* After CLOSURE, one pseudo-instruction per upvalue says where it is found.
pushclosure(s, func) ==
  LET c == code([s EXCEPT !.p = Append(@, Proto(func))], "CLOSURE", 0, Len(s.p), 0)
      capture(x, u) == code(x, IF u[1] = "VLOCAL" THEN "MOVE" ELSE "GETUPVAL", 0, u[2], 0)
  IN FoldLeft(capture, [c EXCEPT !.e = init_exp("VRELOCABLE", HereIs(s))], func.upvalues)

RECURSIVE params(_, _)
params(s, n) ==
  CASE Tok(s) = "name" -> params(SkipIf(Skip(new_localvar(s, s.toks[1][2], n)), ","), n + 1)
    [] Tok(s) = "..." -> [Skip(new_localvar(s, "arg", n)) EXCEPT !.n = n + 1, !.is_vararg = {"HASARG", "NEEDSARG", "ISVARARG"}]
    [] OTHER -> [s EXCEPT !.n = n]

parlist(s) ==
  Given(params(s, 0), LAMBDA p :
    Given(adjustlocalvars(p, p.n), LAMBDA a :
      reserveregs([a EXCEPT !.numparams = a.nactvar - Cardinality({"HASARG"} \cap a.is_vararg)], a.nactvar)))

\* One operator is recursive for the two nonterminals that contain each other.
RECURSIVE parse(_, _, _)
subexpr(s, limit) == parse("subexpr", s, limit)
expr(s) == subexpr(s, 0)
chunk(s) == parse("chunk", s, 0)

body(s, needself) ==
  LET f == open_func(Skip(s))
      withself == IF needself THEN adjustlocalvars(new_localvar(f, "self", 0), 1) ELSE f
  IN Given(close_func(Skip(chunk(Skip(parlist(withself))))), LAMBDA func :
       pushclosure([func.prev EXCEPT !.toks = func.toks], func))

-----------------------------------------------------------------------------
(* Table constructors *)

VOID == init_exp("VVOID", 0)

yindex(s) == Skip(exp2val(expr(Skip(s))))

field(s) == Given(exp2anyreg(s), LAMBDA v : indexed(checkname(Skip(v)), v.e))

recfield(s) ==
  Given(exp2RK(Skip(IF Tok(s) = "name" THEN checkname(s) ELSE yindex(s))), LAMBDA key :
    Given(exp2RK(expr(key)), LAMBDA val :
      [code(val, "SETTABLE", s.cc.t, RK(key.e), RK(val.e)) EXCEPT !.freereg = s.freereg]))

closelistfield(s) ==
  IF s.cc.v.k = "VVOID" THEN s
  ELSE Given([exp2nextreg([s EXCEPT !.e = s.cc.v]) EXCEPT !.cc.v = VOID], LAMBDA v :
         IF s.cc.tostore = LFIELDS_PER_FLUSH
         THEN [setlist(v, s.cc.t, s.cc.na, s.cc.tostore) EXCEPT !.cc.tostore = 0]
         ELSE v)

lastlistfield(s) ==
  LET v == [s EXCEPT !.e = s.cc.v]
  IN CASE s.cc.tostore = 0 -> s
       [] s.cc.tostore # 0 /\ hasmultret(v.e) -> setlist(setreturns(v, LUA_MULTRET), s.cc.t, s.cc.na, LUA_MULTRET)
       [] OTHER -> setlist(IF v.e.k = "VVOID" THEN v ELSE exp2nextreg(v), s.cc.t, s.cc.na, s.cc.tostore)

listfield(s) == Given(expr(s), LAMBDA v : [v EXCEPT !.cc.v = v.e, !.cc.na = @ + 1, !.cc.tostore = @ + 1])

RECURSIVE fields(_)
startsrec(s) == Tok(s) = "[" \/ (Tok(s) = "name" /\ s.toks[2][1] = "=")
fields(s) ==
  IF Tok(s) = "}" THEN s
  ELSE Given(closelistfield(s), LAMBDA c :
         Given(IF startsrec(c) THEN recfield(c) ELSE listfield(c), LAMBDA f :
           IF Tok(f) = "," THEN fields(Skip(f)) ELSE f))

constructor(s) ==
  LET n == [code(s, "NEWTABLE", 0, 0, 0) EXCEPT !.e = init_exp("VRELOCABLE", HereIs(s))]
  IN Given(exp2nextreg(n), LAMBDA t :
       LET cc == [v |-> VOID, t |-> t.e.info, na |-> 0, tostore |-> 0]
       IN [lastlistfield(Skip(fields([Skip(t) EXCEPT !.cc = cc]))) EXCEPT !.e = t.e, !.cc = s.cc])

-----------------------------------------------------------------------------
(* Expressions *)

\* The number of expressions is left in n, the last of them in hand.
RECURSIVE explist(_, _)
explist(s, n) ==
  Given(expr(s), LAMBDA x : IF Tok(x) = "," THEN explist(Skip(exp2nextreg(x)), n + 1) ELSE [x EXCEPT !.n = n])

explist1(s) == explist(s, 1)

arguments(s) ==
  CASE Tok(s) = "{" -> constructor(s)
    [] Tok(s) = "string" -> codestring(Skip(s), s.toks[1][2])
    [] Tok(s) = "(" /\ s.toks[2][1] = ")" -> [Skip(Skip(s)) EXCEPT !.e = VOID]
    [] OTHER -> Skip(setreturns(explist1(Skip(s)), LUA_MULTRET))
funcargs(s) ==
  LET base == s.e.info
  IN Given(arguments(s), LAMBDA args :
       Given(IF hasmultret(args.e) \/ args.e.k = "VVOID" THEN args ELSE exp2nextreg(args), LAMBDA c :
         LET nparams == IF hasmultret(args.e) THEN LUA_MULTRET ELSE c.freereg - (base + 1)
         IN [code(c, "CALL", base, nparams + 1, 2) EXCEPT !.e = init_exp("VCALL", HereIs(c)), !.freereg = base + 1]))

prefixexp(s) == IF Tok(s) = "(" THEN dischargevars(Skip(expr(Skip(s)))) ELSE singlevar(s)

RECURSIVE suffixes(_)
suffix(s) ==
  IF Tok(s) \in {".", "["} THEN Given(exp2anyreg(s), LAMBDA v : indexed(IF Tok(s) = "." THEN checkname(Skip(v)) ELSE yindex(v), v.e))
  ELSE funcargs(IF Tok(s) = ":" THEN Given(checkname(Skip(s)), LAMBDA key : self([key EXCEPT !.e = s.e], key.e)) ELSE exp2nextreg(s))

suffixes(s) == IF Tok(s) \in {".", "[", ":", "(", "string", "{"} THEN suffixes(suffix(s)) ELSE s

primaryexp(s) == suffixes(prefixexp(s))

simpleexp(s) ==
  LET t == Tok(s)
      next == Skip(s)
  IN CASE t = "number" -> [next EXCEPT !.e = init_exp("VKNUM", s.toks[1][2])]
       [] t = "string" -> codestring(next, s.toks[1][2])
       [] t = "nil" -> [next EXCEPT !.e = init_exp("VNIL", 0)]
       [] t = "true" -> [next EXCEPT !.e = init_exp("VTRUE", 0)]
       [] t = "false" -> [next EXCEPT !.e = init_exp("VFALSE", 0)]
       [] t = "..." -> [code(next, "VARARG", 0, 1, 0) EXCEPT !.is_vararg = @ \ {"NEEDSARG"},
                                                             !.e = init_exp("VVARARG", HereIs(s))]
       [] t = "{" -> constructor(s)
       [] t = "function" -> body(next, FALSE)
       [] OTHER -> primaryexp(s)

\* Priorities to the left and to the right; the larger left one binds to the right.
priority ==
  [op \in {"+", "-"} |-> <<6, 6>>] @@ [op \in {"*", "%"} |-> <<7, 7>>] @@ (".." :> <<5, 4>>)
  @@ [op \in DOMAIN CompOp |-> <<3, 3>>] @@ ("and" :> <<2, 2>>) @@ ("or" :> <<1, 1>>)
UNARY_PRIORITY == 8

RECURSIVE binops(_, _)
binops(s, limit) ==
  LET op == Tok(s)
  IN IF op \notin DOMAIN priority THEN s
     ELSE IF priority[op][1] <= limit THEN s
     ELSE Given(infix(Skip(s), op), LAMBDA left : binops(posfix(subexpr(left, priority[op][2]), op, left.e), limit))

operand(s) == IF Tok(s) \in {"not", "-", "#"} THEN prefix(subexpr(Skip(s), UNARY_PRIORITY), Tok(s)) ELSE simpleexp(s)

-----------------------------------------------------------------------------
(* Statements *)

block(s) == leaveblock(chunk(enterblock(s, FALSE)))

\* A local that is assigned to is copied if an earlier target needs it.
check_conflict(s) ==
  LET reg == s.e.info
      conflict(v) == v.k = "VINDEXED" /\ reg \in {v.info, v.aux}
      safe(v) == IF v.k # "VINDEXED" THEN v
                 ELSE [v EXCEPT !.info = IF @ = reg THEN s.freereg ELSE @, !.aux = IF @ = reg THEN s.freereg ELSE @]
  IN IF \E v \in ToSet(s.lhs) : conflict(v)
     THEN reserveregs([code(s, "MOVE", s.freereg, reg, 0) EXCEPT !.lhs = [i \in DOMAIN @ |-> safe(@[i])]], 1)
     ELSE s

RECURSIVE assignment(_, _)
\* The last value of the list goes to the last variable of those that are left.
storelast(s, nvars) == storevar([s EXCEPT !.e = init_exp("VNONRELOC", s.freereg - 1)], s.lhs[nvars])
drop(s, n) == [s EXCEPT !.freereg = @ - Max({0, n})]
assignment(s, nvars) ==
  IF Tok(s) = ","
  THEN Given(primaryexp(Skip(s)), LAMBDA nv :
         Given(IF nv.e.k = "VLOCAL" THEN check_conflict(nv) ELSE nv, LAMBDA c :
           storelast(assignment([c EXCEPT !.lhs = Append(@, nv.e)], nvars + 1), nvars)))
  ELSE Given(explist1(Skip(s)), LAMBDA x :
         IF x.n = nvars THEN storevar(setoneret(x), x.lhs[nvars])
         ELSE storelast(drop(adjust_assign(x, nvars, x.n), x.n - nvars), nvars))

\* The exit of the condition is its list f.
cond(s) == Given(expr(s), LAMBDA v : goiftrue(IF v.e.k = "VNIL" THEN SetE(v, "VFALSE", 0) ELSE v))

breakstatKeepsOpen(s) ==
  LET b == Max({i \in DOMAIN s.bl : s.bl[i].isbreakable})
  IN Given(jump(s), LAMBDA j :
       [concat(j, s.bl[b].breaklist, LastPc(j)) EXCEPT !.bl[b].breaklist = First(@, LastPc(j))])

breakstat(s) ==
  LET b == Max({i \in DOMAIN s.bl : s.bl[i].isbreakable})
      upval == \E i \in b + 1 .. Len(s.bl) : s.bl[i].upval
  IN Given(jump(IF upval THEN code(s, "CLOSE", s.bl[b].nactvar, 0, 0) ELSE s), LAMBDA j :
       [concat(j, s.bl[b].breaklist, LastPc(j)) EXCEPT !.bl[b].breaklist = First(@, LastPc(j))])

jumpback(s, target) == Given(jump(s), LAMBDA j : patchlist(j, LastPc(j), target))
whilestat(s) ==
  Given(cond(getlabel(Skip(s))), LAMBDA c :
    patchtohere(leaveblock(Skip(jumpback(block(Skip(enterblock(c, TRUE))), HereIs(s)))), c.e.f))

\* With upvalues the scope is closed on both ways out of the condition.
repeatstat(s) ==
  Given(cond(Skip(chunk(enterblock(enterblock(Skip(getlabel(s)), TRUE), FALSE)))), LAMBDA c :
    leaveblock(IF Last(c.bl).upval THEN jumpback(leaveblock(patchtohere(breakstat(c), c.e.f)), HereIs(s))
               ELSE patchlist(leaveblock(c), c.e.f, HereIs(s))))

forbody(s, base, nvars, isnum) ==
  LET a == Skip(adjustlocalvars(s, 3))
  IN Given(IF isnum THEN code(a, "FORPREP", base, NO_JUMP, 0) ELSE jump(a), LAMBDA p :
       LET scope == reserveregs(adjustlocalvars(enterblock(p, FALSE), nvars), nvars)
       IN Given(patchtohere(leaveblock(block(scope)), LastPc(p)), LAMBDA l :
            Given(IF isnum THEN code(l, "FORLOOP", base, NO_JUMP, 0) ELSE jump(code(l, "TFORLOOP", base, 0, nvars)),
                 LAMBDA endfor : patchlist(endfor, LastPc(endfor), LastPc(p) + 1))))

exp1(s) == exp2nextreg(expr(s))

FoldNames(s, names, n) == FoldLeftDomain(LAMBDA x, i : new_localvar(x, names[i], n + i - 1), s, names)

one == <<"number", 1>>
loadone(s) == Given(addk(s, one), LAMBDA n : reserveregs(code(n, "LOADK", n.freereg, KIndex(n, one), 0), 1))
fornum(s, varname) ==
  LET v == FoldNames(s, <<"(for index)", "(for limit)", "(for step)", varname>>, 0)
  IN Given(exp1(Skip(exp1(Skip(v)))), LAMBDA limit :
       forbody(IF Tok(limit) = "," THEN exp1(Skip(limit)) ELSE loadone(limit), s.freereg, 1, TRUE))

RECURSIVE names(_, _)
names(s, n) == IF Tok(s) = "," THEN names(new_localvar(Skip(Skip(s)), s.toks[2][2], n), n + 1) ELSE [s EXCEPT !.n = n]

forlist(s, indexname) ==
  Given(names(FoldNames(s, <<"(for generator)", "(for state)", "(for control)", indexname>>, 0), 4), LAMBDA v :
    Given(explist1(Skip(v)), LAMBDA x :
      forbody(checkstack(adjust_assign(x, 3, x.n), 3), s.freereg, v.n - 3, FALSE)))

forstat(s) ==
  LET f == Skip(enterblock(s, TRUE))
      name == f.toks[1][2]
  IN leaveblock(Skip(IF f.toks[2][1] = "=" THEN fornum(Skip(f), name) ELSE forlist(Skip(f), name)))

test_then_block(s) == Given(cond(Skip(s)), LAMBDA c : [block(Skip(c)) EXCEPT !.e = c.e])

\* escapelist: the jumps over the remaining branches.
RECURSIVE branches(_, _)
branches(s, escapelist) ==
  Given(test_then_block(s), LAMBDA t :
    IF Tok(t) \notin {"elseif", "else"} THEN patchtohere(concat(t, escapelist, t.e.f), First(escapelist, t.e.f))
    ELSE LET escape == First(escapelist, HereIs(t))
         IN Given(patchtohere(concat(jump(t), escapelist, HereIs(t)), t.e.f), LAMBDA next :
              IF Tok(t) = "elseif" THEN branches(next, escape) ELSE patchtohere(block(Skip(next)), escape)))

ifstat(s) == Skip(branches(s, NO_JUMP))

localfunc(s) ==
  LET v == adjustlocalvars(reserveregs(new_localvar(Skip(s), s.toks[1][2], 0), 1), 1)
  IN Given(storevar(body(v, FALSE), init_exp("VLOCAL", s.freereg)), LAMBDA f :
       [f EXCEPT !.locvars[f.actvar[f.nactvar]].startpc = HereIs(f)])

localstat(s) ==
  Given(names(new_localvar(Skip(s), s.toks[1][2], 0), 1), LAMBDA v :
    Given(IF Tok(v) = "=" THEN explist1(Skip(v)) ELSE [v EXCEPT !.n = 0, !.e = VOID], LAMBDA x :
      adjustlocalvars(adjust_assign(x, v.n, x.n), v.n)))

RECURSIVE fieldnames(_)
fieldnames(s) == IF Tok(s) = "." THEN fieldnames(field(s)) ELSE s

funcstat(s) ==
  Given(fieldnames(singlevar(Skip(s))), LAMBDA v :
    Given(IF Tok(v) = ":" THEN field(v) ELSE v, LAMBDA name : storevar(body(name, Tok(v) = ":"), name.e)))

exprstat(s) ==
  Given(primaryexp(s), LAMBDA v :
    IF v.e.k = "VCALL" THEN [v EXCEPT !.code[v.e.info + 1][C] = 1] ELSE assignment([v EXCEPT !.lhs = <<v.e>>], 1))

tailcalled(s, x) == IF x.e.k = "VCALL" /\ x.n = 1 THEN [s EXCEPT !.code[x.e.info + 1][1] = "TAILCALL"] ELSE s
retlist(x) ==
  CASE hasmultret(x.e) -> ret(tailcalled(setreturns(x, LUA_MULTRET), x), x.nactvar, LUA_MULTRET)
    [] x.n = 1 /\ ~hasmultret(x.e) -> Given(exp2anyreg(x), LAMBDA v : ret(v, v.e.info, 1))
    [] OTHER -> Given(exp2nextreg(x), LAMBDA v : ret([v EXCEPT !.ok = @ /\ x.n = v.freereg - v.nactvar], v.nactvar, x.n))
retstat(s) ==
  IF block_follow(s.toks[2][1]) \/ s.toks[2][1] = ";" THEN ret(Skip(s), 0, 0) ELSE retlist(explist1(Skip(s)))

dostat(s) == Skip(block(Skip(s)))

statement(s) ==
  LET t == Tok(s)
  IN CASE t = "if" -> ifstat(s)
       [] t = "while" -> whilestat(s)
       [] t = "do" -> dostat(s)
       [] t = "for" -> forstat(s)
       [] t = "repeat" -> repeatstat(s)
       [] t = "function" -> funcstat(s)
       [] t = "local" -> IF s.toks[2][1] = "function" THEN localfunc(Skip(Skip(s))) ELSE localstat(Skip(s))
       [] t = "return" -> retstat(s)
       [] t = "break" -> breakstat(Skip(s))
       [] OTHER -> exprstat(s)

nextstatement(st) ==
  [SkipIf(st, ";") EXCEPT !.freereg = st.nactvar, !.ok = @ /\ st.maxstacksize >= st.freereg /\ st.freereg >= st.nactvar]
statements(s) ==
  IF block_follow(Tok(s)) THEN s
  ELSE Given(nextstatement(statement(s)), LAMBDA n : IF Tok(s) \in {"return", "break"} THEN n ELSE chunk(n))

parse(nonterminal, s, limit) == IF nonterminal = "chunk" THEN statements(s) ELSE binops(operand(s), limit)

luaY_parser(toks) ==
  LET main == open_func([toks |-> Append(toks, <<"eos">>), level |-> -1])
  IN Proto(close_func(chunk([main EXCEPT !.is_vararg = {"ISVARARG"}])))
=============================================================================
