--------------------------------- MODULE LuaChunk ---------------------------------
(***************************************************************************)
(* Functions as precompiled chunks: ldump.c writes one, lundump.c reads it *)
(* back, and the code checker of ldebug.c, which reading ends with, goes   *)
(* over its instructions. A chunk is a sequence of what DumpVar and        *)
(* DumpBlock write, each with its kind; the names of upvalues and the      *)
(* lines, which the protos of LuaParser do not have, are left out.         *)
(***************************************************************************)
EXTENDS LuaCode, TLC

-----------------------------------------------------------------------------
(* ldump.c                                                                 *)

Header == <<<<"header", "Lua 5.1">>>>
DumpInt(n) == <<<<"int", n>>>>
DumpChar(c) == <<<<"char", c>>>>
DumpString(s) == <<<<"string", s>>>>
NoString == <<<<"size", 0>>>>
DumpAll(seq, Dump(_)) == DumpInt(Len(seq)) \o FlattenSeq([j \in DOMAIN seq |-> Dump(seq[j])])

DumpConstant(k) == DumpChar(k[1]) \o (IF k[1] = "nil" THEN <<>> ELSE <<k>>)
DumpLocVar(v) == DumpString(v.name) \o DumpInt(v.startpc) \o DumpInt(v.endpc)
DumpDebug(f, strip) == DumpAll(IF strip THEN <<>> ELSE f.locvars, DumpLocVar)

\* All functions of a chunk have one source; a nested one leaves it out.
RECURSIVE DumpFunction(_, _, _)
DumpFunction(f, main, strip) ==
  LET nested(p) == DumpFunction(p, FALSE, strip)
      instruction(i) == <<<<"code", i>>>>
  IN (IF main /\ ~strip THEN DumpString("source") ELSE NoString)
     \o DumpChar(f.nups) \o DumpChar(f.numparams) \o DumpChar(f.is_vararg) \o DumpChar(f.maxstacksize)
     \o DumpAll(f.code, instruction) \o DumpAll(f.k, DumpConstant) \o DumpAll(f.p, nested) \o DumpDebug(f, strip)
luaU_dump(f, strip) == Header \o DumpFunction(f, TRUE, strip)

-----------------------------------------------------------------------------
(* The code checker                                                        *)

Mode(t, a, b, c, m) == [T |-> t, A |-> a, B |-> b, C |-> c, m |-> m]
luaP_opmodes ==
  [op \in {"MOVE", "LOADNIL", "UNM", "NOT", "LEN"} |-> Mode(0, 1, "R", "N", "iABC")]
  @@ [op \in {"LOADK", "GETGLOBAL"} |-> Mode(0, 1, "K", "N", "iABx")]
  @@ [op \in {"LOADBOOL", "NEWTABLE", "CALL", "TAILCALL"} |-> Mode(0, 1, "U", "U", "iABC")]
  @@ [op \in {"GETUPVAL", "VARARG"} |-> Mode(0, 1, "U", "N", "iABC")]
  @@ [op \in {"GETTABLE", "SELF"} |-> Mode(0, 1, "R", "K", "iABC")]
  @@ [op \in {"SETUPVAL", "RETURN"} |-> Mode(0, 0, "U", "N", "iABC")]
  @@ [op \in {"ADD", "SUB", "MUL", "DIV", "MOD", "POW"} |-> Mode(0, 1, "K", "K", "iABC")]
  @@ [op \in {"EQ", "LT", "LE"} |-> Mode(1, 0, "K", "K", "iABC")]
  @@ [op \in {"TEST", "TESTSET"} |-> Mode(1, 1, "R", "U", "iABC")]
  @@ [op \in {"FORLOOP", "FORPREP"} |-> Mode(0, 1, "R", "N", "iAsBx")]
  @@ ("SETGLOBAL" :> Mode(0, 0, "K", "N", "iABx")) @@ ("SETTABLE" :> Mode(0, 0, "K", "K", "iABC"))
  @@ ("CONCAT" :> Mode(0, 1, "R", "R", "iABC")) @@ ("JMP" :> Mode(0, 0, "R", "N", "iAsBx"))
  @@ ("TFORLOOP" :> Mode(1, 0, "N", "U", "iABC")) @@ ("SETLIST" :> Mode(0, 0, "U", "U", "iABC"))
  @@ ("CLOSE" :> Mode(0, 0, "N", "N", "iABC")) @@ ("CLOSURE" :> Mode(0, 1, "U", "N", "iABx"))

Code(pt, pc) == pt.code[pc + 1]
sizecode(pt) == Len(pt.code)
\* Mutant: off by one.
checkregBelow(pt, reg) == reg + 1 < pt.maxstacksize
checkreg(pt, reg) == reg < pt.maxstacksize
MAXSTACK == 250

precheck(pt) ==
  /\ pt.maxstacksize <= MAXSTACK
  /\ pt.numparams + Cardinality({"HASARG"} \cap pt.is_vararg) <= pt.maxstacksize
  /\ "NEEDSARG" \in pt.is_vararg => "HASARG" \in pt.is_vararg
  /\ sizecode(pt) > 0 /\ Code(pt, sizecode(pt) - 1)[1] = "RETURN"

checkopenop(pt, pc) ==
  LET i == Code(pt, pc + 1) IN i[1] \in {"CALL", "TAILCALL", "RETURN", "SETLIST"} /\ i[B] = 0

checkArgMode(pt, r, mode) ==
  CASE mode = "N" -> r = 0
    [] mode = "U" -> TRUE
    [] mode = "R" -> checkreg(pt, r)
    [] mode = "K" -> IF r >= BITRK THEN r - BITRK < Len(pt.k) ELSE r < pt.maxstacksize

\* A jump must not arrive at what looks like an instruction and is the count of a SETLIST.
checkjump(pt, dest) ==
  LET counts(n) == \A j \in 1..n : Code(pt, dest - j)[1] = "SETLIST" /\ Code(pt, dest - j)[C] = 0
  IN /\ dest \in 0..(sizecode(pt) - 1)
     /\ Max({n \in 0..dest : counts(n)}) % 2 = 0

checkargs(pt, pc, i, mode) ==
  CASE mode.m = "iABC" -> checkArgMode(pt, i[B], mode.B) /\ checkArgMode(pt, i[C], mode.C)
    [] mode.m = "iABx" -> mode.B = "K" => i[B] < Len(pt.k)
    [] mode.m = "iAsBx" -> mode.B = "R" => checkjump(pt, pc + 1 + i[B])

checkop(pt, pc, i) ==
  LET op == i[1]
      a == i[A]
      b == i[B]
      c == i[C]
      String(n) == pt.k[n + 1][1] = "string"
  IN CASE op = "LOADBOOL" -> c = 1 =>
              pc + 2 < sizecode(pt) /\ (Code(pt, pc + 1)[1] = "SETLIST" => Code(pt, pc + 1)[C] # 0)
       [] op \in {"GETUPVAL", "SETUPVAL"} -> b < pt.nups
       [] op \in {"GETGLOBAL", "SETGLOBAL"} -> String(b)
       [] op = "SELF" -> checkreg(pt, a + 1)
       [] op = "CONCAT" -> b < c
       [] op = "TFORLOOP" -> c >= 1 /\ checkreg(pt, a + 2 + c)
       [] op \in {"FORLOOP", "FORPREP"} -> checkreg(pt, a + 3)
       [] op \in {"CALL", "TAILCALL"} ->
            /\ b # 0 => checkreg(pt, a + b - 1)
            /\ IF c - 1 = LUA_MULTRET THEN checkopenop(pt, pc) ELSE c - 1 # 0 => checkreg(pt, a + c - 2)
       [] op = "RETURN" -> b - 1 > 0 => checkreg(pt, a + b - 2)
       [] op = "SETLIST" -> (b > 0 => checkreg(pt, a + b)) /\ (c = 0 => pc + 1 < sizecode(pt) - 1)
       [] op = "CLOSURE" ->
            /\ b < Len(pt.p) /\ pc + pt.p[b + 1].nups < sizecode(pt)
            /\ \A j \in 1..pt.p[b + 1].nups : Code(pt, pc + j)[1] \in {"GETUPVAL", "MOVE"}
       [] op = "VARARG" ->
            /\ "ISVARARG" \in pt.is_vararg /\ "NEEDSARG" \notin pt.is_vararg
            /\ b - 1 = LUA_MULTRET => checkopenop(pt, pc)
            /\ checkreg(pt, a + b - 2)
       [] OTHER -> TRUE

\* Does the instruction change reg?
Changes(i, reg) ==
  \/ luaP_opmodes[i[1]].A = 1 /\ i[A] = reg
  \/ i[1] = "LOADNIL" /\ i[A] <= reg /\ reg <= i[B]
  \/ i[1] = "SELF" /\ reg = i[A] + 1
  \/ i[1] = "TFORLOOP" /\ reg >= i[A] + 2
  \/ i[1] \in {"CALL", "TAILCALL"} /\ reg >= i[A]

\* The place of the last instruction before lastpc that changed reg, or -1 if the code is bad.
RECURSIVE symbexec_from(_, _, _, _, _)
symbexec_from(pt, pc, lastpc, reg, last) ==
  LET i == Code(pt, pc)
      mode == luaP_opmodes[i[1]]
      dest == pc + 1 + i[B]
      good == /\ i[1] \in DOMAIN luaP_opmodes /\ checkreg(pt, i[A])
              /\ checkargs(pt, pc, i, mode)
              /\ mode.T = 1 => pc + 2 < sizecode(pt) /\ Code(pt, pc + 1)[1] = "JMP"
              /\ checkop(pt, pc, i)
      jumps == i[1] \in {"FORLOOP", "FORPREP", "JMP"} /\ reg # NO_REG /\ pc < dest /\ dest <= lastpc
      next == IF jumps THEN dest
              ELSE IF i[1] = "SETLIST" /\ i[C] = 0 THEN pc + 2
              ELSE IF i[1] = "CLOSURE" /\ reg # NO_REG THEN pc + 1 + pt.p[i[B] + 1].nups ELSE pc + 1
  IN IF pc >= lastpc THEN last
     ELSE IF ~good THEN -1
     ELSE symbexec_from(pt, next, lastpc, reg, IF Changes(i, reg) THEN pc ELSE last)

symbexec(pt, lastpc, reg) ==
  IF ~precheck(pt) THEN -1 ELSE symbexec_from(pt, 0, lastpc, reg, sizecode(pt) - 1)
luaG_checkcode(pt) == symbexec(pt, sizecode(pt), NO_REG) # -1

-----------------------------------------------------------------------------
(* lundump.c. z has what is left of the chunk and what the function being  *)
(* loaded got from it; ok says that nothing was missing or wrong.          *)

Refused(z) == [z EXCEPT !.ok = FALSE]
LoadVar(z, kinds) ==
  IF z.rest = <<>> \/ Head(z.rest)[1] \notin kinds THEN Refused(z)
  ELSE [z EXCEPT !.rest = Tail(@), !.got = Append(@, Head(z.rest))]
LoadConstant(z) ==
  Given(LoadVar(z, {"char"}), LAMBDA t :
    IF ~t.ok THEN t
    ELSE IF Last(t.got)[2] = "nil" THEN [t EXCEPT !.got = Append(Front(@), <<"nil">>)]
    ELSE LoadVar([t EXCEPT !.got = Front(@)], {Last(t.got)[2]}))

LocVar(got) == [name |-> got[1][2], startpc |-> got[2][2], endpc |-> got[3][2]]
Instructions(got) == [j \in DOMAIN got |-> got[j][2]]
Function(got) ==
  [code |-> Instructions(got[6]), k |-> got[7], p |-> got[8], nups |-> got[2][2], locvars |-> got[9],
   numparams |-> got[3][2], is_vararg |-> got[4][2], maxstacksize |-> got[5][2], ok |-> TRUE]

\* One of the parts of a chunk; Assembled gathers several into one, Vector is as many as the chunk says.
RECURSIVE LoadPart(_, _)
LoadPart(z, part) ==
  LET Assembled(parts, Value(_)) ==
        Given(FoldLeft(LoadPart, [z EXCEPT !.got = <<>>], parts), LAMBDA y :
          IF y.ok THEN [y EXCEPT !.got = Append(z.got, Value(y.got))] ELSE y)
      Vector(what) ==
        Given(LoadVar(z, {"int"}), LAMBDA n :
          IF ~n.ok THEN n
          ELSE Given(FoldLeft(LoadPart, [n EXCEPT !.got = <<>>], [j \in 1..Last(n.got)[2] |-> what]), LAMBDA y :
                 [y EXCEPT !.got = Append(z.got, @)]))
  IN CASE ~z.ok -> z
       [] part \in {"char", "int", "string", "code", "header"} -> LoadVar(z, {part})
       [] part = "source" -> LoadVar(z, {"string", "size"})
       [] part = "constant" -> LoadConstant(z)
       [] part = "locvar" -> Assembled(<<"string", "int", "int">>, LocVar)
       [] part = "codes" -> Vector("code")
       [] part = "constants" -> Vector("constant")
       [] part = "functions" -> Vector("function")
       [] part = "locvars" -> Vector("locvar")
       [] part = "function" ->
            Given(Assembled(<<"source", "char", "char", "char", "char", "codes", "constants", "functions", "locvars">>, Function),
                  LAMBDA y : IF y.ok /\ ~luaG_checkcode(Last(y.got)) THEN Refused(y) ELSE y)

\* What a chunk loads as; [bad |-> TRUE] for the error that it is bad.
luaU_undump(chunk) ==
  Given(FoldLeft(LoadPart, [rest |-> chunk, got |-> <<>>, ok |-> TRUE], <<"header", "function">>), LAMBDA z :
    IF z.ok THEN Last(z.got) ELSE [bad |-> TRUE])

-----------------------------------------------------------------------------
RECURSIVE Stripped(_)
Stripped(f) == [f EXCEPT !.locvars = <<>>, !.p = [j \in DOMAIN @ |-> Stripped(@[j])]]

\* A function comes back from its chunk, without its debug information if that was left out, and a chunk cut short is refused.
ReturnsFromChunk(f) ==
  Given(luaU_dump(f, FALSE), LAMBDA chunk :
    /\ luaU_undump(chunk) = f
    /\ luaU_undump(luaU_dump(f, TRUE)) = Stripped(f)
    /\ luaU_undump(Front(chunk)) = [bad |-> TRUE])
=============================================================================
