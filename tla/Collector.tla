------------------------------ MODULE Collector ------------------------------
(***************************************************************************)
(* Lua's incremental collector (lgc.c) and the program it runs beside: the *)
(* colors of objects, the write barriers, weak tables, userdata with       *)
(* finalizers, upvalues of threads that may be dead, interned strings. A   *)
(* step of the collector may come between any two operations of the        *)
(* program, as the sizes that decide when it comes are left out. So is the *)
(* order of the collector's lists: they are sets, of which any member may  *)
(* be the next.                                                            *)
(***************************************************************************)
EXTENDS Integers, FiniteSets

CONSTANTS
    Object,     \* what may be allocated, and
    Kind,       \* "table", "userdata", "closure", "upval", "thread" or "string"
    Mode,       \* of a table: the weak parts of it, {}, {"k"}, {"v"} or both
    Main,       \* the main thread and
    Globals,    \* the table of globals, which are always there
    StackSize,  \* of a thread, at most
    Worlds,     \* the programs: what one uses, and the sizes of its threads' stacks
    Nil

Of(kind) == {o \in Object : Kind[o] = kind}
Slot == 1 .. StackSize

ASSUME CollectorAssumption ==
    /\ IsFiniteSet(Object) /\ Nil \notin Object
    /\ Kind \in [Object -> {"table", "userdata", "closure", "upval", "thread", "string"}]
    /\ Mode \in [Of("table") -> SUBSET {"k", "v"}]
    /\ Main \in Of("thread") /\ Globals \in Of("table")
    /\ StackSize \in Nat
    /\ Worlds \subseteq [uses : SUBSET Object, size : [Of("thread") -> 0 .. StackSize]]

VARIABLES
    mark,           \* of an object: "free", one of the whites, "gray" or "black"
    key, val,       \* the entry of a table; val: also a metatable, a closure's
                    \* upvalue, an upvalue's value once it is closed
    owner, slot,    \* the place of an open upvalue on the stack of a thread
    fin, called,    \* of a userdata: was it separated, and its finalizer called
    stack,          \* what each thread has on its stack
    running,        \* the thread that runs
    world,          \* the program: one of Worlds
    currentwhite, gcstate,
    atomically,     \* how far atomic() has come, during which nothing else runs
    full,           \* how far luaC_fullgc() has come
    gray, grayagain, weak, sweepgc, tmudata

barriers == <<mark, gray, grayagain>>
heap == <<key, val, owner, slot, stack>>
udata == <<fin, called>>
cycle == <<currentwhite, gcstate, atomically, full, weak, sweepgc, tmudata>>
vars == <<barriers, heap, udata, cycle, running, world>>

Whites == {"w0", "w1"}
otherwhite == IF currentwhite = "w0" THEN "w1" ELSE "w0"

Alive(o) == mark[o] # "free"
IsWhite(v) == v # Nil /\ mark[v] \in Whites
IsBlack(o) == mark[o] = "black"
IsDead(o) == mark[o] = otherwhite

IsOpen(u) == owner[u] # Nil
OpenUpvals(th) == {u \in Of("upval") : owner[u] = th}
ValueOf(u) == IF IsOpen(u) THEN stack[owner[u]][slot[u]] ELSE val[u]

OnStack(th) == {stack[th][i] : i \in Slot}
IsWeak(o) == Kind[o] = "table" /\ Mode[o] # {}

-----------------------------------------------------------------------------
(* Marking, from the marks m. Upvalues and userdata are marked with what   *)
(* they refer to, one below the other; the rest waits in the gray list.    *)

WhiteIn(m, values) == {v \in values : v # Nil /\ m[v] \in Whites}

Held(m, values) ==
    WhiteIn(m, values) \cup
    WhiteIn(m, {ValueOf(u) : u \in WhiteIn(m, values) \cap Of("upval")})

Reached(m, values) ==
    Held(m, values) \cup WhiteIn(m, {val[u] : u \in Held(m, values) \cap Of("userdata")})

markedcolor(o) ==
    IF Kind[o] = "userdata" \/ (Kind[o] = "upval" /\ ~IsOpen(o)) THEN "black" ELSE "gray"

reallymarkobject(m, values, list) ==
    /\ mark' = [o \in Object |-> IF o \in Reached(m, values) THEN markedcolor(o) ELSE m[o]]
    /\ gray' = list \cup {o \in Reached(m, values) : Kind[o] \in {"table", "closure", "thread"}}

Strong(h) ==
    (IF "k" \in Mode[h] THEN {} ELSE {key[h]}) \cup (IF "v" \in Mode[h] THEN {} ELSE {val[h]})

Traversed(o) ==
    CASE Kind[o] = "table" -> IF val[o] = Nil THEN {} ELSE Strong(o)
      [] Kind[o] = "closure" -> {val[o]}
      [] Kind[o] = "thread" -> {Globals} \cup OnStack(o)

\* An empty entry of a table is removed; weak tables and threads stay gray.
propagatemark(o) ==
    /\ reallymarkobject(
          [mark EXCEPT ![o] = IF IsWeak(o) \/ Kind[o] = "thread" THEN "gray" ELSE "black"],
          Traversed(o), gray \ {o})
    /\ key' = IF Kind[o] = "table" /\ val[o] = Nil THEN [key EXCEPT ![o] = Nil] ELSE key
    /\ weak' = IF IsWeak(o) THEN weak \cup {o} ELSE weak
    /\ grayagain' = IF Kind[o] = "thread" THEN grayagain \cup {o} ELSE grayagain

markroot ==
    /\ reallymarkobject(mark, {Main, Globals}, {})
    /\ grayagain' = {} /\ weak' = {} /\ gcstate' = "propagate"

-----------------------------------------------------------------------------
(* The atomic end of the marking: what atomic() does between one           *)
(* propagateall() and the next. The program does not run in between.       *)

Remark(from, to) == gcstate = "propagate" /\ gray = {} /\ atomically = from /\ atomically' = to

RemarkUpvals ==
    /\ Remark("no", "upvals")
    /\ reallymarkobject(mark, {ValueOf(u) : u \in {v \in Of("upval") : mark[v] = "gray" /\ IsOpen(v)}}, {})
    /\ UNCHANGED <<grayagain, weak, tmudata, udata>>

RemarkWeak ==
    /\ Remark("upvals", "weak")
    /\ reallymarkobject(mark, {running}, weak)
    /\ weak' = {} /\ UNCHANGED <<grayagain, tmudata, udata>>

RemarkGrayAgain ==
    /\ Remark("weak", "again")
    /\ gray' = grayagain /\ grayagain' = {}
    /\ UNCHANGED <<mark, weak, tmudata, udata>>

\* The userdata that are found dead, each once.
separated == {u \in Of("userdata") : IsWhite(u) /\ fin[u] = "no"}

\* Those with a metatable have a finalizer and are kept for it.
luaC_separateudata ==
    /\ fin' = [o \in Object |-> IF o \notin separated THEN fin[o]
                                ELSE IF val[o] = Nil THEN "without" ELSE "with"]
    /\ tmudata' = tmudata \cup {u \in separated : val[u] # Nil}
    /\ UNCHANGED called

marktmu(list) ==
    reallymarkobject([o \in Object |-> IF o \in list THEN currentwhite ELSE mark[o]], list, {})

SeparateUdata ==
    /\ Remark("again", "finalizers")
    /\ luaC_separateudata /\ marktmu(tmudata')
    /\ UNCHANGED <<grayagain, weak>>

\* Strings are never cleared; userdata that is finalized stays as a key.
iscleared(v, iskey) ==
    /\ v # Nil /\ Kind[v] # "string"
    /\ IsWhite(v) \/ (Kind[v] = "userdata" /\ ~iskey /\ fin[v] # "no")

cleartable ==
    LET filled == {h \in weak : val[h] # Nil}
        keyed == {h \in filled : ~iscleared(key[h], TRUE)}
        kept == {h \in keyed : ~iscleared(val[h], FALSE)}
        strings == ({key[h] : h \in filled} \cup {val[h] : h \in keyed}) \cap Of("string")
    IN /\ mark' = [o \in Object |-> IF o \in strings THEN "gray" ELSE mark[o]]
       /\ key' = [o \in Object |-> IF o \in filled \ kept THEN Nil ELSE key[o]]
       /\ val' = [o \in Object |-> IF o \in filled \ kept THEN Nil ELSE val[o]]

\* What a sweep of the root list passes: open upvalues are in the lists of
\* their threads, userdata to be finalized in their own.
RootList ==
    {o \in Object : Alive(o) /\ o # Main /\ o # Globals /\ Kind[o] # "string"
                    /\ ~IsOpen(o) /\ o \notin tmudata}

StartSweep == gcstate' = "sweepstring" /\ sweepgc' = RootList

ClearWeak ==
    /\ Remark("finalizers", "no")
    /\ cleartable
    /\ currentwhite' = otherwhite /\ StartSweep
    /\ UNCHANGED <<gray, grayagain, weak, tmudata, udata, full, owner, slot, stack, running, world>>

Atomic ==
    \/ /\ RemarkUpvals \/ RemarkWeak \/ RemarkGrayAgain \/ SeparateUdata
       /\ UNCHANGED <<heap, currentwhite, gcstate, full, sweepgc, running, world>>
    \/ ClearWeak

-----------------------------------------------------------------------------
(* Sweeping: what is dead is freed, the rest is white for the next cycle.  *)

Without(f, objects, none) == [o \in Object |-> IF o \in objects THEN none ELSE f[o]]

\* Mutant: what is kept is not made white again.
sweptKeepsColor(o) == IF IsDead(o) THEN "free" ELSE mark[o]

swept(o) == IF IsDead(o) THEN "free" ELSE currentwhite

\* luaE_freethread() closes the upvalues that were left.
sweeplist(objects) ==
    LET gone == {o \in objects : IsDead(o)}
        closed == {u \in Of("upval") : IsOpen(u) /\ owner[u] \in gone} \ gone
    IN /\ mark' = [o \in Object |-> IF o \in objects THEN swept(o) ELSE mark[o]]
       /\ key' = Without(key, gone, Nil)
       /\ val' = [o \in Object |-> IF o \in gone THEN Nil
                                   ELSE IF o \in closed THEN ValueOf(o) ELSE val[o]]
       /\ owner' = Without(owner, gone \cup closed, Nil)
       /\ slot' = Without(slot, gone \cup closed, 0)
       /\ fin' = Without(fin, gone, "no") /\ called' = Without(called, gone, 0)
       /\ stack' = [th \in Of("thread") |-> IF th \in gone THEN [i \in Slot |-> Nil] ELSE stack[th]]
       /\ UNCHANGED <<gray, grayagain, weak, tmudata, currentwhite, atomically, full, running, world>>

SweepStrings ==
    /\ gcstate = "sweepstring" /\ gcstate' = "sweep"
    /\ sweeplist({o \in Of("string") : Alive(o)}) /\ UNCHANGED sweepgc

\* A thread with its open upvalues.
SweepOne(o) ==
    /\ gcstate = "sweep"
    /\ sweeplist({o} \cup OpenUpvals(o))
    /\ sweepgc' = sweepgc \ {o} /\ UNCHANGED gcstate

EndSweep ==
    /\ gcstate = "sweep" /\ sweepgc = {}
    /\ sweeplist({Main, Globals} \cup OpenUpvals(Main))
    /\ gcstate' = "finalize" /\ UNCHANGED sweepgc

\* Mutant: the userdata stays in the list of those to be finalized.
GCTMKeepsListed(u) ==
    /\ gcstate = "finalize" /\ full # "sweep"
    /\ mark' = [mark EXCEPT ![u] = currentwhite]
    /\ called' = [called EXCEPT ![u] = IF @ = 0 THEN 1 ELSE 2]
    /\ UNCHANGED <<gray, grayagain, heap, fin, currentwhite, gcstate, atomically, full, weak,
                   sweepgc, tmudata, running, world>>

\* The userdata goes back to the list of all. Its finalizer may keep it in a
\* register that is free.
GCTM(u) ==
    /\ gcstate = "finalize" /\ full # "sweep"
    /\ tmudata' = tmudata \ {u}
    /\ mark' = [mark EXCEPT ![u] = currentwhite]
    /\ called' = [called EXCEPT ![u] = IF @ = 0 THEN 1 ELSE 2]
    /\ \/ stack' = stack
       \/ \E i \in 1 .. world.size[running] :
             stack[running][i] = Nil /\ stack' = [stack EXCEPT ![running][i] = u]
    /\ UNCHANGED <<gray, grayagain, key, val, owner, slot, fin, currentwhite, gcstate, atomically,
                   full, weak, sweepgc, running, world>>

-----------------------------------------------------------------------------
(* singlestep(), and luaC_fullgc(): what is under way is swept off, then a *)
(* whole cycle, before the program goes on.                                *)

Pause ==
    /\ gcstate = "pause" /\ full = "no" /\ markroot
    /\ UNCHANGED <<heap, udata, currentwhite, atomically, full, sweepgc, tmudata, running, world>>

Propagate ==
    /\ gcstate = "propagate"
    /\ \E o \in gray : propagatemark(o)
    /\ UNCHANGED <<val, owner, slot, stack, udata, currentwhite, gcstate, atomically, full,
                   sweepgc, tmudata, running, world>>

EndCycle ==
    /\ gcstate = "finalize" /\ full # "sweep" /\ tmudata = {}
    /\ gcstate' = "pause" /\ full' = "no"
    /\ UNCHANGED <<barriers, heap, udata, currentwhite, atomically, weak, sweepgc, tmudata,
                   running, world>>

MarkAgain ==
    /\ gcstate = "finalize" /\ full = "sweep" /\ markroot
    /\ full' = "mark"
    /\ UNCHANGED <<heap, udata, currentwhite, atomically, sweepgc, tmudata, running, world>>

FullGC ==
    /\ full = "no" /\ atomically = "no" /\ full' = "sweep"
    /\ IF gcstate \in {"pause", "propagate"}
       THEN StartSweep /\ gray' = {} /\ grayagain' = {} /\ weak' = {}
       ELSE UNCHANGED <<gcstate, sweepgc, gray, grayagain, weak>>
    /\ UNCHANGED <<mark, heap, udata, currentwhite, atomically, tmudata, running, world>>

Step ==
    \/ Pause \/ Propagate \/ Atomic \/ SweepStrings \/ EndSweep \/ EndCycle \/ MarkAgain
    \/ \E o \in sweepgc : SweepOne(o)
    \/ \E u \in tmudata : GCTM(u)

-----------------------------------------------------------------------------
(* The program: instructions on the stack of the running thread.           *)

Slots == 1 .. world.size[running]
Reg(i) == stack[running][i]
Is(v, kind) == v # Nil /\ Kind[v] = kind

SetReg(i, v) == stack' = [stack EXCEPT ![running][i] = v]

Instruction == full = "no" /\ atomically = "no" /\ UNCHANGED <<udata, cycle, world>>

barrierf(o, v) ==
    IF ~(IsWhite(v) /\ IsBlack(o)) THEN UNCHANGED <<mark, gray>>
    ELSE IF gcstate = "propagate" THEN reallymarkobject(mark, {v}, gray)
    ELSE mark' = [mark EXCEPT ![o] = currentwhite] /\ UNCHANGED gray

\* Mutant: the table stays black.
barrierbackForgets(h, values) == UNCHANGED <<mark, grayagain>>

barrierback(h, values) ==
    IF IsBlack(h) /\ \E v \in values : IsWhite(v)
    THEN mark' = [mark EXCEPT ![h] = "gray"] /\ grayagain' = grayagain \cup {h}
    ELSE UNCHANGED <<mark, grayagain>>

Allocate(o, i) ==
    /\ Instruction
    /\ ~Alive(o) /\ o \in world.uses /\ Kind[o] \in {"table", "userdata", "thread"}
    /\ mark' = [mark EXCEPT ![o] = currentwhite] /\ SetReg(i, o)
    /\ UNCHANGED <<gray, grayagain, key, val, owner, slot, running>>

\* luaS_newlstr(): a string that is there is used, dead or not.
NewString(o, i) ==
    /\ Instruction
    /\ Kind[o] = "string" /\ o \in world.uses
    /\ mark' = [mark EXCEPT ![o] = IF ~Alive(o) \/ IsDead(o) THEN currentwhite ELSE @]
    /\ SetReg(i, o)
    /\ UNCHANGED <<gray, grayagain, key, val, owner, slot, running>>

\* One that is dead is used again.
luaF_findupval(u, th, i) ==
    /\ owner' = [owner EXCEPT ![u] = th] /\ slot' = [slot EXCEPT ![u] = i]
    /\ IF Alive(u) THEN owner[u] = th /\ slot[u] = i
       ELSE \A o \in OpenUpvals(th) : slot[o] # i

\* A closure over the local in slot i, put into slot j.
NewClosure(f, u, i, j) ==
    /\ Instruction
    /\ Kind[f] = "closure" /\ Kind[u] = "upval" /\ {f, u} \subseteq world.uses /\ ~Alive(f)
    /\ luaF_findupval(u, running, i)
    /\ mark' = [mark EXCEPT ![f] = currentwhite,
                            ![u] = IF ~Alive(u) \/ IsDead(u) THEN currentwhite ELSE @]
    /\ val' = [val EXCEPT ![f] = u] /\ SetReg(j, f)
    /\ UNCHANGED <<gray, grayagain, key, running>>

\* The entry of a table, with key v1 (or none that is an object) and value v2.
SetTable(h, v1, v2) ==
    /\ Instruction
    /\ key' = [key EXCEPT ![h] = v1] /\ val' = [val EXCEPT ![h] = v2]
    /\ barrierback(h, {v1, v2})
    /\ UNCHANGED <<gray, owner, slot, stack, running>>

Set == \E i, j \in Slots :
    /\ Is(Reg(i), "table")
    /\ \/ "k" \notin Mode[Reg(i)] /\ SetTable(Reg(i), Nil, Reg(j))
       \/ \E k \in Slots : "k" \in Mode[Reg(i)] /\ Reg(j) # Nil /\ SetTable(Reg(i), Reg(j), Reg(k))

SetGlobal == \E i \in Slots : SetTable(Globals, Nil, Reg(i))

\* What is read goes into a register.
Read(i, v) == Instruction /\ SetReg(i, v) /\ UNCHANGED <<barriers, key, val, owner, slot, running>>

Get == \E i, j \in Slots :
    /\ Is(Reg(i), "table")
    /\ \/ Read(j, val[Reg(i)])
       \/ val[Reg(i)] # Nil /\ Read(j, key[Reg(i)])

GetGlobal == \E i \in Slots : Read(i, val[Globals])

GetUpval == \E i, j \in Slots : Is(Reg(i), "closure") /\ Read(j, ValueOf(val[Reg(i)]))

Forget == \E i \in Slots : Reg(i) # Nil /\ Read(i, Nil)

SetMetatable == \E i, j \in Slots :
    /\ Instruction
    /\ Is(Reg(i), "userdata") /\ Is(Reg(j), "table")
    /\ val' = [val EXCEPT ![Reg(i)] = Reg(j)] /\ barrierf(Reg(i), Reg(j))
    /\ UNCHANGED <<grayagain, key, owner, slot, stack, running>>

\* An open upvalue is not black: its barrier does nothing.
SetOpen(u, v) ==
    /\ IsOpen(u) /\ stack' = [stack EXCEPT ![owner[u]][slot[u]] = v]
    /\ UNCHANGED <<val, mark, gray>>

SetClosed(u, v) == ~IsOpen(u) /\ val' = [val EXCEPT ![u] = v] /\ barrierf(u, v) /\ UNCHANGED stack

SetUpval == \E i, j \in Slots :
    /\ Instruction
    /\ Is(Reg(i), "closure")
    /\ SetOpen(val[Reg(i)], Reg(j)) \/ SetClosed(val[Reg(i)], Reg(j))
    /\ UNCHANGED <<grayagain, key, owner, slot, running>>

luaC_linkupval(u) ==
    IF mark[u] # "gray" THEN UNCHANGED <<mark, gray>>
    ELSE IF gcstate = "propagate"
    THEN reallymarkobject([mark EXCEPT ![u] = "black"], {ValueOf(u)}, gray)
    ELSE mark' = [mark EXCEPT ![u] = currentwhite] /\ UNCHANGED gray

\* luaF_close() when a block ends, whose locals go with it.
Close == \E u \in OpenUpvals(running) :
    /\ Instruction
    /\ owner' = [owner EXCEPT ![u] = Nil] /\ slot' = [slot EXCEPT ![u] = 0]
    /\ IF IsDead(u) THEN mark' = [mark EXCEPT ![u] = "free"] /\ UNCHANGED <<val, gray>>
       ELSE val' = [val EXCEPT ![u] = ValueOf(u)] /\ luaC_linkupval(u)
    /\ SetReg(slot[u], Nil)
    /\ UNCHANGED <<grayagain, key, running>>

Resume == \E i \in Slots :
    /\ Instruction
    /\ running = Main /\ Is(Reg(i), "thread")
    /\ running' = Reg(i) /\ UNCHANGED <<barriers, heap>>

Yield == Instruction /\ running # Main /\ running' = Main /\ UNCHANGED <<barriers, heap>>

Program ==
    \/ \E o \in Object, i \in Slots : Allocate(o, i) \/ NewString(o, i)
    \/ \E f, u \in Object, i, j \in Slots : NewClosure(f, u, i, j)
    \/ Set \/ SetGlobal \/ Get \/ GetGlobal \/ SetMetatable \/ SetUpval \/ GetUpval
    \/ Close \/ Forget \/ Resume \/ Yield

Init ==
    /\ mark = [o \in Object |-> IF o \in {Main, Globals} THEN "w0" ELSE "free"]
    /\ key = [o \in Object |-> Nil] /\ val = key
    /\ owner = key /\ slot = [o \in Object |-> 0]
    /\ fin = [o \in Object |-> "no"] /\ called = slot
    /\ stack = [th \in Of("thread") |-> [i \in Slot |-> Nil]]
    /\ running = Main /\ world \in Worlds
    /\ currentwhite = "w0" /\ gcstate = "pause" /\ atomically = "no" /\ full = "no"
    /\ gray = {} /\ grayagain = {} /\ weak = {} /\ sweepgc = {} /\ tmudata = {}

Next == Program \/ Step \/ FullGC

Spec == Init /\ [][Next]_vars

-----------------------------------------------------------------------------
\* What registers and entries hold: anything but an upvalue.
Value == {o \in Object : Kind[o] # "upval"} \cup {Nil}

\* What the variables hold; only upvalues are open, on stacks of threads.
TypeOK ==
    /\ mark \in [Object -> {"free", "w0", "w1", "gray", "black"}]
    /\ key \in [Object -> Object \cup {Nil}] /\ val \in [Object -> Object \cup {Nil}]
    /\ owner \in [Object -> Of("thread") \cup {Nil}] /\ slot \in [Object -> 0 .. StackSize]
    /\ fin \in [Object -> {"no", "without", "with"}] /\ called \in [Object -> 0 .. 2]
    /\ stack \in [Of("thread") -> [Slot -> Value]]
    /\ running \in Of("thread") /\ world \in Worlds
    /\ currentwhite \in Whites
    /\ gcstate \in {"pause", "propagate", "sweepstring", "sweep", "finalize"}
    /\ atomically \in {"no", "upvals", "weak", "again", "finalizers"}
    /\ full \in {"no", "sweep", "mark"}
    /\ gray \subseteq Object /\ grayagain \subseteq Object /\ weak \subseteq Object
    /\ sweepgc \subseteq Object /\ tmudata \subseteq Of("userdata")

\* An empty entry is none; strings are values: a weak table refers to them as well.
Refers(o) ==
    CASE Kind[o] = "table" ->
              IF val[o] = Nil THEN {} ELSE Strong(o) \cup ({key[o], val[o]} \cap Of("string"))
      [] Kind[o] \in {"userdata", "closure"} -> {val[o]}
      [] Kind[o] = "upval" -> {ValueOf(o)}
      [] Kind[o] = "thread" -> OnStack(o)
      [] Kind[o] = "string" -> {}

WithReferred(objects) == UNION {{o} \cup (Refers(o) \ {Nil}) : o \in objects}

\* What there is a way to from some objects.
From(start) ==
    LET within[n \in 0 .. Cardinality(Object)] ==
            IF n = 0 THEN start ELSE WithReferred(within[n - 1])
    IN within[Cardinality(Object)]

Reachable == From({Main, Globals, running} \cup tmudata)

\* No object that the program can still reach was freed, nor any that a weak
\* table it can reach still holds: for every order of stores, barriers and
\* steps of the collector (lgc.c), closed upvalues (lfunc.c:84), strings that
\* are found dead (lstring.c:75) and finalizers that bring objects back.
NoDangling ==
    \A o \in Reachable :
        Alive(o) /\ (Kind[o] = "table" => \A v \in {key[o], val[o]} \ {Nil} : Alive(v))

\* No finalizer is called twice, and no userdata is freed that was not first
\* found dead, nor before its finalizer was called if it had one by then, for
\* all that it may be brought back in between (luaC_separateudata(), lgc.c:131).
FinalizedOnce ==
    [][\A u \in Of("userdata") :
          /\ called'[u] < 2
          /\ Alive(u) /\ ~Alive(u)' =>
                 fin[u] # "no" /\ called[u] = (IF fin[u] = "with" THEN 1 ELSE 0)]_vars

\* A full collection leaves nothing that the program cannot reach as it ends to
\* mark, but for userdata with a finalizer and what they refer to: whatever was
\* marked, found or closed in the cycle that it cuts off. What it finds dead
\* stays so until it is freed, and all else is white then (luaC_fullgc()).
FullCollects ==
    [][full = "mark" =>
          /\ gcstate = "propagate" /\ gcstate' # "propagate" =>
                \A o \in Object \ From({Main, Globals, running} \cup tmudata) : Alive(o) => IsDead(o)'
          /\ \A o \in Object : IsDead(o) => IsDead(o)' \/ ~Alive(o)'
          /\ full' = "no" => \A o \in Object : Alive(o) => mark[o] = currentwhite]_vars
=============================================================================
