--------------------------- MODULE CollectorProofs ---------------------------
(***************************************************************************)
(* The collector beside any program, for any number of objects, any kinds  *)
(* of them and stacks of any depth.  GInv is inductive: whatever is not    *)
(* dead refers to nothing dead (RefsLive), which the collector can only    *)
(* keep through the flip of the whites if at that moment all that a marked *)
(* object keeps alive is marked (Phase).  While the program runs this is   *)
(* the tricolor invariant, and in the phases of atomic() it says what is   *)
(* still to be traversed again.  What holds of everything that is not dead *)
(* then holds of what is reachable; the function in From is reasoned about *)
(* by its least failing step.                                              *)
(***************************************************************************)
EXTENDS Collector, FiniteSetTheorems, WellFoundedInduction, TLAPS

-----------------------------------------------------------------------------
(* The invariant *)

Live(o) == mark[o] # "free" /\ mark[o] # otherwhite
LiveRef(v) == v = Nil \/ Live(v)

IsMarked(o) == mark[o] \in {"gray", "black"}
MarkedRef(v) == v = Nil \/ IsMarked(v)

\* What an object refers to, by its kind. What is free refers to nothing.
Shape ==
    \A o \in Object :
        /\ key[o] \in Value /\ (Kind[o] # "table" => key[o] = Nil)
        /\ Kind[o] # "closure" => val[o] \in Value
        /\ Kind[o] = "userdata" /\ val[o] # Nil => Kind[val[o]] = "table"
        /\ Kind[o] = "closure" /\ Alive(o) => val[o] \in Of("upval")
        /\ Kind[o] \in {"thread", "string"} => val[o] = Nil
        /\ IsOpen(o) => /\ Kind[o] = "upval" /\ val[o] = Nil /\ slot[o] \in Slot
                        /\ Alive(o) /\ Alive(owner[o])
        /\ ~Alive(o) => key[o] = Nil /\ val[o] = Nil
        /\ ~Alive(o) /\ Kind[o] = "thread" => \A i \in Slot : stack[o][i] = Nil

\* What is not dead refers to nothing dead, weakly or not.
RefsLive ==
    \A o \in Object : Live(o) =>
        /\ LiveRef(key[o])
        /\ IF IsOpen(o) THEN LiveRef(stack[owner[o]][slot[o]]) ELSE LiveRef(val[o])
        /\ Kind[o] = "thread" => \A i \in Slot : LiveRef(stack[o][i])

RootsLive == Live(Main) /\ Live(Globals) /\ Live(running) /\ \A u \in tmudata : Live(u)

\* Strings, threads and open upvalues are never black; userdata and closed
\* upvalues never gray.
Colors ==
    \A o \in Object :
        /\ mark[o] = "black" => Kind[o] # "thread" /\ Kind[o] # "string" /\ ~IsOpen(o)
        /\ mark[o] = "gray" => Kind[o] # "userdata" /\ (Kind[o] = "upval" => IsOpen(o))

\* All that o keeps alive is marked.
Done(o) ==
    /\ MarkedRef(key[o]) \/ (Kind[o] = "table" /\ "k" \in Mode[o])
    /\ IF IsOpen(o) THEN MarkedRef(stack[owner[o]][slot[o]])
       ELSE MarkedRef(val[o]) \/ (Kind[o] = "table" /\ "v" \in Mode[o])
    /\ Kind[o] = "thread" => \A i \in Slot : MarkedRef(stack[o][i])

Lists ==
    /\ \A o \in gray : IsMarked(o) /\ Kind[o] \in {"table", "closure", "thread"}
    /\ \A o \in grayagain : IsMarked(o) /\ Kind[o] \in {"table", "thread"}
    /\ \A o \in weak : IsMarked(o) /\ IsWeak(o)
    /\ \A o \in Object : IsMarked(o) /\ IsWeak(o) => o \in gray \cup weak

\* While the program runs, a black object is done, and a gray one waits.
Tricolor ==
    \A o \in Object :
        /\ mark[o] = "gray" => o \in gray \cup grayagain \cup weak \/ Kind[o] = "string" \/ IsOpen(o)
        /\ mark[o] = "black" => o \in tmudata \/ Done(o)

\* What atomic() still has to come back to.
Pending(o) ==
    \/ atomically = "upvals" /\ o \in weak
    \/ atomically \in {"upvals", "weak"} /\ o \in grayagain
    \/ atomically # "finalizers" /\ o \in tmudata

Remarking ==
    /\ \A o \in Object : IsMarked(o) => o \in gray \/ Pending(o) \/ Done(o)
    /\ atomically # "upvals" => IsMarked(running) /\ \A h \in weak : val[h] = Nil => key[h] = Nil
    /\ atomically = "finalizers" => \A u \in tmudata : IsMarked(u)

Propagating ==
    /\ \A o \in Object : mark[o] # otherwhite
    /\ IsMarked(Main) /\ IsMarked(Globals)
    /\ Lists
    /\ IF atomically = "no" THEN Tricolor ELSE Remarking

Sweeping ==
    /\ \A o \in Object : Alive(o) /\ mark[o] # currentwhite =>
          \/ o \in sweepgc \cup tmudata \cup {Main, Globals}
          \/ Kind[o] = "string" /\ gcstate = "sweepstring"
          \/ IsOpen(o) /\ owner[o] \in sweepgc \cup {Main}
    /\ \A o \in sweepgc : Alive(o) /\ o # Main /\ o # Globals /\ Kind[o] # "string" /\ ~IsOpen(o)
                          /\ o \notin tmudata

Finalizing == \A o \in Object : Alive(o) /\ mark[o] # currentwhite => o \in tmudata

Phase ==
    /\ gcstate = "propagate" => Propagating
    /\ gcstate \in {"sweepstring", "sweep"} => Sweeping
    /\ gcstate \in {"finalize", "pause"} => Finalizing
    /\ gcstate = "pause" => tmudata = {}
    /\ gcstate # "propagate" => atomically = "no"

GInv == TypeOK /\ Shape /\ RefsLive /\ RootsLive /\ Colors /\ Phase

-----------------------------------------------------------------------------
(* The program *)

LEMMA Write ==
    ASSUME stack \in [Of("thread") -> [Slot -> Value]],
           NEW th \in Of("thread"), NEW i \in Slot, NEW v \in Value,
           stack' = [stack EXCEPT ![th][i] = v]
    PROVE  /\ stack' \in [Of("thread") -> [Slot -> Value]]
           /\ \A t \in Of("thread"), k \in Slot :
                 stack'[t][k] = IF t = th /\ k = i THEN v ELSE stack[t][k]
  OBVIOUS

LEMMA Constants ==
    /\ \A o \in Object : Kind[o] \in {"table", "userdata", "closure", "upval", "thread", "string"}
    /\ \A kind, o : o \in Of(kind) <=> o \in Object /\ Kind[o] = kind
    /\ \A o \in Object : o # Nil /\ (o \in Value <=> Kind[o] # "upval")
    /\ Nil \in Value
    /\ Main \in Object /\ Kind[Main] = "thread" /\ Globals \in Object /\ Kind[Globals] = "table"
    /\ \A o : IsWeak(o) => Kind[o] = "table"
  BY CollectorAssumption DEF Of, Value, IsWeak

LEMMA SlotsInRange ==
    TypeOK => Slots \subseteq Slot
  <1> SUFFICES ASSUME TypeOK PROVE Slots \subseteq Slot
    OBVIOUS
  <1>1. world.size \in [Of("thread") -> 0 .. StackSize] /\ running \in Of("thread")
    BY CollectorAssumption DEF TypeOK
  <1>2. world.size[running] \in 0 .. StackSize
    BY <1>1
  <1>3. QED
    BY <1>2, CollectorAssumption DEF Slots, Slot

\* A value is put into a register.
LEMMA ReadStep ==
    ASSUME GInv, NEW i \in Slots, NEW v \in Value, LiveRef(v), Read(i, v)
    PROVE  GInv'
  <1>1. TypeOK /\ Shape /\ RefsLive /\ RootsLive /\ Colors /\ Phase
    BY DEF GInv
  <1>2. /\ UNCHANGED <<mark, gray, grayagain, key, val, owner, slot, running>>
        /\ UNCHANGED <<fin, called, currentwhite, gcstate, atomically, full, weak, sweepgc, tmudata, world>>
        /\ atomically = "no"
        /\ stack' = [stack EXCEPT ![running][i] = v]
    BY DEF Read, Instruction, SetReg, barriers, udata, cycle
  <1>3. running \in Of("thread") /\ i \in Slot /\ stack \in [Of("thread") -> [Slot -> Value]]
    BY <1>1, SlotsInRange DEF TypeOK
  <1>4. /\ stack' \in [Of("thread") -> [Slot -> Value]]
        /\ \A t \in Of("thread"), k \in Slot :
              stack'[t][k] = IF t = running /\ k = i THEN v ELSE stack[t][k]
    BY <1>2, <1>3, Write
  <1>5. TypeOK'
    BY <1>1, <1>2, <1>4 DEF TypeOK
  <1>6. Alive(running) /\ Live(running) /\ running \in Object
    BY <1>1, <1>3, Constants DEF RootsLive, Live, Alive
  <1>7. Shape'
    BY <1>1, <1>2, <1>4, <1>6, Constants DEF Shape, TypeOK, Alive, IsOpen
  <1>8. RefsLive'
    BY <1>1, <1>2, <1>4, <1>6, Constants DEF RefsLive, Shape, TypeOK, Live, LiveRef, IsOpen, otherwhite
  <1>9. RootsLive' /\ Colors'
    BY <1>1, <1>2 DEF RootsLive, Live, otherwhite, Colors, IsOpen
  <1>10. Phase'
    <2>1. gcstate = "propagate" /\ Tricolor => Tricolor'
      BY <1>1, <1>2 DEF Tricolor, Done, Colors, MarkedRef, IsMarked, IsOpen
    <2>2. gcstate = "propagate" => Propagating'
      BY <2>1, <1>1, <1>2 DEF Phase, Propagating, Lists, IsMarked, otherwhite
    <2>3. gcstate # "propagate" => (Sweeping => Sweeping') /\ (Finalizing => Finalizing')
      BY <1>2 DEF Sweeping, Finalizing, Alive, IsOpen
    <2>4. QED
      BY <2>2, <2>3, <1>1, <1>2 DEF Phase
  <1>11. QED
    BY <1>5, <1>7, <1>8, <1>9, <1>10 DEF GInv

\* What marking does: what is white among the values becomes gray or black,
\* and so does what userdata and upvalues among them refer to.
LEMMA Marking ==
    ASSUME TypeOK, Shape, NEW m \in [Object -> {"free", "w0", "w1", "gray", "black"}],
           NEW values \in SUBSET (Object \cup {Nil}), NEW list \in SUBSET Object,
           reallymarkobject(m, values, list)
    PROVE  /\ mark' \in [Object -> {"free", "w0", "w1", "gray", "black"}]
           /\ gray' \subseteq Object /\ list \subseteq gray'
           /\ \A v \in values : v = Nil \/ mark'[v] \notin Whites
           /\ \A o \in Object :
                 \/ mark'[o] = m[o]
                 \/ /\ m[o] \in Whites /\ mark'[o] = markedcolor(o)
                    /\ Kind[o] \in {"table", "closure", "thread"} => o \in gray'
                    /\ Kind[o] = "userdata" => val[o] = Nil \/ mark'[val[o]] \notin Whites
                    /\ Kind[o] = "upval" => ValueOf(o) = Nil \/ mark'[ValueOf(o)] \notin Whites
           /\ \A o \in gray' :
                 \/ o \in list
                 \/ m[o] \in Whites /\ mark'[o] = markedcolor(o)
                    /\ Kind[o] \in {"table", "closure", "thread"}
  <1> DEFINE R == Reached(m, values)
             H == Held(m, values)
             W == WhiteIn(m, values)
  <1>1. /\ mark' = [o \in Object |-> IF o \in R THEN markedcolor(o) ELSE m[o]]
        /\ gray' = list \cup {o \in R : Kind[o] \in {"table", "closure", "thread"}}
    BY DEF reallymarkobject
  <1>2. \A u \in Object : Kind[u] = "upval" => ValueOf(u) \in Value
    BY Constants DEF TypeOK, Shape, ValueOf, IsOpen
  <1>3. W \subseteq Object /\ \A o : o \in W <=> o \in values /\ o # Nil /\ m[o] \in Whites
    BY DEF WhiteIn
  <1>4. /\ H \subseteq Object
        /\ \A o : o \in H <=> \/ o \in W
                              \/ /\ o # Nil /\ m[o] \in Whites
                                 /\ \E u \in W : Kind[u] = "upval" /\ o = ValueOf(u)
    <2> DEFINE V == {ValueOf(u) : u \in W \cap Of("upval")}
    <2>1. \A o : o \in V <=> \E u \in W : Kind[u] = "upval" /\ o = ValueOf(u)
      BY <1>3, Constants
    <2>2. H = W \cup {v \in V : v # Nil /\ m[v] \in Whites}
      BY DEF Held, WhiteIn
    <2>3. V \subseteq Object \cup {Nil}
      BY <1>2, <1>3, <2>1 DEF Value
    <2> HIDE DEF V, H, W
    <2>4. QED
      BY <1>3, <2>1, <2>2, <2>3
  <1>5. /\ R \subseteq Object
        /\ \A o : o \in R <=> \/ o \in H
                              \/ /\ o # Nil /\ m[o] \in Whites
                                 /\ \E u \in H : Kind[u] = "userdata" /\ o = val[u]
    BY <1>4, Constants DEF TypeOK, Reached, WhiteIn
  <1> HIDE DEF R, H, W
  <1>6. \A o \in R : m[o] \in Whites
    BY <1>3, <1>4, <1>5
  <1>7. \A o \in Object : markedcolor(o) \in {"gray", "black"}
    BY DEF markedcolor
  <1>8. \A v \in values : v = Nil \/ mark'[v] \notin Whites
    BY <1>1, <1>3, <1>4, <1>5, <1>7 DEF Whites
  <1>9. ASSUME NEW o \in R
        PROVE  /\ Kind[o] = "userdata" => val[o] = Nil \/ mark'[val[o]] \notin Whites
               /\ Kind[o] = "upval" => ValueOf(o) = Nil \/ mark'[ValueOf(o)] \notin Whites
    <2>1. Kind[o] = "userdata" => o \in H
      BY <1>4, <1>5, Constants DEF Shape
    <2>2. Kind[o] = "upval" => o \in W
      BY <1>2, <1>4, <1>5, Constants DEF Shape
    <2>3. Kind[o] = "userdata" => val[o] \in Object \cup {Nil}
      BY <1>5 DEF TypeOK
    <2>4. Kind[o] = "userdata" => val[o] = Nil \/ mark'[val[o]] \notin Whites
      BY <2>1, <2>3, <1>1, <1>5, <1>7 DEF Whites
    <2>5. Kind[o] = "upval" => ValueOf(o) \in Object \cup {Nil}
      BY <1>2, <1>5, Constants DEF Value
    <2>6. Kind[o] = "upval" => ValueOf(o) = Nil \/ mark'[ValueOf(o)] \notin Whites
      BY <2>2, <2>5, <1>1, <1>4, <1>5, <1>7 DEF Whites
    <2>7. QED
      BY <2>4, <2>6
  <1>10. QED
    BY <1>1, <1>5, <1>6, <1>7, <1>8, <1>9

\* What is marked was white; the rest keeps its mark.
LEMMA MarkingOnly ==
    ASSUME TypeOK, Shape, NEW m \in [Object -> {"free", "w0", "w1", "gray", "black"}],
           NEW values \in SUBSET (Object \cup {Nil}), NEW list \in SUBSET Object,
           reallymarkobject(m, values, list)
    PROVE  /\ \A v \in values : v = Nil \/ mark'[v] \notin Whites
           /\ \A o \in Object : mark'[o] = m[o] \/ (m[o] \in Whites /\ mark'[o] = markedcolor(o))
  <1>1. /\ \A v \in values : v = Nil \/ mark'[v] \notin Whites
        /\ \A o \in Object :
              \/ mark'[o] = m[o]
              \/ /\ m[o] \in Whites /\ mark'[o] = markedcolor(o)
                 /\ Kind[o] \in {"table", "closure", "thread"} => o \in gray'
                 /\ Kind[o] = "userdata" => val[o] = Nil \/ mark'[val[o]] \notin Whites
                 /\ Kind[o] = "upval" => ValueOf(o) = Nil \/ mark'[ValueOf(o)] \notin Whites
    BY Marking
  <1>2. QED
    BY <1>1

LEMMA ResumeStep == ASSUME GInv, Resume PROVE GInv'
  <1>1. TypeOK /\ Shape /\ RefsLive /\ RootsLive /\ Colors /\ Phase
    BY DEF GInv
  <1>2. PICK i \in Slots : Is(Reg(i), "thread") /\ running' = Reg(i)
    BY DEF Resume
  <1>3. i \in Slot /\ Reg(i) \in Of("thread") /\ Live(Reg(i))
    BY <1>1, <1>2, SlotsInRange, Constants DEF Is, Reg, TypeOK, Value, RefsLive, RootsLive, LiveRef
  <1>4. UNCHANGED <<barriers, heap, udata, cycle, world>> /\ atomically = "no"
    BY DEF Resume, Instruction
  <1>5. UNCHANGED <<mark, gray, grayagain, key, val, owner, slot, stack, fin, called, currentwhite,
                    gcstate, atomically, full, weak, sweepgc, tmudata, world>>
    BY <1>4 DEF barriers, heap, udata, cycle
  <1>6. TypeOK' /\ Shape'
    BY <1>1, <1>2, <1>3, <1>5 DEF TypeOK, Shape, Alive, IsOpen
  <1>7. RefsLive' /\ RootsLive' /\ Colors'
    BY <1>1, <1>2, <1>3, <1>5 DEF RefsLive, RootsLive, Live, LiveRef, otherwhite, Colors, IsOpen
  <1>8. Phase'
    BY <1>1, <1>4, <1>5 DEF Phase, Propagating, Sweeping, Finalizing, Lists, Tricolor, Done,
       MarkedRef, IsMarked, IsOpen, Alive, otherwhite
  <1>9. QED
    BY <1>6, <1>7, <1>8 DEF GInv

LEMMA YieldStep == ASSUME GInv, Yield PROVE GInv'
  <1>1. TypeOK /\ Shape /\ RefsLive /\ RootsLive /\ Colors /\ Phase
    BY DEF GInv
  <1>2. running' = Main /\ Main \in Of("thread")
    BY CollectorAssumption DEF Yield
  <1>3. UNCHANGED <<barriers, heap, udata, cycle, world>> /\ atomically = "no"
    BY DEF Yield, Instruction
  <1>4. UNCHANGED <<mark, gray, grayagain, key, val, owner, slot, stack, fin, called, currentwhite,
                    gcstate, atomically, full, weak, sweepgc, tmudata, world>>
    BY <1>3 DEF barriers, heap, udata, cycle
  <1>5. TypeOK' /\ Shape'
    BY <1>1, <1>2, <1>4 DEF TypeOK, Shape, Alive, IsOpen
  <1>6. RefsLive' /\ RootsLive' /\ Colors'
    BY <1>1, <1>2, <1>4 DEF RefsLive, RootsLive, Live, LiveRef, otherwhite, Colors, IsOpen
  <1>7. Phase'
    BY <1>1, <1>3, <1>4 DEF Phase, Propagating, Sweeping, Finalizing, Lists, Tricolor, Done,
       MarkedRef, IsMarked, IsOpen, Alive, otherwhite
  <1>8. QED
    BY <1>5, <1>6, <1>7 DEF GInv

LEMMA Instructions ==
    Instruction => /\ UNCHANGED <<fin, called, currentwhite, gcstate, atomically, full, weak,
                                  sweepgc, tmudata, world>>
                   /\ atomically = "no" /\ full = "no"
  BY DEF Instruction, udata, cycle

LEMMA Registers ==
    ASSUME GInv, NEW i \in Slots
    PROVE  /\ i \in Slot /\ running \in Of("thread") /\ Live(running)
           /\ Reg(i) \in Value /\ LiveRef(Reg(i))
  BY SlotsInRange, Constants DEF GInv, TypeOK, RefsLive, RootsLive, Reg

LEMMA AllocateStep ==
    ASSUME GInv, NEW o \in Object, NEW i \in Slots, Allocate(o, i)
    PROVE  GInv'
  <1>1. TypeOK /\ Shape /\ RefsLive /\ RootsLive /\ Colors /\ Phase
    BY DEF GInv
  <1>2. /\ UNCHANGED <<gray, grayagain, key, val, owner, slot, running, fin, called, currentwhite,
                       gcstate, atomically, full, weak, sweepgc, tmudata, world>>
        /\ atomically = "no" /\ ~Alive(o) /\ Kind[o] \in {"table", "userdata", "thread"}
        /\ mark' = [mark EXCEPT ![o] = currentwhite]
        /\ stack' = [stack EXCEPT ![running][i] = o]
    BY Instructions DEF Allocate, SetReg
  <1>3. running \in Of("thread") /\ i \in Slot /\ stack \in [Of("thread") -> [Slot -> Value]]
    BY <1>1, SlotsInRange DEF TypeOK
  <1>4. o \in Value
    BY <1>2, Constants
  <1>5. /\ stack' \in [Of("thread") -> [Slot -> Value]]
        /\ \A t \in Of("thread"), k \in Slot :
              stack'[t][k] = IF t = running /\ k = i THEN o ELSE stack[t][k]
    BY <1>2, <1>3, <1>4, Write
  <1>6. /\ currentwhite \in {"w0", "w1"} /\ otherwhite \in {"w0", "w1"} /\ otherwhite # currentwhite
        /\ otherwhite' = otherwhite
    BY <1>1, <1>2 DEF TypeOK, otherwhite, Whites
  <1>7. \A x \in Object : mark'[x] = IF x = o THEN currentwhite ELSE mark[x]
    BY <1>1, <1>2 DEF TypeOK
  <1>8. TypeOK'
    BY <1>1, <1>2, <1>5, <1>6 DEF TypeOK
  <1>9. Alive(running) /\ Live(running) /\ running \in Object
    BY <1>1, <1>3, Constants DEF RootsLive, Live, Alive
  <1>10. /\ o # running /\ key[o] = Nil /\ val[o] = Nil /\ owner[o] = Nil
         /\ Kind[o] = "thread" => \A k \in Slot : stack[o][k] = Nil
    BY <1>1, <1>2, <1>9, Constants DEF Shape, IsOpen
  <1>11. Shape'
    BY <1>1, <1>2, <1>5, <1>6, <1>7, <1>9, <1>10, Constants DEF Shape, TypeOK, Alive, IsOpen
  <1>12. RefsLive'
    BY <1>1, <1>2, <1>5, <1>6, <1>7, <1>9, <1>10, Constants DEF RefsLive, Shape, TypeOK, Live, LiveRef, IsOpen
  <1>13. RootsLive' /\ Colors'
    BY <1>1, <1>2, <1>6, <1>7 DEF RootsLive, Live, Colors, IsOpen
  <1>14. Phase'
    <2>1. \A x \in Object : IsMarked(x)' <=> IsMarked(x)
      BY <1>2, <1>6, <1>7 DEF IsMarked, Alive
    <2>2. gcstate = "propagate" => Propagating'
      <3>1. SUFFICES ASSUME Propagating PROVE Propagating'
        BY <1>1 DEF Phase
      <3>2. \A x \in Object : mark'[x] # otherwhite'
        BY <1>2, <1>6, <1>7, <3>1 DEF Propagating
      <3>3. Lists'
        BY <1>1, <1>2, <2>1, <3>1 DEF Propagating, Lists, TypeOK, IsWeak
      <3>4. Tricolor'
        BY <1>1, <1>2, <1>5, <1>6, <1>7, <2>1, <3>1, Constants DEF Propagating, Tricolor, TypeOK, Done,
           MarkedRef, Colors, IsOpen
      <3>5. QED
        BY <1>1, <1>2, <2>1, <3>1, <3>2, <3>3, <3>4, Constants DEF Propagating, TypeOK
    <2>3. gcstate # "propagate" => Phase'
      BY <1>1, <1>2, <1>6, <1>7, Constants DEF Phase, Sweeping, Finalizing, Alive, IsOpen
    <2>4. QED
      BY <1>1, <1>2, <2>2, <2>3 DEF Phase
  <1>15. QED
    BY <1>8, <1>11, <1>12, <1>13, <1>14 DEF GInv

LEMMA NewStringStep ==
    ASSUME GInv, NEW o \in Object, NEW i \in Slots, NewString(o, i)
    PROVE  GInv'
  <1>1. TypeOK /\ Shape /\ RefsLive /\ RootsLive /\ Colors /\ Phase
    BY DEF GInv
  <1>2. /\ UNCHANGED <<gray, grayagain, key, val, owner, slot, running, fin, called, currentwhite,
                       gcstate, atomically, full, weak, sweepgc, tmudata, world>>
        /\ atomically = "no" /\ Kind[o] = "string"
        /\ mark' = [mark EXCEPT ![o] = IF ~Alive(o) \/ IsDead(o) THEN currentwhite ELSE @]
        /\ stack' = [stack EXCEPT ![running][i] = o]
    BY Instructions DEF NewString, SetReg
  <1>3. running \in Of("thread") /\ i \in Slot /\ stack \in [Of("thread") -> [Slot -> Value]]
    BY <1>1, SlotsInRange DEF TypeOK
  <1>4. o \in Value
    BY <1>2, Constants
  <1>5. /\ stack' \in [Of("thread") -> [Slot -> Value]]
        /\ \A t \in Of("thread"), k \in Slot :
              stack'[t][k] = IF t = running /\ k = i THEN o ELSE stack[t][k]
    BY <1>2, <1>3, <1>4, Write
  <1>6. /\ currentwhite \in {"w0", "w1"} /\ otherwhite \in {"w0", "w1"} /\ otherwhite # currentwhite
        /\ otherwhite' = otherwhite
    BY <1>1, <1>2 DEF TypeOK, otherwhite, Whites
  <1>7. \A x \in Object : mark'[x] = IF x = o /\ ~Live(o) THEN currentwhite ELSE mark[x]
    BY <1>1, <1>2 DEF TypeOK, Alive, IsDead, Live
  <1>8. TypeOK'
    BY <1>1, <1>2, <1>5, <1>6 DEF TypeOK
  <1>9. Alive(running) /\ Live(running) /\ running \in Object
    BY <1>1, <1>3, Constants DEF RootsLive, Live, Alive
  <1>10. key[o] = Nil /\ val[o] = Nil /\ owner[o] = Nil
    BY <1>1, <1>2, Constants DEF Shape, IsOpen
  <1>11. Shape'
    BY <1>1, <1>2, <1>5, <1>6, <1>7, <1>9, <1>10, Constants DEF Shape, TypeOK, Alive, IsOpen
  <1>12. \A x \in Object : Live(x)' <=> Live(x) \/ x = o
    BY <1>6, <1>7 DEF Live
  <1>13. RefsLive'
    <2>1. \A v \in Object \cup {Nil} : LiveRef(v) => LiveRef(v)'
      BY <1>12 DEF LiveRef
    <2>2. LiveRef(o)' /\ LiveRef(Nil)'
      BY <1>12 DEF LiveRef
    <2>3. \A x \in Object : x # o => (Live(x)' <=> Live(x))
      BY <1>12
    <2>4. QED
      BY <1>1, <1>2, <1>5, <1>9, <1>10, <2>1, <2>2, <2>3, Constants DEF RefsLive, Shape, TypeOK, IsOpen, Value
  <1>14. RootsLive' /\ Colors'
    BY <1>1, <1>2, <1>6, <1>7 DEF RootsLive, Live, Colors, IsOpen
  <1>15. Phase'
    <2>1. \A x \in Object : IsMarked(x)' <=> IsMarked(x)
      BY <1>2, <1>6, <1>7 DEF IsMarked, Live
    <2>2. gcstate = "propagate" => Propagating'
      <3>1. SUFFICES ASSUME Propagating PROVE Propagating'
        BY <1>1 DEF Phase
      <3>2. \A x \in Object : mark'[x] # otherwhite'
        BY <1>2, <1>6, <1>7, <3>1 DEF Propagating
      <3>3. Lists'
        BY <1>1, <1>2, <2>1, <3>1 DEF Propagating, Lists, TypeOK, IsWeak
      <3>4. Tricolor'
        BY <1>1, <1>2, <1>5, <1>6, <1>7, <2>1, <3>1, Constants DEF Propagating, Tricolor, TypeOK, Done,
           MarkedRef, Colors, IsOpen
      <3>5. QED
        BY <1>1, <1>2, <2>1, <3>1, <3>2, <3>3, <3>4, Constants DEF Propagating, TypeOK
    <2>3. gcstate # "propagate" => Phase'
      BY <1>1, <1>2, <1>6, <1>7, Constants DEF Phase, Sweeping, Finalizing, Alive, IsOpen, Live
    <2>4. QED
      BY <1>1, <1>2, <2>2, <2>3 DEF Phase
  <1>16. QED
    BY <1>8, <1>11, <1>13, <1>14, <1>15 DEF GInv

\* Marking goes on from the marks m and the list of gray objects: what is
\* marked now was white, and has marked with it what is below it.
GrowsFrom(m, list) ==
    /\ mark' \in [Object -> {"free", "w0", "w1", "gray", "black"}]
    /\ gray' \subseteq Object /\ list \subseteq gray'
    /\ \A o \in Object :
          \/ mark'[o] = m[o]
          \/ /\ m[o] = currentwhite /\ mark'[o] = markedcolor(o)
             /\ mark'[o] \in {"gray", "black"}
             /\ Kind[o] \in {"table", "closure", "thread"} => o \in gray'
             /\ Kind[o] = "userdata" => val[o] = Nil \/ mark'[val[o]] \in {"gray", "black"}
             /\ Kind[o] = "upval" => ValueOf(o) = Nil \/ mark'[ValueOf(o)] \in {"gray", "black"}
    /\ \A o \in gray' :
          \/ o \in list
          \/ m[o] = currentwhite /\ mark'[o] = markedcolor(o)
             /\ Kind[o] \in {"table", "closure", "thread"}

\* While nothing is dead, what is marked has marked with it what is below it.
LEMMA MarkingAlive ==
    ASSUME TypeOK, Shape, RefsLive, NEW m \in [Object -> {"free", "w0", "w1", "gray", "black"}],
           \A o \in Object : m[o] # otherwhite /\ mark[o] # otherwhite /\ (m[o] = "free" <=> mark[o] = "free"),
           NEW values \in SUBSET (Object \cup {Nil}), \A v \in values : LiveRef(v),
           NEW list \in SUBSET Object, reallymarkobject(m, values, list)
    PROVE  /\ GrowsFrom(m, list)
           /\ \A v \in values : v = Nil \/ mark'[v] \in {"gray", "black"}
  <1>1. /\ mark' \in [Object -> {"free", "w0", "w1", "gray", "black"}]
        /\ gray' \subseteq Object /\ list \subseteq gray'
        /\ \A v \in values : v = Nil \/ mark'[v] \notin Whites
        /\ \A o \in Object :
              \/ mark'[o] = m[o]
              \/ /\ m[o] \in Whites /\ mark'[o] = markedcolor(o)
                 /\ Kind[o] \in {"table", "closure", "thread"} => o \in gray'
                 /\ Kind[o] = "userdata" => val[o] = Nil \/ mark'[val[o]] \notin Whites
                 /\ Kind[o] = "upval" => ValueOf(o) = Nil \/ mark'[ValueOf(o)] \notin Whites
        /\ \A o \in gray' :
              \/ o \in list
              \/ m[o] \in Whites /\ mark'[o] = markedcolor(o)
                 /\ Kind[o] \in {"table", "closure", "thread"}
    BY Marking
  <1>2. \A o \in Object : m[o] \in Whites => m[o] = currentwhite
    BY DEF TypeOK, Whites, otherwhite
  <1>3. \A o \in Object : markedcolor(o) \in {"gray", "black"}
    BY DEF markedcolor
  <1>4. \A o \in Object : m[o] # "free" <=> Live(o)
    BY DEF Live
  <1>5. \A o \in Object : Live(o) => mark'[o] # "free"
    BY <1>1, <1>3, <1>4
  <1>6. \A v \in Object \cup {Nil} : LiveRef(v) /\ (v = Nil \/ mark'[v] \notin Whites) =>
           v = Nil \/ mark'[v] \in {"gray", "black"}
    BY <1>1, <1>5 DEF LiveRef, Whites
  <1>7. \A o \in Object : m[o] \in Whites =>
           /\ Kind[o] = "userdata" => val[o] \in Object \cup {Nil} /\ LiveRef(val[o])
           /\ Kind[o] = "upval" => ValueOf(o) \in Object \cup {Nil} /\ LiveRef(ValueOf(o))
    <2> SUFFICES ASSUME NEW o \in Object, m[o] \in Whites
                 PROVE  /\ Kind[o] = "userdata" => val[o] \in Object \cup {Nil} /\ LiveRef(val[o])
                        /\ Kind[o] = "upval" => ValueOf(o) \in Object \cup {Nil} /\ LiveRef(ValueOf(o))
      OBVIOUS
    <2>1. Live(o)
      BY <1>4 DEF Whites
    <2>2. QED
      BY <2>1, Constants DEF RefsLive, TypeOK, Shape, ValueOf, Value, IsOpen
  <1>8. QED
    BY <1>1, <1>2, <1>3, <1>6, <1>7 DEF GrowsFrom

\* The forward barrier: what is black and refers to v now is no more, or v is marked.
LEMMA ForwardBarrier ==
    ASSUME GInv, atomically = "no", UNCHANGED currentwhite,
           NEW o \in Object, NEW v \in Object \cup {Nil}, LiveRef(v), barrierf(o, v)
    PROVE  /\ mark' \in [Object -> {"free", "w0", "w1", "gray", "black"}]
           /\ gray' \subseteq Object
           /\ gcstate # "propagate" =>
                 /\ gray' = gray
                 /\ \A x \in Object : mark'[x] # mark[x] => mark[x] = "black" /\ mark'[x] = currentwhite
           /\ gcstate = "propagate" =>
                 /\ GrowsFrom(mark, gray)
                 /\ mark[o] = "black" => v = Nil \/ mark'[v] \in {"gray", "black"}
  <1>1. TypeOK /\ Shape /\ RefsLive /\ Phase
    BY DEF GInv
  <1>2. CASE IsWhite(v) /\ IsBlack(o) /\ gcstate = "propagate"
    <2>1. reallymarkobject(mark, {v}, gray)
      BY <1>2 DEF barrierf
    <2>2. /\ mark \in [Object -> {"free", "w0", "w1", "gray", "black"}]
          /\ gray \in SUBSET Object /\ {v} \in SUBSET (Object \cup {Nil})
          /\ \A x \in Object : mark[x] # otherwhite
      BY <1>1, <1>2 DEF TypeOK, Phase, Propagating
    <2>3. \A w \in {v} : LiveRef(w)
      OBVIOUS
    <2>4. QED
      BY <1>1, <1>2, <2>1, <2>2, <2>3, MarkingAlive DEF GrowsFrom
  <1>3. CASE IsWhite(v) /\ IsBlack(o) /\ gcstate # "propagate"
    <2>1. mark' = [mark EXCEPT ![o] = currentwhite] /\ gray' = gray
      BY <1>3 DEF barrierf
    <2>2. QED
      BY <1>1, <1>3, <2>1 DEF TypeOK, IsBlack, Whites
  <1>4. CASE ~(IsWhite(v) /\ IsBlack(o))
    <2>1. mark' = mark /\ gray' = gray
      BY <1>4 DEF barrierf
    <2>2. gcstate = "propagate" /\ mark[o] = "black" => v = Nil \/ mark[v] \in {"gray", "black"}
      BY <1>1, <1>4 DEF TypeOK, Phase, Propagating, IsWhite, IsBlack, LiveRef, Live, Whites
    <2>3. QED
      BY <1>1, <2>1, <2>2 DEF TypeOK, GrowsFrom
  <1>5. QED
    BY <1>2, <1>3, <1>4

\* While there is no marking, what the program does keeps the sweep's account
\* of what is not white yet.
LEMMA SweepUndisturbed ==
    ASSUME TypeOK, Phase, gcstate # "propagate",
           UNCHANGED <<currentwhite, gcstate, atomically, sweepgc, tmudata>>,
           \A x \in Object : mark'[x] # "free" /\ mark'[x] # currentwhite =>
               mark[x] # "free" /\ mark[x] # currentwhite /\ owner'[x] = owner[x],
           \A x \in Object : Alive(x) /\ ~IsOpen(x) => mark'[x] # "free" /\ owner'[x] = Nil
    PROVE  Phase'
  <1>1. ASSUME Sweeping PROVE Sweeping'
    BY <1>1 DEF TypeOK, Sweeping, Alive, IsOpen
  <1>2. ASSUME Finalizing PROVE Finalizing'
    BY <1>2 DEF TypeOK, Finalizing, Alive
  <1>3. QED
    BY <1>1, <1>2 DEF Phase

LEMMA SetTableStep ==
    ASSUME GInv, NEW h \in Object, Kind[h] = "table", Live(h), NEW v1 \in Value, NEW v2 \in Value,
           LiveRef(v1), LiveRef(v2), SetTable(h, v1, v2)
    PROVE  GInv'
  <1>1. TypeOK /\ Shape /\ RefsLive /\ RootsLive /\ Colors /\ Phase
    BY DEF GInv
  <1>2. /\ UNCHANGED <<gray, owner, slot, stack, running, fin, called, currentwhite, gcstate,
                       atomically, full, weak, sweepgc, tmudata, world>>
        /\ atomically = "no"
        /\ key' = [key EXCEPT ![h] = v1] /\ val' = [val EXCEPT ![h] = v2]
        /\ barrierback(h, {v1, v2})
    BY Instructions DEF SetTable
  <1> DEFINE back == IsBlack(h) /\ (IsWhite(v1) \/ IsWhite(v2))
  <1>3. /\ mark' = IF back THEN [mark EXCEPT ![h] = "gray"] ELSE mark
        /\ grayagain' = IF back THEN grayagain \cup {h} ELSE grayagain
    BY <1>2 DEF barrierback
  <1>4. back => mark[h] = "black"
    BY DEF IsBlack
  <1>5. mark[h] = "black" /\ ~back => ~IsWhite(v1) /\ ~IsWhite(v2)
    BY DEF IsBlack
  <1>6. /\ \A x \in Object : mark'[x] = IF x = h /\ back THEN "gray" ELSE mark[x]
        /\ mark' \in [Object -> {"free", "w0", "w1", "gray", "black"}]
        /\ \A x \in Object : key'[x] = (IF x = h THEN v1 ELSE key[x])
        /\ \A x \in Object : val'[x] = (IF x = h THEN v2 ELSE val[x])
    BY <1>1, <1>2, <1>3 DEF TypeOK
  <1> HIDE DEF back
  <1>7. TypeOK'
    BY <1>1, <1>2, <1>3, <1>6, Constants DEF TypeOK, Value
  <1>8. /\ currentwhite \in {"w0", "w1"} /\ otherwhite \in {"w0", "w1"} /\ otherwhite # currentwhite
        /\ otherwhite' = otherwhite
    BY <1>1, <1>2 DEF TypeOK, otherwhite, Whites
  <1>9. Shape'
    BY <1>1, <1>2, <1>6, <1>4, Constants DEF Shape, TypeOK, Alive, IsOpen, Live
  <1>10. \A x \in Object : (Live(x)' <=> Live(x)) /\ (IsMarked(x)' <=> IsMarked(x))
    BY <1>4, <1>6, <1>8 DEF Live, IsMarked
  <1>11. \A v \in Object \cup {Nil} : (LiveRef(v)' <=> LiveRef(v)) /\ (MarkedRef(v)' <=> MarkedRef(v))
    BY <1>10 DEF LiveRef, MarkedRef
  <1>12. RefsLive'
    BY <1>1, <1>2, <1>6, <1>10, <1>11, Constants DEF RefsLive, Shape, TypeOK, IsOpen, Value
  <1>13. RootsLive' /\ Colors'
    BY <1>1, <1>2, <1>4, <1>6, <1>10, Constants DEF RootsLive, Colors, IsOpen, TypeOK, Shape
  <1>14. Phase'
    <2>1. gcstate = "propagate" => Propagating'
      <3>1. SUFFICES ASSUME gcstate = "propagate", Propagating PROVE Propagating'
        BY <1>1 DEF Phase
      <3>2. \A x \in Object : mark'[x] # otherwhite'
        BY <1>6, <1>8, <3>1 DEF Propagating
      <3>3. Lists'
        BY <1>1, <1>2, <1>3, <1>4, <1>10, <3>1 DEF Propagating, Lists, TypeOK, IsWeak, IsMarked
      <3>4. mark'[h] = "black" => MarkedRef(v1) /\ MarkedRef(v2)
        BY <1>1, <1>5, <1>6, <3>1 DEF Propagating, MarkedRef, IsMarked, IsWhite, Whites, LiveRef, Live,
           otherwhite, Value, TypeOK
      <3>5. Tricolor'
        <4>1. ASSUME NEW x \in Object, mark'[x] = "gray"
              PROVE  (x \in gray \cup grayagain \cup weak \/ Kind[x] = "string" \/ IsOpen(x))'
          BY <4>1, <1>2, <1>3, <1>6, <3>1 DEF Propagating, Tricolor, IsOpen
        <4>2. ASSUME NEW x \in Object, mark'[x] = "black" PROVE (x \in tmudata \/ Done(x))'
          <5>1. mark[x] = "black" /\ (x \in tmudata \/ Done(x))
            BY <4>2, <1>2, <1>6, <3>1 DEF Propagating, Tricolor
          <5>2. Done(x) => Done(x)'
            BY <5>1, <4>2, <1>1, <1>2, <1>6, <1>11, <3>4, Constants DEF Done, Colors, IsOpen, TypeOK, Value
          <5>3. QED
            BY <5>1, <5>2, <1>2
        <4>3. QED
          BY <4>1, <4>2 DEF Tricolor
      <3>6. QED
        BY <1>1, <1>2, <1>10, <3>1, <3>2, <3>3, <3>5, Constants DEF Propagating, TypeOK
    <2>2. gcstate # "propagate" => Phase'
      BY <1>1, <1>2, <1>4, <1>6, <1>8, SweepUndisturbed DEF Alive, IsOpen
    <2>3. QED
      BY <1>1, <1>2, <2>1, <2>2 DEF Phase
  <1>15. QED
    BY <1>7, <1>9, <1>12, <1>13, <1>14 DEF GInv

\* A value other than a table's is stored into o, with the forward barrier.
LEMMA StoreStep ==
    ASSUME GInv, NEW o \in Object, Live(o), ~IsOpen(o), NEW v \in Value, LiveRef(v),
           Kind[o] = "upval" \/ (Kind[o] = "userdata" /\ v # Nil /\ Kind[v] = "table"),
           UNCHANGED <<grayagain, key, owner, slot, stack, running, fin, called, currentwhite,
                       gcstate, atomically, full, weak, sweepgc, tmudata, world>>,
           atomically = "no", val' = [val EXCEPT ![o] = v], barrierf(o, v)
    PROVE  GInv'
  <1>1. TypeOK /\ Shape /\ RefsLive /\ RootsLive /\ Colors /\ Phase
    BY DEF GInv
  <1>2. v \in Object \cup {Nil}
    BY DEF Value
  <1>3. /\ mark' \in [Object -> {"free", "w0", "w1", "gray", "black"}]
        /\ gray' \subseteq Object
        /\ gcstate # "propagate" =>
              /\ gray' = gray
              /\ \A x \in Object : mark'[x] # mark[x] => mark[x] = "black" /\ mark'[x] = currentwhite
        /\ gcstate = "propagate" =>
              /\ GrowsFrom(mark, gray)
              /\ mark[o] = "black" => v = Nil \/ mark'[v] \in {"gray", "black"}
    BY <1>2, ForwardBarrier
  <1>4. \A x \in Object : val'[x] = IF x = o THEN v ELSE val[x]
    BY <1>1 DEF TypeOK
  <1>5. /\ currentwhite \in {"w0", "w1"} /\ otherwhite \in {"w0", "w1"} /\ otherwhite # currentwhite
        /\ otherwhite' = otherwhite
    BY <1>1 DEF TypeOK, otherwhite, Whites
  <1>6. \A x \in Object : mark'[x] # mark[x] => Live(x) /\ mark'[x] # "free" /\ mark'[x] # otherwhite
    BY <1>3, <1>5 DEF GrowsFrom, Live
  <1>7. \A x \in Object : (Live(x)' <=> Live(x)) /\ (Alive(x)' <=> Alive(x))
    BY <1>5, <1>6 DEF Live, Alive
  <1>8. \A w \in Object \cup {Nil} : LiveRef(w)' <=> LiveRef(w)
    BY <1>7 DEF LiveRef
  <1>9. TypeOK'
    BY <1>1, <1>2, <1>3, <1>4 DEF TypeOK
  <1>10. Shape'
    BY <1>1, <1>2, <1>4, <1>7, Constants DEF Shape, IsOpen, TypeOK, Live, Alive
  <1>11. RefsLive'
    BY <1>1, <1>2, <1>4, <1>7, <1>8, Constants DEF RefsLive, Shape, TypeOK, IsOpen, Value
  <1>12. RootsLive' /\ Colors'
    <2>1. RootsLive'
      BY <1>1, <1>7, Constants DEF RootsLive, TypeOK
    <2>2. ASSUME NEW x \in Object
          PROVE  /\ mark'[x] = "black" => Kind[x] # "thread" /\ Kind[x] # "string" /\ ~IsOpen(x)
                 /\ mark'[x] = "gray" => Kind[x] # "userdata" /\ (Kind[x] = "upval" => IsOpen(x))
      <3>1. mark'[x] = mark[x] \/ mark'[x] = currentwhite \/ mark'[x] = markedcolor(x)
        BY <1>3 DEF GrowsFrom
      <3>2. mark'[x] \in {"gray", "black"} => mark'[x] = mark[x] \/ mark'[x] = markedcolor(x)
        BY <3>1, <1>5
      <3>3. /\ markedcolor(x) = "black" => Kind[x] = "userdata" \/ (Kind[x] = "upval" /\ ~IsOpen(x))
            /\ markedcolor(x) = "gray" => Kind[x] # "userdata" /\ (Kind[x] = "upval" => IsOpen(x))
        BY DEF markedcolor
      <3>4. Kind[x] = "userdata" => ~IsOpen(x)
        BY <1>1 DEF Shape
      <3>5. QED
        BY <3>2, <3>3, <3>4, <1>1 DEF Colors
    <2>3. QED
      BY <2>1, <2>2 DEF Colors, IsOpen
  <1>13. Phase'
    <2>1. gcstate = "propagate" => Propagating'
      <3>1. SUFFICES ASSUME gcstate = "propagate", Propagating PROVE Propagating'
        BY <1>1 DEF Phase
      <3>2. \A x \in Object : IsMarked(x) => IsMarked(x)'
        BY <1>3, <1>5, <3>1 DEF GrowsFrom, IsMarked
      <3>3. \A w \in Object \cup {Nil} : MarkedRef(w) => MarkedRef(w)'
        BY <3>2 DEF MarkedRef
      <3>4. \A x \in Object : mark'[x] # otherwhite'
        BY <1>5, <1>6, <3>1 DEF Propagating
      <3>5. Lists'
        <4>1. \A x \in gray' : IsMarked(x)' /\ Kind[x] \in {"table", "closure", "thread"}
          BY <1>1, <1>3, <1>5, <3>1, <3>2 DEF Propagating, Lists, GrowsFrom, TypeOK, IsMarked, markedcolor
        <4>2. \A x \in grayagain \cup weak : IsMarked(x)'
          BY <1>1, <3>1, <3>2 DEF Propagating, Lists, TypeOK
        <4>3. ASSUME NEW x \in Object, IsMarked(x)', IsWeak(x) PROVE x \in gray' \cup weak
          <5>1. CASE mark'[x] = mark[x]
            BY <5>1, <4>3, <1>3, <3>1 DEF Propagating, Lists, GrowsFrom, IsMarked
          <5>2. CASE mark'[x] # mark[x]
            BY <5>2, <4>3, <1>3, <3>1 DEF GrowsFrom, IsWeak
          <5>3. QED
            BY <5>1, <5>2
        <4>4. QED
          BY <4>1, <4>2, <4>3, <3>1 DEF Propagating, Lists, IsWeak
      <3>6. Tricolor'
        <4>1. ASSUME NEW x \in Object, mark'[x] = "gray"
              PROVE  (x \in gray \cup grayagain \cup weak \/ Kind[x] = "string" \/ IsOpen(x))'
          BY <4>1, <1>3, <3>1, Constants DEF Propagating, Tricolor, GrowsFrom, markedcolor, IsOpen
        <4>2. ASSUME NEW x \in Object, mark'[x] = "black" PROVE (x \in tmudata \/ Done(x))'
          <5>1. CASE mark[x] = "black"
            <6>1. x \in tmudata \/ Done(x)
              BY <5>1, <3>1 DEF Propagating, Tricolor
            <6>2. x = o => MarkedRef(v)'
              BY <1>3, <3>1, <5>1 DEF MarkedRef, IsMarked
            <6>3. Done(x) => Done(x)'
              BY <6>2, <5>1, <1>1, <1>4, <3>3, Constants DEF Done, Colors, IsOpen, TypeOK, Value
            <6>4. QED
              BY <6>1, <6>3
          <5>2. CASE mark[x] # "black"
            <6>1. /\ mark[x] = currentwhite /\ mark'[x] = markedcolor(x)
                  /\ Kind[x] = "userdata" => val[x] = Nil \/ mark'[val[x]] \in {"gray", "black"}
                  /\ Kind[x] = "upval" => ValueOf(x) = Nil \/ mark'[ValueOf(x)] \in {"gray", "black"}
              BY <4>2, <5>2, <1>3, <3>1 DEF GrowsFrom
            <6>2. Kind[x] = "userdata" \/ (Kind[x] = "upval" /\ ~IsOpen(x))
              BY <6>1, <4>2 DEF markedcolor
            <6>3. x # o \/ val'[x] = Nil \/ mark'[val'[x]] \in {"gray", "black"}
              <7>1. x = o => mark'[x] = mark[x]
                <8>1. ASSUME x = o PROVE mark'[x] = mark[x]
                  BY <8>1, <5>2 DEF barrierf, IsBlack
                <8>2. QED
                  BY <8>1
              <7>2. QED
                BY <7>1, <6>1, <4>2, <5>2
            <6>4. MarkedRef(val[x])' /\ key'[x] = Nil /\ ~IsOpen(x)'
              BY <6>1, <6>2, <6>3, <1>1, <1>4, Constants DEF MarkedRef, IsMarked, ValueOf, Shape, IsOpen
            <6>5. QED
              BY <6>2, <6>4 DEF Done, MarkedRef
          <5>3. QED
            BY <5>1, <5>2
        <4>3. QED
          BY <4>1, <4>2 DEF Tricolor
      <3>7. QED
        BY <1>1, <3>1, <3>2, <3>4, <3>5, <3>6, Constants DEF Propagating, TypeOK
    <2>2. gcstate # "propagate" => Phase'
      BY <1>1, <1>3, <1>5, <1>7, SweepUndisturbed DEF Alive, IsOpen
    <2>3. QED
      BY <1>1, <2>1, <2>2 DEF Phase
  <1>14. QED
    BY <1>9, <1>10, <1>11, <1>12, <1>13 DEF GInv

LEMMA SetMetatableStep == ASSUME GInv, SetMetatable PROVE GInv'
  <1>1. PICK i \in Slots, j \in Slots :
           /\ Instruction
           /\ Is(Reg(i), "userdata") /\ Is(Reg(j), "table")
           /\ val' = [val EXCEPT ![Reg(i)] = Reg(j)] /\ barrierf(Reg(i), Reg(j))
           /\ UNCHANGED <<grayagain, key, owner, slot, stack, running>>
    BY DEF SetMetatable
  <1>2. /\ Reg(i) \in Object /\ Kind[Reg(i)] = "userdata" /\ Live(Reg(i))
        /\ Reg(j) \in Value /\ LiveRef(Reg(j)) /\ Reg(j) # Nil /\ Kind[Reg(j)] = "table"
    BY <1>1, Registers DEF Is, LiveRef, Value
  <1>3. ~IsOpen(Reg(i))
    BY <1>2 DEF GInv, Shape
  <1>4. QED
    BY <1>1, <1>2, <1>3, Instructions, StoreStep

LEMMA SetUpvalStep == ASSUME GInv, SetUpval PROVE GInv'
  <1>1. PICK i \in Slots, j \in Slots :
           /\ Instruction
           /\ Is(Reg(i), "closure")
           /\ SetOpen(val[Reg(i)], Reg(j)) \/ SetClosed(val[Reg(i)], Reg(j))
           /\ UNCHANGED <<grayagain, key, owner, slot, running>>
    BY DEF SetUpval
  <1> DEFINE u == val[Reg(i)]
             v == Reg(j)
  <1>2. /\ Reg(i) \in Object /\ Kind[Reg(i)] = "closure" /\ Live(Reg(i))
        /\ v \in Value /\ LiveRef(v)
    BY <1>1, Registers DEF Is, LiveRef, Value
  <1>3. u \in Object /\ Kind[u] = "upval" /\ Live(u)
    BY <1>2, Constants DEF GInv, Shape, RefsLive, Live, Alive, LiveRef, IsOpen
  <1>4. UNCHANGED <<fin, called, currentwhite, gcstate, atomically, full, weak, sweepgc, tmudata, world>>
        /\ atomically = "no"
    BY <1>1, Instructions
  <1>5. ASSUME SetClosed(u, v) PROVE GInv'
    BY <1>1, <1>2, <1>3, <1>4, <1>5, StoreStep DEF SetClosed
  <1>6. ASSUME SetOpen(u, v) PROVE GInv'
    <2>1. TypeOK /\ Shape /\ RefsLive /\ RootsLive /\ Colors /\ Phase
      BY DEF GInv
    <2>2. /\ IsOpen(u) /\ stack' = [stack EXCEPT ![owner[u]][slot[u]] = v]
          /\ UNCHANGED <<val, mark, gray, grayagain, key, owner, slot, running>>
      BY <1>1, <1>6 DEF SetOpen
    <2>3. /\ owner[u] \in Of("thread") /\ slot[u] \in Slot /\ Alive(owner[u])
          /\ stack \in [Of("thread") -> [Slot -> Value]]
      BY <2>1, <2>2, <1>3 DEF TypeOK, Shape, IsOpen
    <2> HIDE DEF u, v
    <2>4. /\ stack' \in [Of("thread") -> [Slot -> Value]]
          /\ \A t \in Of("thread"), k \in Slot :
                stack'[t][k] = IF t = owner[u] /\ k = slot[u] THEN v ELSE stack[t][k]
      BY <2>2, <2>3, <1>2, Write
    <2>5. TypeOK'
      BY <2>1, <2>2, <2>4, <1>4 DEF TypeOK
    <2>6. Shape'
      BY <2>1, <2>2, <2>3, <2>4, Constants DEF Shape, TypeOK, Alive, IsOpen
    <2>7. RefsLive'
      <3>1. \A x : (Live(x)' <=> Live(x)) /\ (LiveRef(x)' <=> LiveRef(x))
        BY <2>2, <1>4 DEF Live, LiveRef, otherwhite
      <3>2. \A t \in Of("thread"), k \in Slot : LiveRef(stack[t][k]) => LiveRef(stack'[t][k])
        BY <2>4, <1>2
      <3>3. \A o \in Object : /\ Kind[o] = "thread" => o \in Of("thread")
                              /\ IsOpen(o) => owner[o] \in Of("thread") /\ slot[o] \in Slot
        BY <2>1, Constants DEF Shape, TypeOK, IsOpen
      <3>4. QED
        BY <2>1, <2>2, <3>1, <3>2, <3>3 DEF RefsLive, IsOpen
    <2>8. RootsLive' /\ Colors'
      BY <2>1, <2>2, <1>4 DEF RootsLive, Live, otherwhite, Colors, IsOpen
    <2>9. Phase'
      <3>1. gcstate = "propagate" /\ Tricolor => Tricolor'
        BY <2>1, <2>2, <1>4 DEF Tricolor, Done, Colors, MarkedRef, IsMarked, IsOpen
      <3>2. gcstate = "propagate" => Propagating'
        BY <3>1, <2>1, <2>2, <1>4 DEF Phase, Propagating, Lists, IsMarked, otherwhite
      <3>3. gcstate # "propagate" => (Sweeping => Sweeping') /\ (Finalizing => Finalizing')
        BY <2>2, <1>4 DEF Sweeping, Finalizing, Alive, IsOpen
      <3>4. QED
        BY <3>2, <3>3, <2>1, <1>4 DEF Phase
    <2>10. QED
      BY <2>5, <2>6, <2>7, <2>8, <2>9 DEF GInv
  <1>7. QED
    BY <1>1, <1>5, <1>6

LEMMA CloseStep == ASSUME GInv, Close PROVE GInv'
  <1>1. TypeOK /\ Shape /\ RefsLive /\ RootsLive /\ Colors /\ Phase
    BY DEF GInv
  <1>2. PICK u \in OpenUpvals(running) :
           /\ Instruction
           /\ owner' = [owner EXCEPT ![u] = Nil] /\ slot' = [slot EXCEPT ![u] = 0]
           /\ IF IsDead(u) THEN mark' = [mark EXCEPT ![u] = "free"] /\ UNCHANGED <<val, gray>>
              ELSE val' = [val EXCEPT ![u] = ValueOf(u)] /\ luaC_linkupval(u)
           /\ SetReg(slot[u], Nil)
           /\ UNCHANGED <<grayagain, key, running>>
    BY DEF Close
  <1>3. /\ UNCHANGED <<grayagain, key, running, fin, called, currentwhite, gcstate,
                       atomically, full, weak, sweepgc, tmudata, world>>
        /\ atomically = "no"
    BY <1>2, Instructions
  <1>4. /\ u \in Object /\ Kind[u] = "upval" /\ owner[u] = running /\ running # Nil /\ IsOpen(u)
        /\ running \in Of("thread") /\ slot[u] \in Slot /\ Alive(u)
    BY <1>1, <1>2, Constants DEF OpenUpvals, TypeOK, Shape, IsOpen
  <1> DEFINE v == ValueOf(u)
  <1>5. v = stack[running][slot[u]] /\ v \in Value
    BY <1>1, <1>4 DEF ValueOf, TypeOK
  <1>6. LiveRef(v)
    BY <1>1, <1>4, <1>5, Constants DEF RefsLive, RootsLive
  <1> HIDE DEF v
  <1>7. /\ currentwhite \in {"w0", "w1"} /\ otherwhite \in {"w0", "w1"} /\ otherwhite # currentwhite
        /\ otherwhite' = otherwhite
    BY <1>1, <1>3 DEF TypeOK, otherwhite, Whites
  <1>8. /\ stack' \in [Of("thread") -> [Slot -> Value]]
        /\ \A t \in Of("thread"), k \in Slot :
              stack'[t][k] = IF t = running /\ k = slot[u] THEN Nil ELSE stack[t][k]
    <2>1. stack' = [stack EXCEPT ![running][slot[u]] = Nil] /\ stack \in [Of("thread") -> [Slot -> Value]]
      BY <1>1, <1>2 DEF SetReg, TypeOK
    <2>2. QED
      BY <2>1, <1>4, Constants, Write
  <1>9. \A x \in Object : /\ owner'[x] = (IF x = u THEN Nil ELSE owner[x])
                          /\ slot'[x] = (IF x = u THEN 0 ELSE slot[x])
    BY <1>1, <1>2 DEF TypeOK
  <1>10. owner' \in [Object -> Of("thread") \cup {Nil}] /\ slot' \in [Object -> 0 .. StackSize]
    <2>1. 0 \in 0 .. StackSize
      BY CollectorAssumption
    <2>2. QED
      BY <1>1, <1>2, <2>1 DEF TypeOK
  <1>11. CASE IsDead(u)
    <2>1. /\ mark' \in [Object -> {"free", "w0", "w1", "gray", "black"}]
          /\ \A x \in Object : mark'[x] = IF x = u THEN "free" ELSE mark[x]
          /\ val' = val /\ gray' = gray
      BY <1>1, <1>2, <1>11 DEF TypeOK
    <2>2. mark[u] = otherwhite /\ ~Live(u) /\ gcstate # "propagate"
      BY <1>1, <1>4, <1>11 DEF IsDead, Live, Phase, Propagating
    <2>3. TypeOK'
      BY <1>1, <1>3, <1>8, <1>10, <2>1 DEF TypeOK
    <2>4. key[u] = Nil /\ val[u] = Nil
      BY <1>1, <1>4 DEF Shape
    <2>5. \A x \in Object : Live(x)' <=> Live(x)
      BY <1>7, <2>1, <2>2 DEF Live
    <2>6. Shape'
      BY <1>1, <1>3, <1>4, <1>8, <1>9, <2>1, <2>4, Constants DEF Shape, TypeOK, Alive, IsOpen
    <2>7. \A w \in Object \cup {Nil} : LiveRef(w)' <=> LiveRef(w)
      BY <2>5 DEF LiveRef
    <2>8. RefsLive'
      <3>1. ASSUME NEW x \in Object, Live(x)
            PROVE  /\ x # u /\ key'[x] = key[x] /\ val'[x] = val[x]
                   /\ owner'[x] = owner[x] /\ slot'[x] = slot[x] /\ (IsOpen(x)' <=> IsOpen(x))
                   /\ IsOpen(x) => owner[x] \in Of("thread") /\ slot[x] \in Slot
        BY <3>1, <1>1, <1>3, <1>9, <2>1, <2>2 DEF IsOpen, Shape, TypeOK
      <3>2. ASSUME NEW x \in Object, Live(x)
            PROVE  /\ LiveRef(key[x]) /\ (~IsOpen(x) => LiveRef(val[x]))
                   /\ IsOpen(x) => LiveRef(stack'[owner[x]][slot[x]])
                   /\ Kind[x] = "thread" => \A k \in Slot : LiveRef(stack'[x][k])
        <4>1. LiveRef(Nil)
          BY DEF LiveRef
        <4>2. QED
          BY <3>1, <3>2, <4>1, <1>1, <1>8, Constants DEF RefsLive
      <3>3. /\ \A x \in Object : key[x] \in Object \cup {Nil} /\ val[x] \in Object \cup {Nil}
            /\ \A t \in Of("thread"), k \in Slot : stack'[t][k] \in Object \cup {Nil}
        BY <1>1, <1>8 DEF TypeOK, Value
      <3>4. QED
        BY <3>1, <3>2, <3>3, <2>5, <2>7, Constants DEF RefsLive
    <2>9. RootsLive' /\ Colors'
      BY <1>1, <1>3, <1>9, <2>1, <2>5, Constants DEF RootsLive, Colors, IsOpen, TypeOK
    <2>10. Phase'
      BY <1>1, <1>3, <1>4, <1>9, <2>1, <2>2, SweepUndisturbed DEF Alive, IsOpen
    <2>11. QED
      BY <2>3, <2>6, <2>8, <2>9, <2>10 DEF GInv
  <1>12. CASE ~IsDead(u)
    <2> DEFINE m == [mark EXCEPT ![u] = "black"]
    <2>1. val' = [val EXCEPT ![u] = v] /\ luaC_linkupval(u)
      BY <1>2, <1>12 DEF v
    <2>2. Live(u) /\ mark[u] # "black" /\ (mark[u] # "gray" => mark[u] = currentwhite)
      BY <1>1, <1>4, <1>7, <1>12 DEF IsDead, Live, Alive, Colors, TypeOK
    <2>3. /\ mark' \in [Object -> {"free", "w0", "w1", "gray", "black"}]
          /\ gray' \subseteq Object
          /\ gcstate # "propagate" =>
                /\ gray' = gray
                /\ \A x \in Object : mark'[x] = IF x = u THEN currentwhite ELSE mark[x]
          /\ gcstate = "propagate" /\ mark[u] = "gray" =>
                GrowsFrom(m, gray) /\ (v = Nil \/ mark'[v] \in {"gray", "black"})
          /\ gcstate = "propagate" /\ mark[u] # "gray" => mark' = mark /\ gray' = gray
      <3>1. CASE mark[u] # "gray"
        <4>1. mark' = mark /\ gray' = gray
          BY <2>1, <3>1 DEF luaC_linkupval
        <4>2. QED
          BY <4>1, <1>1, <2>2, <3>1 DEF TypeOK
      <3>2. CASE mark[u] = "gray" /\ gcstate # "propagate"
        <4>1. mark' = [mark EXCEPT ![u] = currentwhite] /\ gray' = gray
          BY <2>1, <3>2 DEF luaC_linkupval
        <4>2. QED
          BY <4>1, <1>1, <1>7, <3>2 DEF TypeOK
      <3>3. CASE mark[u] = "gray" /\ gcstate = "propagate"
        <4>1. reallymarkobject(m, {v}, gray)
          BY <2>1, <3>3 DEF luaC_linkupval, v
        <4>2. /\ m \in [Object -> {"free", "w0", "w1", "gray", "black"}]
              /\ \A x \in Object : m[x] # otherwhite /\ mark[x] # otherwhite
                                   /\ (m[x] = "free" <=> mark[x] = "free")
              /\ gray \in SUBSET Object
          BY <1>1, <1>7, <3>3 DEF TypeOK, Phase, Propagating
        <4>3. {v} \in SUBSET (Object \cup {Nil}) /\ \A w \in {v} : LiveRef(w)
          BY <1>5, <1>6 DEF Value
        <4> HIDE DEF m
        <4>4. GrowsFrom(m, gray) /\ \A w \in {v} : w = Nil \/ mark'[w] \in {"gray", "black"}
          BY <4>1, <4>2, <4>3, <1>1, MarkingAlive
        <4>5. QED
          BY <4>4, <3>3 DEF GrowsFrom
      <3>4. QED
        BY <3>1, <3>2, <3>3
    <2>4. \A x \in Object : m[x] = IF x = u THEN "black" ELSE mark[x]
      BY <1>1, <1>4 DEF TypeOK
    <2> HIDE DEF m
    <2>5. \A x \in Object : val'[x] = IF x = u THEN v ELSE val[x]
      BY <1>1, <2>1 DEF TypeOK
    <2>6. \A x \in Object : mark'[x] # mark[x] => Live(x) /\ mark'[x] # "free" /\ mark'[x] # otherwhite
      BY <1>4, <1>7, <2>2, <2>3, <2>4 DEF GrowsFrom, Live
    <2>7. \A x \in Object : (Live(x)' <=> Live(x)) /\ (Alive(x)' <=> Alive(x))
      BY <1>7, <2>6 DEF Live, Alive
    <2>8. \A w \in Object \cup {Nil} : LiveRef(w)' <=> LiveRef(w)
      BY <2>7 DEF LiveRef
    <2>9. TypeOK'
      BY <1>1, <1>3, <1>5, <1>8, <1>10, <2>1, <2>3 DEF TypeOK, Value
    <2>10. Shape'
      BY <1>1, <1>3, <1>4, <1>5, <1>8, <1>9, <2>5, <2>7, Constants DEF Shape, IsOpen, TypeOK
    <2>11. RefsLive'
      <3> SUFFICES ASSUME NEW x \in Object, Live(x)'
                   PROVE  /\ LiveRef(key[x])'
                          /\ IF IsOpen(x)' THEN LiveRef(stack[owner[x]][slot[x]])' ELSE LiveRef(val[x])'
                          /\ Kind[x] = "thread" => \A i \in Slot : LiveRef(stack[x][i])'
        BY DEF RefsLive
      <3>1. LiveRef(Nil)'
        BY DEF LiveRef
      <3>2. CASE x = u
        <4>1. val'[x] = v /\ ~IsOpen(x)' /\ Kind[x] # "thread" /\ key'[x] = Nil
          BY <3>2, <1>1, <1>3, <1>4, <1>9, <2>5, Constants DEF IsOpen, Shape
        <4>2. LiveRef(v) => LiveRef(val[x])'
          BY <4>1, <1>5, <2>7 DEF LiveRef, Value
        <4>3. QED
          BY <3>1, <4>1, <4>2, <1>6 DEF LiveRef
      <3>3. CASE x # u
        <4>1. /\ Live(x) /\ LiveRef(key[x]) /\ key'[x] = key[x] /\ key[x] \in Object \cup {Nil}
              /\ val'[x] = val[x] /\ val[x] \in Object \cup {Nil}
              /\ owner'[x] = owner[x] /\ slot'[x] = slot[x] /\ (IsOpen(x)' <=> IsOpen(x))
          BY <3>3, <1>1, <1>3, <1>9, <2>5, <2>7 DEF RefsLive, TypeOK, IsOpen
        <4>2. LiveRef(key[x])' /\ (~IsOpen(x) => LiveRef(val[x])')
          BY <4>1, <1>1, <2>8 DEF RefsLive, LiveRef
        <4>3. ASSUME NEW t \in Of("thread"), NEW k \in Slot, LiveRef(stack[t][k]) PROVE LiveRef(stack[t][k])'
          <5>1. stack[t][k] \in Object \cup {Nil}
            BY <1>1 DEF TypeOK, Value
          <5>2. stack'[t][k] = Nil \/ stack'[t][k] = stack[t][k]
            BY <1>8
          <5>3. QED
            BY <5>1, <5>2, <4>3, <2>7 DEF LiveRef
        <4>4. IsOpen(x) => /\ owner[x] \in Of("thread") /\ slot[x] \in Slot
                           /\ LiveRef(stack[owner[x]][slot[x]])
          BY <4>1, <1>1 DEF TypeOK, RefsLive, Shape, IsOpen
        <4>5. IsOpen(x) => LiveRef(stack[owner[x]][slot[x]])'
          BY <4>1, <4>3, <4>4
        <4>6. Kind[x] = "thread" => \A i \in Slot : LiveRef(stack[x][i])'
          BY <4>1, <4>3, <1>1, Constants DEF RefsLive
        <4>7. QED
          BY <4>1, <4>2, <4>5, <4>6
      <3>4. QED
        BY <3>2, <3>3
    <2>12. RootsLive'
      BY <1>1, <1>3, <2>7, Constants DEF RootsLive, TypeOK
    <2>13. Colors'
      <3> SUFFICES ASSUME NEW x \in Object
                   PROVE  /\ mark'[x] = "black" => Kind[x] # "thread" /\ Kind[x] # "string" /\ ~IsOpen(x)'
                          /\ mark'[x] = "gray" => Kind[x] # "userdata" /\ (Kind[x] = "upval" => IsOpen(x)')
        BY DEF Colors
      <3>1. CASE x = u
        BY <3>1, <1>4, <1>7, <1>9, <2>2, <2>3, <2>4 DEF IsOpen, GrowsFrom
      <3>2. CASE x # u
        <4>1. IsOpen(x)' <=> IsOpen(x)
          BY <3>2, <1>9 DEF IsOpen
        <4>2. mark'[x] = mark[x] \/ mark'[x] = markedcolor(x)
          BY <3>2, <2>3, <2>4 DEF GrowsFrom
        <4>3. /\ markedcolor(x) = "black" => Kind[x] = "userdata" \/ (Kind[x] = "upval" /\ ~IsOpen(x))
              /\ markedcolor(x) = "gray" => Kind[x] # "userdata" /\ (Kind[x] = "upval" => IsOpen(x))
          BY DEF markedcolor
        <4>4. Kind[x] = "userdata" => ~IsOpen(x)
          BY <1>1 DEF Shape
        <4>5. QED
          BY <4>1, <4>2, <4>3, <4>4, <1>1 DEF Colors
      <3>3. QED
        BY <3>1, <3>2
    <2>14. ASSUME gcstate = "propagate" PROVE Propagating'
      <3>1. Propagating
        BY <1>1, <2>14 DEF Phase
      <3>2. \A x \in Object : IsMarked(x) => IsMarked(x)'
        BY <1>7, <2>3, <2>4, <2>14 DEF GrowsFrom, IsMarked
      <3>3. \A w \in Object \cup {Nil} : MarkedRef(w) => MarkedRef(w)'
        BY <3>2 DEF MarkedRef
      <3>4. \A x \in Object : mark'[x] # otherwhite'
        BY <1>7, <2>6, <3>1 DEF Propagating
      <3>5. Lists'
        <4>1. \A x \in gray' : IsMarked(x)' /\ Kind[x] \in {"table", "closure", "thread"}
          BY <1>1, <1>7, <2>3, <2>4, <2>14, <3>1, <3>2 DEF Propagating, Lists, GrowsFrom, TypeOK, IsMarked, markedcolor
        <4>2. \A x \in grayagain \cup weak : IsMarked(x)'
          BY <1>1, <3>1, <3>2 DEF Propagating, Lists, TypeOK
        <4>3. ASSUME NEW x \in Object, IsMarked(x)', IsWeak(x) PROVE x \in gray' \cup weak
          <5>1. x # u
            BY <4>3, <1>4, Constants
          <5>2. CASE mark'[x] = mark[x]
            BY <5>2, <4>3, <2>3, <2>14, <3>1 DEF Propagating, Lists, GrowsFrom, IsMarked
          <5>3. CASE mark'[x] # mark[x]
            BY <5>1, <5>3, <4>3, <2>3, <2>4, <2>14 DEF GrowsFrom, IsWeak
          <5>4. QED
            BY <5>2, <5>3
        <4>4. QED
          BY <4>1, <4>2, <4>3, <1>3, <3>1 DEF Propagating, Lists, IsWeak
      <3>6. Tricolor'
        <4>1. ASSUME NEW x \in Object, mark'[x] = "gray"
              PROVE  (x \in gray \cup grayagain \cup weak \/ Kind[x] = "string" \/ IsOpen(x))'
          <5>1. x # u
            BY <4>1, <1>7, <2>2, <2>3, <2>4, <2>14 DEF GrowsFrom
          <5>2. QED
            BY <5>1, <4>1, <1>3, <1>9, <2>3, <2>4, <2>14, <3>1, Constants
               DEF Propagating, Tricolor, GrowsFrom, markedcolor, IsOpen
        <4>2. ASSUME NEW x \in Object, mark'[x] = "black" PROVE (x \in tmudata \/ Done(x))'
          <5>1. CASE mark[x] = "black"
            <6>1. x # u /\ (x \in tmudata \/ Done(x))
              BY <5>1, <1>3, <2>2, <3>1 DEF Propagating, Tricolor
            <6>2. Done(x) => Done(x)'
              BY <6>1, <5>1, <1>1, <1>3, <1>9, <2>5, <3>3, Constants DEF Done, Colors, IsOpen, TypeOK, Value
            <6>3. QED
              BY <6>1, <6>2, <1>3
          <5>2. CASE x = u
            <6>1. v = Nil \/ mark'[v] \in {"gray", "black"}
              BY <5>2, <4>2, <2>2, <2>3, <2>14
            <6>2. val'[x] = v /\ key'[x] = Nil /\ owner'[x] = Nil
              BY <5>2, <1>1, <1>3, <1>4, <1>9, <2>5 DEF Shape
            <6>3. MarkedRef(val[x])' /\ MarkedRef(key[x])' /\ ~IsOpen(x)'
              BY <6>1, <6>2 DEF MarkedRef, IsMarked, IsOpen
            <6>4. QED
              BY <6>3, <5>2, <1>4 DEF Done
          <5>3. CASE mark[x] # "black" /\ x # u
            <6>1. /\ mark[x] = currentwhite /\ mark'[x] = markedcolor(x)
                  /\ Kind[x] = "userdata" => val[x] = Nil \/ mark'[val[x]] \in {"gray", "black"}
                  /\ Kind[x] = "upval" => ValueOf(x) = Nil \/ mark'[ValueOf(x)] \in {"gray", "black"}
              BY <4>2, <5>3, <2>3, <2>4, <2>14 DEF GrowsFrom
            <6>2. Kind[x] = "userdata" \/ (Kind[x] = "upval" /\ ~IsOpen(x))
              BY <6>1, <4>2 DEF markedcolor
            <6>3. MarkedRef(val[x])' /\ key'[x] = Nil /\ ~IsOpen(x)'
              BY <6>1, <6>2, <5>3, <1>1, <1>3, <1>9, <2>5, Constants DEF MarkedRef, IsMarked, ValueOf, Shape, IsOpen
            <6>4. QED
              BY <6>2, <6>3 DEF Done, MarkedRef
          <5>4. QED
            BY <5>1, <5>2, <5>3
        <4>3. QED
          BY <4>1, <4>2 DEF Tricolor
      <3>7. QED
        BY <1>1, <1>3, <3>1, <3>2, <3>4, <3>5, <3>6, Constants DEF Propagating, TypeOK
    <2>15. ASSUME gcstate # "propagate" PROVE Phase'
      <3>1. \A x \in Object : mark'[x] # "free" /\ mark'[x] # currentwhite =>
               mark[x] # "free" /\ mark[x] # currentwhite /\ owner'[x] = owner[x]
        BY <1>9, <2>3, <2>15
      <3>2. \A x \in Object : Alive(x) /\ ~IsOpen(x) => mark'[x] # "free" /\ owner'[x] = Nil
        BY <1>4, <1>9, <2>3, <2>15 DEF Alive, IsOpen
      <3>3. QED
        BY <1>1, <1>3, <2>15, <3>1, <3>2, SweepUndisturbed
    <2>16. Phase'
      BY <1>1, <1>3, <2>14, <2>15 DEF Phase
    <2>17. QED
      BY <2>9, <2>10, <2>11, <2>12, <2>13, <2>16 DEF GInv
  <1>13. QED
    BY <1>11, <1>12

LEMMA NewClosureStep ==
    ASSUME GInv, NEW f \in Object, NEW u \in Object, NEW i \in Slots, NEW j \in Slots, NewClosure(f, u, i, j)
    PROVE  GInv'
  <1>1. TypeOK /\ Shape /\ RefsLive /\ RootsLive /\ Colors /\ Phase
    BY DEF GInv
  <1>2. /\ UNCHANGED <<gray, grayagain, key, running, fin, called, currentwhite,
                       gcstate, atomically, full, weak, sweepgc, tmudata, world>>
        /\ atomically = "no" /\ Kind[f] = "closure" /\ Kind[u] = "upval" /\ ~Alive(f)
        /\ owner' = [owner EXCEPT ![u] = running] /\ slot' = [slot EXCEPT ![u] = i]
        /\ Alive(u) => owner[u] = running /\ slot[u] = i
        /\ mark' = [mark EXCEPT ![f] = currentwhite,
                                ![u] = IF ~Alive(u) \/ IsDead(u) THEN currentwhite ELSE @]
        /\ val' = [val EXCEPT ![f] = u]
        /\ stack' = [stack EXCEPT ![running][j] = f]
    BY Instructions DEF NewClosure, luaF_findupval, SetReg
  <1>3. running \in Of("thread") /\ i \in Slot /\ j \in Slot /\ stack \in [Of("thread") -> [Slot -> Value]]
    BY <1>1, SlotsInRange DEF TypeOK
  <1>4. f \in Value /\ f # u
    BY <1>2, Constants
  <1>5. /\ stack' \in [Of("thread") -> [Slot -> Value]]
        /\ \A t \in Of("thread"), k \in Slot :
              stack'[t][k] = IF t = running /\ k = j THEN f ELSE stack[t][k]
    BY <1>2, <1>3, <1>4, Write
  <1>6. /\ currentwhite \in {"w0", "w1"} /\ otherwhite \in {"w0", "w1"} /\ otherwhite # currentwhite
        /\ otherwhite' = otherwhite
    BY <1>1, <1>2 DEF TypeOK, otherwhite, Whites
  <1>7. \A x \in Object :
           /\ mark'[x] = IF x = f \/ (x = u /\ ~Live(u)) THEN currentwhite ELSE mark[x]
           /\ owner'[x] = (IF x = u THEN running ELSE owner[x])
           /\ slot'[x] = (IF x = u THEN i ELSE slot[x])
           /\ val'[x] = (IF x = f THEN u ELSE val[x])
    BY <1>1, <1>2, <1>4 DEF TypeOK, Alive, IsDead, Live
  <1>7a. \A x \in Object : \/ mark'[x] = mark[x] /\ x # f /\ (x = u => Live(u))
                           \/ mark'[x] \in {"w0", "w1"} /\ mark[x] \in {"free", "w0", "w1"}
    <2>1. mark[f] = "free" /\ (~Live(u) => mark[u] \in {"free", "w0", "w1"})
      BY <1>2, <1>6 DEF Live, Alive
    <2>2. QED
      BY <2>1, <1>6, <1>7
  <1>8. TypeOK'
    <2>1. /\ val' \in [Object -> Object \cup {Nil}]
          /\ mark' \in [Object -> {"free", "w0", "w1", "gray", "black"}]
      BY <1>1, <1>2, <1>6 DEF TypeOK
    <2>2. owner' \in [Object -> Of("thread") \cup {Nil}] /\ slot' \in [Object -> 0 .. StackSize]
      <3>1. i \in 0 .. StackSize
        BY <1>3, CollectorAssumption DEF Slot
      <3>2. QED
        BY <3>1, <1>1, <1>2, <1>3 DEF TypeOK
    <2>3. QED
      BY <2>1, <2>2, <1>1, <1>2, <1>5 DEF TypeOK
  <1>9. Alive(running) /\ Live(running) /\ running \in Object /\ running # Nil
    BY <1>1, <1>3, Constants DEF RootsLive, Live, Alive
  <1>10. /\ key[f] = Nil /\ val[f] = Nil /\ owner[f] = Nil
         /\ key[u] = Nil /\ val[u] = Nil /\ (Alive(u) => IsOpen(u))
    BY <1>1, <1>2, <1>9, Constants DEF Shape, IsOpen
  <1>11. \A x \in Object : /\ Live(x)' <=> Live(x) \/ x \in {f, u}
                           /\ Alive(x)' <=> Alive(x) \/ x \in {f, u}
    BY <1>6, <1>7 DEF Live, Alive
  <1>12. Shape'
    <2>1. ASSUME NEW x \in Object, x \notin {f, u}
          PROVE  /\ key'[x] = key[x] /\ val'[x] = val[x] /\ owner'[x] = owner[x] /\ slot'[x] = slot[x]
                 /\ (Alive(x)' <=> Alive(x)) /\ (IsOpen(x)' <=> IsOpen(x))
                 /\ ~Alive(x) /\ Kind[x] = "thread" => \A k \in Slot : stack'[x][k] = stack[x][k]
      BY <2>1, <1>2, <1>5, <1>7, <1>9, <1>11, Constants DEF IsOpen
    <2>2. \A x \in Object : IsOpen(x) => mark'[owner[x]] # "free"
      BY <1>1, <1>11, Constants DEF Shape, TypeOK, IsOpen, Alive
    <2>3. mark'[f] # "free" /\ mark'[u] # "free" /\ mark'[running] # "free"
      BY <1>9, <1>11 DEF Alive
    <2>4. ASSUME NEW x \in Object, x \in {f, u}
          PROVE  /\ key[x]' = Nil /\ Alive(x)' /\ Kind[x] \in {"closure", "upval"}
                 /\ Kind[x] = "closure" => val'[x] \in Of("upval") /\ owner'[x] = Nil
                 /\ Kind[x] = "upval" => val'[x] = Nil /\ owner'[x] = running /\ slot'[x] = i
      BY <2>4, <2>3, <1>2, <1>4, <1>7, <1>10, Constants DEF Alive, IsOpen
    <2>5. \A x \in {f, u} : owner'[x] = Nil \/ mark'[owner'[x]] # "free"
      BY <2>4, <1>2, <2>3
    <2>6. Nil \in Value /\ Nil \notin Object
      BY Constants
    <2>7. QED
      BY <2>1, <2>2, <2>4, <2>5, <2>6, <1>1, <1>3, Constants DEF Shape, IsOpen, Alive
  <1>13. RefsLive'
    <2>1. \A v \in Object \cup {Nil} : LiveRef(v) => LiveRef(v)'
      BY <1>11 DEF LiveRef
    <2>2. ASSUME NEW t \in Of("thread"), NEW k \in Slot, LiveRef(stack[t][k]) PROVE LiveRef(stack[t][k])'
      <3>1. stack[t][k] \in Object \cup {Nil}
        BY <1>1 DEF TypeOK, Value
      <3>2. stack'[t][k] = f \/ stack'[t][k] = stack[t][k]
        BY <1>5
      <3>3. QED
        BY <3>1, <3>2, <2>2, <1>11 DEF LiveRef
    <2>3. LiveRef(stack[running][i])'
      BY <2>2, <1>1, <1>2, <1>3, <1>9, Constants DEF RefsLive
    <2>4. ASSUME NEW x \in Object, Live(x)', x \notin {f, u}
          PROVE  /\ LiveRef(key[x])'
                 /\ IF IsOpen(x)' THEN LiveRef(stack[owner[x]][slot[x]])' ELSE LiveRef(val[x])'
                 /\ Kind[x] = "thread" => \A k \in Slot : LiveRef(stack[x][k])'
      <3>1. /\ Live(x) /\ key'[x] = key[x] /\ val'[x] = val[x] /\ owner'[x] = owner[x] /\ slot'[x] = slot[x]
            /\ (IsOpen(x)' <=> IsOpen(x))
        BY <2>4, <1>2, <1>7, <1>11 DEF IsOpen
      <3>2. LiveRef(key[x])' /\ (~IsOpen(x) => LiveRef(val[x])')
        BY <3>1, <1>1, <1>11 DEF RefsLive, LiveRef, TypeOK
      <3>3. IsOpen(x) => /\ owner[x] \in Of("thread") /\ slot[x] \in Slot
                         /\ LiveRef(stack[owner[x]][slot[x]])
        BY <3>1, <1>1 DEF TypeOK, RefsLive, Shape, IsOpen
      <3>4. IsOpen(x) => LiveRef(stack[owner[x]][slot[x]])'
        BY <3>1, <3>3, <2>2
      <3>5. Kind[x] = "thread" => \A k \in Slot : LiveRef(stack[x][k])'
        BY <3>1, <2>2, <1>1, Constants DEF RefsLive
      <3>6. QED
        BY <3>1, <3>2, <3>4, <3>5
    <2>5. LiveRef(key[f])' /\ LiveRef(val[f])' /\ ~IsOpen(f)' /\ Kind[f] # "thread"
      BY <1>2, <1>4, <1>7, <1>10, <1>11 DEF LiveRef, IsOpen
    <2>6. /\ LiveRef(key[u])' /\ IsOpen(u)' /\ Kind[u] # "thread"
          /\ LiveRef(stack[owner[u]][slot[u]])'
      BY <2>3, <1>2, <1>4, <1>7, <1>9, <1>10 DEF LiveRef, IsOpen
    <2>7. QED
      BY <2>4, <2>5, <2>6 DEF RefsLive
  <1>14. RootsLive' /\ Colors'
    <2>1. RootsLive'
      BY <1>1, <1>2, <1>11, Constants DEF RootsLive, TypeOK
    <2>2. \A x \in Object : mark'[x] \in {"gray", "black"} =>
             mark'[x] = mark[x] /\ x # f /\ (x = u => Live(u)) /\ (IsOpen(x)' <=> IsOpen(x))
      BY <1>7a, <1>7, <1>9, <1>10 DEF Live, Alive, IsOpen
    <2>3. QED
      BY <2>1, <2>2, <1>1 DEF Colors
  <1>15. Phase'
    <2>1. \A x \in Object : IsMarked(x)' <=> IsMarked(x)
      BY <1>7a DEF IsMarked
    <2>2. gcstate = "propagate" => Propagating'
      <3>1. SUFFICES ASSUME Propagating PROVE Propagating'
        BY <1>1 DEF Phase
      <3>2. \A x \in Object : mark'[x] # otherwhite'
        BY <1>6, <1>7, <3>1 DEF Propagating
      <3>3. Lists'
        BY <1>1, <1>2, <2>1, <3>1 DEF Propagating, Lists, TypeOK, IsWeak
      <3>4. Tricolor'
        <4>1. \A x \in Object : mark'[x] \in {"gray", "black"} =>
                 /\ mark'[x] = mark[x] /\ x # f /\ (IsOpen(x)' <=> IsOpen(x))
                 /\ key'[x] = key[x] /\ val'[x] = val[x]
          <5>1. \A x \in Object : mark'[x] \in {"gray", "black"} =>
                   mark'[x] = mark[x] /\ x # f /\ (x = u => Live(u))
            BY <1>7a
          <5>2. \A x \in Object : (IsOpen(x)' <=> IsOpen(x)) \/ (x = u /\ ~Live(u))
            BY <1>7, <1>9, <1>10 DEF Live, Alive, IsOpen
          <5>3. QED
            BY <5>1, <5>2, <1>2, <1>7
        <4>2. \A w \in Object \cup {Nil} : MarkedRef(w)' <=> MarkedRef(w)
          BY <2>1 DEF MarkedRef
        <4>3. ASSUME NEW x \in Object, mark'[x] = "black", Done(x) PROVE Done(x)'
          <5>1. Kind[x] # "thread" /\ ~IsOpen(x)
            BY <4>1, <4>3, <1>1 DEF Colors
          <5>2. QED
            BY <5>1, <4>1, <4>2, <4>3, <1>1 DEF Done, TypeOK, MarkedRef
        <4>4. QED
          BY <4>1, <4>3, <1>2, <3>1 DEF Propagating, Tricolor
      <3>5. QED
        BY <1>1, <1>2, <2>1, <3>1, <3>2, <3>3, <3>4, Constants DEF Propagating, TypeOK
    <2>3. gcstate # "propagate" => Phase'
      <3>1. \A x \in Object : mark'[x] # "free" /\ mark'[x] # currentwhite =>
               mark[x] # "free" /\ mark[x] # currentwhite /\ owner'[x] = owner[x]
        BY <1>2, <1>6, <1>7 DEF Live, Alive
      <3>2. \A x \in Object : Alive(x) /\ ~IsOpen(x) => mark'[x] # "free" /\ owner'[x] = Nil
        BY <1>7, <1>10, <1>11 DEF Alive, IsOpen
      <3>3. QED
        BY <1>1, <1>2, <3>1, <3>2, SweepUndisturbed
    <2>4. QED
      BY <1>1, <1>2, <2>2, <2>3 DEF Phase
  <1>16. QED
    BY <1>8, <1>12, <1>13, <1>14, <1>15 DEF GInv

LEMMA ProgramStep == ASSUME GInv, Program PROVE GInv'
  <1>1. TypeOK /\ Shape /\ RefsLive /\ RootsLive
    BY DEF GInv
  <1>2. \A o \in Object : Live(o) /\ Kind[o] # "closure" =>
           key[o] \in Value /\ LiveRef(key[o]) /\ val[o] \in Value /\ (~IsOpen(o) => LiveRef(val[o]))
    BY <1>1 DEF Shape, RefsLive
  <1>3. \A i \in Slots : Reg(i) \in Value /\ LiveRef(Reg(i))
    BY Registers
  <1>4. \A i \in Slots : Reg(i) # Nil => Reg(i) \in Object /\ Live(Reg(i))
    BY <1>3 DEF LiveRef, Value
  <1>5. \A o \in Object : Kind[o] = "table" => ~IsOpen(o)
    BY <1>1 DEF Shape
  <1>6. Nil \in Value /\ LiveRef(Nil)
    BY Constants DEF LiveRef
  <1>7. CASE Set
    <2>1. PICK i \in Slots, j \in Slots, k \in Slots :
             /\ Is(Reg(i), "table")
             /\ SetTable(Reg(i), Nil, Reg(j)) \/ SetTable(Reg(i), Reg(j), Reg(k))
      BY <1>7 DEF Set
    <2>2. QED
      BY <2>1, <1>3, <1>4, <1>6, SetTableStep DEF Is
  <1>8. CASE SetGlobal
    BY <1>8, <1>1, <1>3, <1>6, Constants, SetTableStep DEF SetGlobal, RootsLive
  <1>9. CASE Get
    <2>1. PICK i \in Slots, j \in Slots :
             Is(Reg(i), "table") /\ (Read(j, val[Reg(i)]) \/ Read(j, key[Reg(i)]))
      BY <1>9 DEF Get
    <2>2. QED
      BY <2>1, <1>2, <1>4, <1>5, ReadStep DEF Is
  <1>10. CASE GetGlobal
    BY <1>10, <1>1, <1>2, <1>5, Constants, ReadStep DEF GetGlobal, RootsLive
  <1>11. CASE GetUpval
    <2>1. PICK i \in Slots, j \in Slots : Is(Reg(i), "closure") /\ Read(j, ValueOf(val[Reg(i)]))
      BY <1>11 DEF GetUpval
    <2> DEFINE u == val[Reg(i)]
    <2>2. Reg(i) \in Object /\ Live(Reg(i)) /\ Kind[Reg(i)] = "closure"
      BY <2>1, <1>4 DEF Is
    <2>3. u \in Object /\ Kind[u] = "upval" /\ Live(u)
      BY <2>2, <1>1, Constants DEF Shape, RefsLive, Live, Alive, LiveRef, IsOpen
    <2>4. ValueOf(u) \in Value /\ LiveRef(ValueOf(u))
      BY <2>3, <1>1, Constants DEF Shape, TypeOK, RefsLive, ValueOf, IsOpen
    <2>5. QED
      BY <2>1, <2>4, ReadStep
  <1>12. CASE Forget
    BY <1>12, <1>6, ReadStep DEF Forget
  <1>13. CASE \/ \E o \in Object, i \in Slots : Allocate(o, i) \/ NewString(o, i)
              \/ \E f, u \in Object, i, j \in Slots : NewClosure(f, u, i, j)
    BY <1>13, AllocateStep, NewStringStep, NewClosureStep
  <1>14. QED
    BY <1>7, <1>8, <1>9, <1>10, <1>11, <1>12, <1>13, SetMetatableStep, SetUpvalStep, CloseStep,
       ResumeStep, YieldStep DEF Program

-----------------------------------------------------------------------------
(* Marking *)

\* What a marking from the marks m keeps: no object is freed or found dead by it.
LEMMA MarkingKeeps ==
    ASSUME TypeOK, Shape, RefsLive, RootsLive, Colors,
           UNCHANGED <<val, owner, slot, stack, running, currentwhite>>,
           NEW m \in [Object -> {"free", "w0", "w1", "gray", "black"}], NEW list,
           \A o \in Object : m[o] # otherwhite /\ mark[o] # otherwhite /\ (m[o] = "free" <=> mark[o] = "free"),
           \A o \in Object : m[o] \in {"gray", "black"} =>
               m[o] = mark[o] \/ (Kind[o] \in {"table", "closure", "thread"} /\ (Kind[o] = "thread" => m[o] = "gray")),
           \A o \in Object : key'[o] = key[o] \/ (Kind[o] = "table" /\ val[o] = Nil /\ key'[o] = Nil),
           \A u \in tmudata' : u \in Object /\ mark[u] # "free",
           GrowsFrom(m, list)
    PROVE  /\ Shape' /\ RefsLive' /\ RootsLive' /\ Colors'
           /\ \A o \in Object : mark'[o] # otherwhite'
           /\ \A o \in Object : m[o] \in {"gray", "black"} => mark'[o] = m[o]
  <1>1. /\ currentwhite \in {"w0", "w1"} /\ otherwhite \in {"w0", "w1"} /\ otherwhite # currentwhite
        /\ otherwhite' = otherwhite
    BY DEF TypeOK, otherwhite, Whites
  <1>2. \A o \in Object : mark'[o] = m[o] \/ (m[o] = currentwhite /\ mark'[o] = markedcolor(o)
                                              /\ mark'[o] \in {"gray", "black"})
    BY DEF GrowsFrom
  <1>3. \A o \in Object : /\ mark'[o] # otherwhite' /\ (mark'[o] = "free" <=> mark[o] = "free")
                          /\ m[o] \in {"gray", "black"} => mark'[o] = m[o]
    BY <1>1, <1>2
  <1>4. \A o \in Object : (Live(o)' <=> Live(o)) /\ (Alive(o)' <=> Alive(o)) /\ (Live(o) <=> Alive(o))
    BY <1>1, <1>3 DEF Live, Alive
  <1>5. \A v \in Object \cup {Nil} : LiveRef(v)' <=> LiveRef(v)
    BY <1>4 DEF LiveRef
  <1>6. \A o \in Object : IsOpen(o)' <=> IsOpen(o)
    BY DEF IsOpen
  <1>7. Shape'
    BY <1>4, <1>6, Constants DEF Shape, TypeOK, Alive, IsOpen
  <1>8. RefsLive'
    <2>1. \A o \in Object : LiveRef(key[o]) => LiveRef(key[o])'
      BY <1>4 DEF TypeOK, LiveRef
    <2>2. \A o \in Object : LiveRef(val[o]) => LiveRef(val[o])'
      BY <1>4 DEF TypeOK, LiveRef
    <2>3. \A t \in Of("thread"), k \in Slot : LiveRef(stack[t][k]) => LiveRef(stack[t][k])'
      BY <1>4 DEF TypeOK, LiveRef, Value
    <2>4. \A o \in Object : IsOpen(o) => owner[o] \in Of("thread") /\ slot[o] \in Slot
      BY DEF TypeOK, Shape, IsOpen
    <2>5. \A o \in Object : IsOpen(o) /\ LiveRef(stack[owner[o]][slot[o]]) => LiveRef(stack[owner[o]][slot[o]])'
      BY <2>3, <2>4
    <2>6. QED
      BY <2>1, <2>2, <2>3, <2>5, <1>4, <1>6, Constants DEF RefsLive
  <1>9. RootsLive'
    BY <1>4, Constants DEF RootsLive, TypeOK, Alive
  <1>10. Colors'
    <2> SUFFICES ASSUME NEW o \in Object
                 PROVE  /\ mark'[o] = "black" => Kind[o] # "thread" /\ Kind[o] # "string" /\ ~IsOpen(o)
                        /\ mark'[o] = "gray" => Kind[o] # "userdata" /\ (Kind[o] = "upval" => IsOpen(o))
      BY <1>6 DEF Colors
    <2>1. mark'[o] \in {"gray", "black"} =>
              \/ mark'[o] = mark[o] \/ mark'[o] = markedcolor(o)
              \/ Kind[o] \in {"table", "closure", "thread"} /\ (Kind[o] = "thread" => mark'[o] = "gray")
      BY <1>2
    <2>2. /\ markedcolor(o) = "black" => Kind[o] = "userdata" \/ (Kind[o] = "upval" /\ ~IsOpen(o))
          /\ markedcolor(o) = "gray" => Kind[o] # "userdata" /\ (Kind[o] = "upval" => IsOpen(o))
      BY DEF markedcolor
    <2>3. Kind[o] # "upval" => ~IsOpen(o)
      BY DEF Shape
    <2>4. QED
      BY <2>1, <2>2, <2>3 DEF Colors
  <1>11. QED
    BY <1>3, <1>7, <1>8, <1>9, <1>10

\* What is done stays so while more is marked, and what is marked now is done
\* or waits in the gray list.
LEMMA MarkingDone ==
    ASSUME TypeOK, Shape, UNCHANGED <<val, owner, slot, stack>>,
           NEW m \in [Object -> {"free", "w0", "w1", "gray", "black"}], NEW list, GrowsFrom(m, list),
           \A o \in Object : key'[o] = key[o] \/ (Kind[o] = "table" /\ val[o] = Nil /\ key'[o] = Nil),
           \A o \in Object : IsMarked(o) => mark'[o] \in {"gray", "black"}
    PROVE  /\ \A o \in Object : Done(o) => Done(o)'
           /\ \A o \in Object : IsMarked(o)' => m[o] \in {"gray", "black"} \/ o \in gray' \/ Done(o)'
           /\ \A o \in Object : mark'[o] = "black" => m[o] = "black" \/ Done(o)'
           /\ \A o \in Object : mark'[o] = "gray" =>
                 m[o] = "gray" \/ o \in gray' \/ Kind[o] = "string" \/ IsOpen(o)'
  <1>1. \A o \in Object : IsOpen(o)' <=> IsOpen(o)
    BY DEF IsOpen
  <1>2. \A v \in Object \cup {Nil} : MarkedRef(v) => v = Nil \/ mark'[v] \in {"gray", "black"}
    BY DEF MarkedRef
  <1>3. \A o \in Object : IsOpen(o) => owner[o] \in Of("thread") /\ slot[o] \in Slot
    BY DEF TypeOK, Shape, IsOpen
  <1>4. \A o \in Object : /\ key[o] \in Object \cup {Nil} /\ val[o] \in Object \cup {Nil}
                          /\ Kind[o] = "thread" => \A i \in Slot : stack[o][i] \in Object \cup {Nil}
                          /\ IsOpen(o) => stack[owner[o]][slot[o]] \in Object \cup {Nil}
    BY <1>3, Constants DEF TypeOK, Value
  <1>5. \A o \in Object : Done(o) => Done(o)'
    BY <1>1, <1>2, <1>4 DEF Done, MarkedRef, IsMarked
  <1>6. \A o \in Object : \/ mark'[o] = m[o]
                          \/ Kind[o] \in {"table", "closure", "thread"} /\ o \in gray'
                          \/ /\ Kind[o] \in {"userdata", "upval", "string"} /\ mark'[o] = markedcolor(o)
                             /\ Kind[o] = "userdata" => val[o] = Nil \/ mark'[val[o]] \in {"gray", "black"}
                             /\ Kind[o] = "upval" => ValueOf(o) = Nil \/ mark'[ValueOf(o)] \in {"gray", "black"}
    BY Constants DEF GrowsFrom
  <1>7. ASSUME NEW o \in Object, mark'[o] # m[o], Kind[o] \in {"userdata", "upval", "string"} PROVE Done(o)'
    <2>1. Kind[o] \in {"userdata", "upval", "string"} /\ key'[o] = Nil /\ (Kind[o] # "upval" => ~IsOpen(o))
      BY <1>6, <1>7 DEF Shape
    <2>2. Kind[o] = "string" => val[o] = Nil
      BY DEF Shape
    <2>3. IF IsOpen(o) THEN stack[owner[o]][slot[o]] = Nil \/ mark'[stack[owner[o]][slot[o]]] \in {"gray", "black"}
          ELSE val[o] = Nil \/ mark'[val[o]] \in {"gray", "black"}
      BY <1>6, <1>7, <2>1, <2>2 DEF ValueOf
    <2>4. QED
      BY <2>1, <2>3, <1>1 DEF Done, MarkedRef, IsMarked
  <1>8. \A o \in Object :
           /\ mark'[o] # m[o] => mark'[o] = markedcolor(o)
           /\ markedcolor(o) = "black" => Kind[o] = "userdata" \/ Kind[o] = "upval"
           /\ markedcolor(o) = "gray" => Kind[o] \in {"table", "closure", "thread", "string"} \/ IsOpen(o)
           /\ mark'[o] # m[o] /\ Kind[o] \in {"table", "closure", "thread"} => o \in gray'
    BY Constants DEF GrowsFrom, markedcolor
  <1>9. QED
    BY <1>1, <1>5, <1>7, <1>8, Constants DEF IsMarked

LEMMA MarkRootStep ==
    ASSUME GInv, gcstate \in {"pause", "finalize"}, markroot, full' \in {"no", "sweep", "mark"},
           UNCHANGED <<heap, udata, currentwhite, atomically, sweepgc, tmudata, running, world>>
    PROVE  GInv'
  <1>1. TypeOK /\ Shape /\ RefsLive /\ RootsLive /\ Colors /\ Phase
    BY DEF GInv
  <1>2. /\ UNCHANGED <<key, val, owner, slot, stack, fin, called, currentwhite, atomically, sweepgc,
                       tmudata, running, world>>
        /\ reallymarkobject(mark, {Main, Globals}, {})
        /\ grayagain' = {} /\ weak' = {} /\ gcstate' = "propagate" /\ atomically = "no"
    BY <1>1 DEF heap, udata, markroot, Phase
  <1>3. Finalizing
    BY <1>1 DEF Phase
  <1>4. tmudata \subseteq Of("userdata") /\ \A u \in tmudata : Live(u) /\ u \in Object /\ Kind[u] = "userdata"
    BY <1>1, Constants DEF TypeOK, RootsLive
  <1>5. \A o \in Object : mark[o] # otherwhite /\ (IsMarked(o) => o \in tmudata)
    BY <1>1, <1>3, <1>4 DEF Finalizing, Live, Alive, IsMarked, TypeOK, otherwhite, Whites
  <1>6. /\ mark \in [Object -> {"free", "w0", "w1", "gray", "black"}]
        /\ {Main, Globals} \in SUBSET (Object \cup {Nil}) /\ {} \in SUBSET Object
        /\ \A v \in {Main, Globals} : LiveRef(v)
    BY <1>1, Constants DEF TypeOK, RootsLive, LiveRef
  <1>7. GrowsFrom(mark, {}) /\ \A v \in {Main, Globals} : v = Nil \/ mark'[v] \in {"gray", "black"}
    BY <1>1, <1>2, <1>5, <1>6, MarkingAlive
  <1>8. /\ Shape' /\ RefsLive' /\ RootsLive' /\ Colors'
        /\ \A o \in Object : mark'[o] # otherwhite'
        /\ \A o \in Object : mark[o] \in {"gray", "black"} => mark'[o] = mark[o]
    <2>1. \A u \in tmudata' : u \in Object /\ mark[u] # "free"
      BY <1>2, <1>4 DEF Live
    <2>2. \A o \in Object : key'[o] = key[o] \/ (Kind[o] = "table" /\ val[o] = Nil /\ key'[o] = Nil)
      BY <1>2
    <2>3. QED
      BY <2>1, <2>2, <1>1, <1>2, <1>5, <1>6, <1>7, MarkingKeeps
  <1>9. /\ \A o \in Object : mark'[o] = "black" => mark[o] = "black" \/ Done(o)'
        /\ \A o \in Object : mark'[o] = "gray" =>
              mark[o] = "gray" \/ o \in gray' \/ Kind[o] = "string" \/ IsOpen(o)'
    <2>1. \A o \in Object : key'[o] = key[o] \/ (Kind[o] = "table" /\ val[o] = Nil /\ key'[o] = Nil)
      BY <1>2
    <2>2. \A o \in Object : IsMarked(o) => mark'[o] \in {"gray", "black"}
      BY <1>8 DEF IsMarked
    <2>3. QED
      BY <2>1, <2>2, <1>1, <1>2, <1>6, <1>7, MarkingDone
  <1>10. TypeOK'
    BY <1>1, <1>2, <1>7 DEF TypeOK, GrowsFrom
  <1>11. Propagating'
    <2>1. IsMarked(Main)' /\ IsMarked(Globals)'
      BY <1>7, Constants DEF IsMarked
    <2>2. Lists'
      <3>1. \A o \in gray' : o \in Object /\ mark'[o] = markedcolor(o) /\ Kind[o] \in {"table", "closure", "thread"}
        BY <1>7 DEF GrowsFrom
      <3>2. \A o \in Object : IsMarked(o)' /\ IsWeak(o) => o \in gray'
        BY <1>4, <1>5, <1>7, Constants DEF GrowsFrom, IsMarked
      <3>3. QED
        BY <3>1, <3>2, <1>2 DEF Lists, IsMarked, markedcolor, IsWeak
    <2>3. Tricolor'
      <3>1. \A o \in Object : mark[o] # "gray" /\ (mark[o] = "black" => o \in tmudata)
        BY <1>1, <1>4, <1>5 DEF Colors, IsMarked
      <3>2. QED
        BY <3>1, <1>2, <1>9 DEF Tricolor
    <2>4. QED
      BY <2>1, <2>2, <2>3, <1>2, <1>8 DEF Propagating
  <1>12. QED
    BY <1>1, <1>2, <1>8, <1>10, <1>11 DEF GInv, Phase

LEMMA PropagateStep == ASSUME GInv, Propagate PROVE GInv'
  <1>1. TypeOK /\ Shape /\ RefsLive /\ RootsLive /\ Colors /\ Phase /\ Propagating
    BY DEF GInv, Phase, Propagate
  <1>2. PICK o \in gray : propagatemark(o)
    BY DEF Propagate
  <1> DEFINE c == IF IsWeak(o) \/ Kind[o] = "thread" THEN "gray" ELSE "black"
             m == [mark EXCEPT ![o] = c]
  <1>3. /\ reallymarkobject(m, Traversed(o), gray \ {o})
        /\ key' = IF Kind[o] = "table" /\ val[o] = Nil THEN [key EXCEPT ![o] = Nil] ELSE key
        /\ weak' = IF IsWeak(o) THEN weak \cup {o} ELSE weak
        /\ grayagain' = IF Kind[o] = "thread" THEN grayagain \cup {o} ELSE grayagain
        /\ UNCHANGED <<val, owner, slot, stack, fin, called, currentwhite, gcstate, atomically, full,
                       sweepgc, tmudata, running, world>>
        /\ gcstate = "propagate"
    BY <1>2 DEF Propagate, propagatemark, udata
  <1>4. o \in Object /\ IsMarked(o) /\ Kind[o] \in {"table", "closure", "thread"} /\ Live(o)
    BY <1>1, <1>2 DEF TypeOK, Propagating, Lists, IsMarked, Live
  <1>5. /\ m \in [Object -> {"free", "w0", "w1", "gray", "black"}]
        /\ \A x \in Object : m[x] = IF x = o THEN c ELSE mark[x]
        /\ c \in {"gray", "black"} /\ (c = "gray" <=> IsWeak(o) \/ Kind[o] = "thread")
    BY <1>1, <1>4 DEF TypeOK
  <1> HIDE DEF m, c
  <1>6. /\ currentwhite \in {"w0", "w1"} /\ otherwhite \in {"w0", "w1"} /\ otherwhite # currentwhite
    BY <1>1 DEF TypeOK, otherwhite, Whites
  <1>7. \A x \in Object : m[x] # otherwhite /\ mark[x] # otherwhite /\ (m[x] = "free" <=> mark[x] = "free")
    BY <1>1, <1>4, <1>5, <1>6 DEF Propagating, IsMarked
  <1>8. /\ key' \in [Object -> Object \cup {Nil}]
        /\ \A x \in Object : key'[x] = IF x = o /\ Kind[o] = "table" /\ val[o] = Nil THEN Nil ELSE key[x]
    BY <1>1, <1>3, <1>4 DEF TypeOK
  <1>9. /\ Kind[o] = "table" /\ val[o] # Nil => Traversed(o) = Strong(o)
        /\ Kind[o] = "table" /\ val[o] = Nil => Traversed(o) = {}
        /\ Kind[o] = "closure" => Traversed(o) = {val[o]}
        /\ Kind[o] = "thread" => Traversed(o) = {Globals} \cup OnStack(o)
    BY DEF Traversed
  <1>10. Traversed(o) \in SUBSET (Object \cup {Nil}) /\ \A v \in Traversed(o) : LiveRef(v)
    <2>1. CASE Kind[o] = "table"
      <3>1. key[o] \in Object \cup {Nil} /\ val[o] \in Object \cup {Nil}
        BY <1>1, <1>4 DEF TypeOK
      <3>2. LiveRef(key[o]) /\ LiveRef(val[o])
        BY <2>1, <1>1, <1>4 DEF RefsLive, Shape
      <3>3. Traversed(o) \subseteq {key[o], val[o]}
        BY <2>1, <1>9 DEF Strong
      <3>4. QED
        BY <3>1, <3>2, <3>3
    <2>2. CASE Kind[o] = "closure"
      BY <2>2, <1>1, <1>4, <1>9, Constants DEF TypeOK, RefsLive, Shape
    <2>3. CASE Kind[o] = "thread"
      BY <2>3, <1>1, <1>4, <1>9, Constants DEF TypeOK, RefsLive, RootsLive, LiveRef, OnStack, Value
    <2>4. QED
      BY <1>4, <2>1, <2>2, <2>3
  <1>11. gray \ {o} \in SUBSET Object
    BY <1>1 DEF TypeOK
  <1>12. GrowsFrom(m, gray \ {o}) /\ \A v \in Traversed(o) : v = Nil \/ mark'[v] \in {"gray", "black"}
    BY <1>1, <1>3, <1>5, <1>7, <1>10, <1>11, MarkingAlive
  <1>13. /\ Shape' /\ RefsLive' /\ RootsLive' /\ Colors'
         /\ \A x \in Object : mark'[x] # otherwhite'
         /\ \A x \in Object : m[x] \in {"gray", "black"} => mark'[x] = m[x]
    <2>1. \A u \in tmudata' : u \in Object /\ mark[u] # "free"
      BY <1>1, <1>3, Constants DEF Live, RootsLive, TypeOK
    <2>2. \A x \in Object : key'[x] = key[x] \/ (Kind[x] = "table" /\ val[x] = Nil /\ key'[x] = Nil)
      BY <1>8
    <2>3. \A x \in Object : m[x] \in {"gray", "black"} =>
               m[x] = mark[x] \/ (Kind[x] \in {"table", "closure", "thread"} /\ (Kind[x] = "thread" => m[x] = "gray"))
      BY <1>4, <1>5
    <2>4. QED
      BY <2>1, <2>2, <2>3, <1>1, <1>3, <1>5, <1>7, <1>12, MarkingKeeps
  <1>14. \A x \in Object : (IsMarked(x) => IsMarked(x)') /\ (IsMarked(x) => m[x] \in {"gray", "black"})
    BY <1>4, <1>5, <1>13 DEF IsMarked
  <1>15. /\ \A x \in Object : Done(x) => Done(x)'
         /\ \A x \in Object : IsMarked(x)' => m[x] \in {"gray", "black"} \/ x \in gray' \/ Done(x)'
         /\ \A x \in Object : mark'[x] = "black" => m[x] = "black" \/ Done(x)'
         /\ \A x \in Object : mark'[x] = "gray" =>
               m[x] = "gray" \/ x \in gray' \/ Kind[x] = "string" \/ IsOpen(x)'
    <2>1. \A x \in Object : key'[x] = key[x] \/ (Kind[x] = "table" /\ val[x] = Nil /\ key'[x] = Nil)
      BY <1>8
    <2>2. \A x \in Object : IsMarked(x) => mark'[x] \in {"gray", "black"}
      BY <1>14 DEF IsMarked
    <2>3. QED
      BY <2>1, <2>2, <1>1, <1>3, <1>5, <1>12, MarkingDone
  <1>16. Done(o)'
    <2>1. owner'[o] = Nil
      BY <1>1, <1>3, <1>4 DEF Shape, IsOpen
    <2>2. CASE Kind[o] = "table" /\ val[o] = Nil
      BY <2>1, <2>2, <1>3, <1>4, <1>8 DEF Done, MarkedRef, IsOpen
    <2>3. CASE Kind[o] = "table" /\ val[o] # Nil
      <3>1. key'[o] = key[o] /\ val'[o] = val[o]
        BY <2>3, <1>3, <1>4, <1>8
      <3>2. /\ "k" \in Mode[o] \/ key[o] = Nil \/ mark'[key[o]] \in {"gray", "black"}
            /\ "v" \in Mode[o] \/ val[o] = Nil \/ mark'[val[o]] \in {"gray", "black"}
        BY <2>3, <1>9, <1>12 DEF Strong
      <3>3. QED
        BY <2>1, <2>3, <3>1, <3>2 DEF Done, MarkedRef, IsMarked, IsOpen
    <2>4. CASE Kind[o] = "closure"
      <3>1. key'[o] = Nil /\ val'[o] = val[o] /\ (val[o] = Nil \/ mark'[val[o]] \in {"gray", "black"})
        BY <2>4, <1>1, <1>3, <1>4, <1>8, <1>9, <1>12 DEF Shape
      <3>2. QED
        BY <2>1, <2>4, <3>1 DEF Done, MarkedRef, IsMarked, IsOpen
    <2>5. CASE Kind[o] = "thread"
      <3>1. key'[o] = Nil /\ val'[o] = Nil
        BY <2>5, <1>1, <1>3, <1>4, <1>8 DEF Shape
      <3>2. \A i \in Slot : stack'[o][i] = stack[o][i]
                            /\ (stack[o][i] = Nil \/ mark'[stack[o][i]] \in {"gray", "black"})
        BY <2>5, <1>3, <1>9, <1>12 DEF OnStack
      <3>3. QED
        BY <2>1, <2>5, <3>1, <3>2 DEF Done, MarkedRef, IsMarked, IsOpen
    <2>6. QED
      BY <1>4, <2>2, <2>3, <2>4, <2>5
  <1>17. TypeOK'
    BY <1>1, <1>3, <1>4, <1>8, <1>12 DEF TypeOK, GrowsFrom
  <1>18. Lists'
    <2>1. \A x \in gray' : x \in Object /\ Kind[x] \in {"table", "closure", "thread"} /\ IsMarked(x)'
      BY <1>1, <1>12, <1>14 DEF Propagating, Lists, GrowsFrom, IsMarked, markedcolor, TypeOK
    <2>2. /\ \A x \in grayagain' : IsMarked(x)' /\ Kind[x] \in {"table", "thread"}
          /\ \A x \in weak' : IsMarked(x)' /\ IsWeak(x)
      BY <1>1, <1>3, <1>4, <1>14 DEF Propagating, Lists, TypeOK
    <2>3. ASSUME NEW x \in Object, IsMarked(x)', IsWeak(x) PROVE x \in gray' \cup weak'
      <3>1. CASE IsMarked(x)
        BY <3>1, <2>3, <1>1, <1>3, <1>12 DEF Propagating, Lists, GrowsFrom
      <3>2. CASE ~IsMarked(x)
        BY <3>2, <2>3, <1>4, <1>5, <1>12, Constants DEF IsMarked, GrowsFrom
      <3>3. QED
        BY <3>1, <3>2
    <2>4. QED
      BY <2>1, <2>2, <2>3 DEF Lists, IsWeak
  <1>19. CASE atomically = "no"
    <2>1. Tricolor
      BY <1>1, <1>19 DEF Propagating
    <2>2. ASSUME NEW x \in Object, mark'[x] = "gray"
          PROVE  (x \in gray \cup grayagain \cup weak \/ Kind[x] = "string" \/ IsOpen(x))'
      <3>1. CASE x = o
        BY <3>1, <2>2, <1>3, <1>4, <1>5, <1>13
      <3>2. CASE x # o
        <4>1. m[x] = "gray" => x \in gray \cup grayagain \cup weak \/ Kind[x] = "string" \/ IsOpen(x)
          BY <3>2, <2>1, <1>5 DEF Tricolor
        <4>2. gray \ {o} \subseteq gray' /\ grayagain \subseteq grayagain' /\ weak \subseteq weak'
              /\ (IsOpen(x)' <=> IsOpen(x))
          BY <1>3, <1>12 DEF GrowsFrom, IsOpen
        <4>3. QED
          BY <3>2, <4>1, <4>2, <2>2, <1>15
      <3>3. QED
        BY <3>1, <3>2
    <2>3. ASSUME NEW x \in Object, mark'[x] = "black" PROVE (x \in tmudata \/ Done(x))'
      <3>1. x = o => Done(x)'
        BY <1>16
      <3>2. x # o /\ m[x] = "black" => x \in tmudata \/ Done(x)
        BY <2>1, <1>5 DEF Tricolor
      <3>3. QED
        BY <3>1, <3>2, <2>3, <1>3, <1>15
    <2>4. Tricolor'
      BY <2>2, <2>3 DEF Tricolor
    <2>5. QED
      BY <2>4, <1>1, <1>3, <1>13, <1>14, <1>17, <1>18, <1>19, Constants DEF GInv, Phase, Propagating
  <1>20. CASE atomically # "no"
    <2>1. Remarking
      BY <1>1, <1>20 DEF Propagating
    <2>2. ASSUME NEW x \in Object, IsMarked(x)' PROVE (x \in gray \/ Pending(x) \/ Done(x))'
      <3>1. CASE x = o
        BY <3>1, <1>16
      <3>2. CASE x # o
        <4>1. m[x] \in {"gray", "black"} => x \in gray \ {o} \/ Pending(x) \/ Done(x)
          BY <3>2, <2>1, <1>5 DEF Remarking, IsMarked
        <4>2. gray \ {o} \subseteq gray' /\ (Pending(x) => Pending(x)')
          BY <1>3, <1>12 DEF GrowsFrom, Pending
        <4>3. QED
          BY <4>1, <4>2, <2>2, <1>15
      <3>3. QED
        BY <3>1, <3>2
    <2>3. atomically # "upvals" => IsMarked(running)' /\ \A h \in weak' : val'[h] = Nil => key'[h] = Nil
      <3>1. running \in Object /\ weak \subseteq Object
        BY <1>1, Constants DEF TypeOK
      <3>2. o \in weak' /\ val'[o] = Nil /\ IsWeak(o) => key'[o] = Nil
        BY <1>3, <1>4, <1>8 DEF IsWeak
      <3>3. \A h \in weak' : (h = o /\ IsWeak(o)) \/ h \in weak
        BY <1>3
      <3>4. IsMarked(running) => IsMarked(running)'
        BY <3>1, <1>3, <1>14 DEF IsMarked
      <3>5. QED
        BY <3>1, <3>2, <3>3, <3>4, <2>1, <1>3, <1>8 DEF Remarking
    <2>4. atomically = "finalizers" => \A u \in tmudata' : IsMarked(u)'
      BY <2>1, <1>1, <1>3, <1>14, Constants DEF Remarking, TypeOK
    <2>5. Remarking'
      BY <2>2, <2>3, <2>4, <1>3 DEF Remarking
    <2>6. QED
      BY <2>5, <1>1, <1>3, <1>13, <1>14, <1>17, <1>18, <1>20, Constants DEF GInv, Phase, Propagating
  <1>21. QED
    BY <1>19, <1>20

-----------------------------------------------------------------------------
(* The atomic end of the marking *)

\* The phases of atomic(), while the program does not run.
LEMMA RemarkMarks ==
    ASSUME GInv, gcstate = "propagate",
           UNCHANGED <<heap, currentwhite, gcstate, full, sweepgc, running, world, udata, tmudata>>,
           NEW values \in SUBSET (Object \cup {Nil}), \A v \in values : LiveRef(v),
           NEW list \in SUBSET Object, reallymarkobject(mark, values, list)
    PROVE  /\ Shape' /\ RefsLive' /\ RootsLive' /\ Colors'
           /\ \A o \in Object : mark'[o] # otherwhite'
           /\ IsMarked(Main)' /\ IsMarked(Globals)'
           /\ mark' \in [Object -> {"free", "w0", "w1", "gray", "black"}] /\ gray' \subseteq Object
           /\ list \subseteq gray'
           /\ \A v \in values : v = Nil \/ mark'[v] \in {"gray", "black"}
           /\ \A o \in Object : IsMarked(o) => IsMarked(o)'
           /\ \A o \in Object : Done(o) => Done(o)'
           /\ \A o \in Object : IsMarked(o)' => IsMarked(o) \/ o \in gray' \/ Done(o)'
           /\ \A o \in Object : IsMarked(o)' /\ IsWeak(o) => IsMarked(o) \/ o \in gray'
           /\ \A o \in gray' : o \in list \/ (IsMarked(o)' /\ Kind[o] \in {"table", "closure", "thread"})
  <1>1. TypeOK /\ Shape /\ RefsLive /\ RootsLive /\ Colors /\ Phase /\ Propagating
    BY DEF GInv, Phase
  <1>2. UNCHANGED <<key, val, owner, slot, stack, fin, called, currentwhite, gcstate, full, sweepgc,
                    running, world, tmudata>>
    BY DEF heap, udata
  <1>3. /\ \A o \in Object : mark[o] # otherwhite
        /\ mark \in [Object -> {"free", "w0", "w1", "gray", "black"}]
    BY <1>1 DEF Propagating, TypeOK
  <1>4. GrowsFrom(mark, list) /\ \A v \in values : v = Nil \/ mark'[v] \in {"gray", "black"}
    BY <1>1, <1>3, MarkingAlive
  <1>5. /\ Shape' /\ RefsLive' /\ RootsLive' /\ Colors'
        /\ \A o \in Object : mark'[o] # otherwhite'
        /\ \A o \in Object : mark[o] \in {"gray", "black"} => mark'[o] = mark[o]
    <2>1. \A u \in tmudata' : u \in Object /\ mark[u] # "free"
      BY <1>1, <1>2, Constants DEF TypeOK, RootsLive, Live
    <2>2. \A o \in Object : key'[o] = key[o] \/ (Kind[o] = "table" /\ val[o] = Nil /\ key'[o] = Nil)
      BY <1>2
    <2>3. QED
      BY <2>1, <2>2, <1>1, <1>2, <1>3, <1>4, MarkingKeeps
  <1>6. \A o \in Object : IsMarked(o) => mark'[o] \in {"gray", "black"}
    BY <1>5 DEF IsMarked
  <1>7. /\ \A o \in Object : Done(o) => Done(o)'
        /\ \A o \in Object : IsMarked(o)' => mark[o] \in {"gray", "black"} \/ o \in gray' \/ Done(o)'
    <2>1. \A o \in Object : key'[o] = key[o] \/ (Kind[o] = "table" /\ val[o] = Nil /\ key'[o] = Nil)
      BY <1>2
    <2>2. QED
      BY <2>1, <1>1, <1>2, <1>3, <1>4, <1>6, MarkingDone
  <1>8. IsMarked(Main)' /\ IsMarked(Globals)'
    BY <1>1, <1>6, Constants DEF Propagating, IsMarked
  <1>9. \A o \in Object : IsMarked(o)' /\ IsWeak(o) => IsMarked(o) \/ o \in gray'
    BY <1>4, Constants DEF GrowsFrom, IsMarked
  <1>10. \A o \in gray' : o \in list \/ (IsMarked(o)' /\ Kind[o] \in {"table", "closure", "thread"})
    BY <1>4 DEF GrowsFrom, IsMarked, markedcolor
  <1>11. QED
    BY <1>4, <1>5, <1>6, <1>7, <1>8, <1>9, <1>10 DEF GrowsFrom, IsMarked

LEMMA RemarkUpvalsStep ==
    ASSUME GInv, RemarkUpvals, UNCHANGED <<heap, currentwhite, gcstate, full, sweepgc, running, world>>
    PROVE  GInv'
  <1>1. TypeOK /\ Shape /\ RefsLive /\ RootsLive /\ Colors /\ Phase /\ Propagating
    BY DEF GInv, Phase, RemarkUpvals, Remark
  <1> DEFINE values == {ValueOf(u) : u \in {v \in Of("upval") : mark[v] = "gray" /\ IsOpen(v)}}
  <1>2. /\ UNCHANGED <<key, val, owner, slot, stack, fin, called, currentwhite, gcstate, full, sweepgc,
                       running, world, tmudata, grayagain, weak>>
        /\ gcstate = "propagate" /\ gray = {} /\ atomically = "no" /\ atomically' = "upvals"
        /\ reallymarkobject(mark, values, {})
        /\ UNCHANGED <<heap, currentwhite, gcstate, full, sweepgc, running, world, udata, tmudata>>
    BY DEF RemarkUpvals, Remark, heap, udata
  <1>3. \A u \in Object : IsOpen(u) /\ mark[u] = "gray" =>
           /\ Kind[u] = "upval" /\ ValueOf(u) = stack[owner[u]][slot[u]] /\ ValueOf(u) \in values
           /\ ValueOf(u) \in Object \cup {Nil} /\ LiveRef(ValueOf(u))
    <2> SUFFICES ASSUME NEW u \in Object, IsOpen(u), mark[u] = "gray"
                 PROVE  /\ Kind[u] = "upval" /\ ValueOf(u) = stack[owner[u]][slot[u]] /\ ValueOf(u) \in values
                        /\ ValueOf(u) \in Object \cup {Nil} /\ LiveRef(ValueOf(u))
      OBVIOUS
    <2>1. Kind[u] = "upval" /\ ValueOf(u) = stack[owner[u]][slot[u]] /\ u \in Of("upval") /\ Live(u)
          /\ owner[u] \in Of("thread") /\ slot[u] \in Slot
      BY <1>1, Constants DEF Shape, ValueOf, IsOpen, Live, TypeOK, otherwhite
    <2>2. ValueOf(u) \in Object \cup {Nil} /\ LiveRef(ValueOf(u))
      BY <2>1, <1>1 DEF RefsLive, TypeOK, Value
    <2>3. QED
      BY <2>1, <2>2
  <1>4. \A v \in values : v \in Object \cup {Nil} /\ LiveRef(v)
    BY <1>3, Constants
  <1> HIDE DEF values
  <1>5. values \in SUBSET (Object \cup {Nil}) /\ {} \in SUBSET Object
    BY <1>4
  <1>6. /\ Shape' /\ RefsLive' /\ RootsLive' /\ Colors'
        /\ \A o \in Object : mark'[o] # otherwhite'
        /\ IsMarked(Main)' /\ IsMarked(Globals)'
        /\ mark' \in [Object -> {"free", "w0", "w1", "gray", "black"}] /\ gray' \subseteq Object
        /\ \A v \in values : v = Nil \/ mark'[v] \in {"gray", "black"}
        /\ \A o \in Object : IsMarked(o) => IsMarked(o)'
        /\ \A o \in Object : Done(o) => Done(o)'
        /\ \A o \in Object : IsMarked(o)' => IsMarked(o) \/ o \in gray' \/ Done(o)'
        /\ \A o \in Object : IsMarked(o)' /\ IsWeak(o) => IsMarked(o) \/ o \in gray'
        /\ \A o \in gray' : IsMarked(o)' /\ Kind[o] \in {"table", "closure", "thread"}
    BY <1>2, <1>4, <1>5, RemarkMarks
  <1>7. TypeOK'
    BY <1>1, <1>2, <1>6 DEF TypeOK
  <1>8. Tricolor /\ Lists
    BY <1>1, <1>2 DEF Propagating
  <1>9. Lists'
    BY <1>1, <1>2, <1>6, <1>8 DEF Lists, TypeOK
  <1>10. ASSUME NEW o \in Object, IsMarked(o)' PROVE (o \in gray \/ Pending(o) \/ Done(o))'
    <2>1. CASE ~IsMarked(o)
      BY <2>1, <1>6, <1>10
    <2>2. CASE IsOpen(o) /\ mark[o] = "gray"
      <3>1. key[o] = Nil /\ Kind[o] = "upval"
        BY <2>2, <1>1, <1>3 DEF Shape
      <3>2. stack[owner[o]][slot[o]] = Nil \/ mark'[stack[owner[o]][slot[o]]] \in {"gray", "black"}
        BY <2>2, <1>3, <1>6
      <3>3. Done(o)'
        BY <3>1, <3>2, <2>2, <1>2 DEF Done, IsOpen, MarkedRef, IsMarked
      <3>4. QED
        BY <3>3
    <2>3. CASE Kind[o] = "string"
      BY <2>3, <1>1, <1>2 DEF Done, Shape, IsOpen, MarkedRef
    <2>4. CASE IsMarked(o) /\ ~(IsOpen(o) /\ mark[o] = "gray") /\ Kind[o] # "string"
      <3>1. o \in grayagain \cup weak \cup tmudata \/ Done(o)
        BY <2>4, <1>2, <1>8 DEF Tricolor, IsMarked
      <3>2. QED
        BY <3>1, <1>2, <1>6 DEF Pending
    <2>5. QED
      BY <2>1, <2>2, <2>3, <2>4
  <1>11. Remarking'
    BY <1>10, <1>2 DEF Remarking
  <1>12. QED
    BY <1>1, <1>2, <1>6, <1>7, <1>9, <1>11 DEF GInv, Phase, Propagating

LEMMA RemarkWeakStep ==
    ASSUME GInv, RemarkWeak, UNCHANGED <<heap, currentwhite, gcstate, full, sweepgc, running, world>>
    PROVE  GInv'
  <1>1. TypeOK /\ Shape /\ RefsLive /\ RootsLive /\ Colors /\ Phase /\ Propagating
    BY DEF GInv, Phase, RemarkWeak, Remark
  <1>2. /\ UNCHANGED <<key, val, owner, slot, stack, fin, called, currentwhite, gcstate, full, sweepgc,
                       running, world, tmudata, grayagain>>
        /\ weak' = {}
        /\ gcstate = "propagate" /\ gray = {} /\ atomically = "upvals" /\ atomically' = "weak"
        /\ reallymarkobject(mark, {running}, weak)
        /\ UNCHANGED <<heap, currentwhite, gcstate, full, sweepgc, running, world, udata, tmudata>>
    BY DEF RemarkWeak, Remark, heap, udata
  <1>3. /\ {running} \in SUBSET (Object \cup {Nil}) /\ weak \in SUBSET Object
        /\ \A v \in {running} : LiveRef(v)
        /\ running \in Object /\ running # Nil
    BY <1>1, Constants DEF TypeOK, RootsLive, LiveRef
  <1>4. /\ Shape' /\ RefsLive' /\ RootsLive' /\ Colors'
        /\ \A o \in Object : mark'[o] # otherwhite'
        /\ IsMarked(Main)' /\ IsMarked(Globals)'
        /\ mark' \in [Object -> {"free", "w0", "w1", "gray", "black"}] /\ gray' \subseteq Object
        /\ weak \subseteq gray'
        /\ \A v \in {running} : v = Nil \/ mark'[v] \in {"gray", "black"}
        /\ \A o \in Object : IsMarked(o) => IsMarked(o)'
        /\ \A o \in Object : Done(o) => Done(o)'
        /\ \A o \in Object : IsMarked(o)' => IsMarked(o) \/ o \in gray' \/ Done(o)'
        /\ \A o \in Object : IsMarked(o)' /\ IsWeak(o) => IsMarked(o) \/ o \in gray'
        /\ \A o \in gray' : o \in weak \/ (IsMarked(o)' /\ Kind[o] \in {"table", "closure", "thread"})
    BY <1>2, <1>3, RemarkMarks
  <1>5. TypeOK'
    BY <1>1, <1>2, <1>4 DEF TypeOK
  <1>6. Remarking /\ Lists
    BY <1>1, <1>2 DEF Propagating
  <1>7. Lists'
    BY <1>1, <1>2, <1>3, <1>4, <1>6 DEF Lists, TypeOK, IsWeak
  <1>8. ASSUME NEW o \in Object, IsMarked(o)' PROVE (o \in gray \/ Pending(o) \/ Done(o))'
    <2>1. IsMarked(o) => o \in weak \/ o \in grayagain \/ o \in tmudata \/ Done(o)
      BY <1>2, <1>6 DEF Remarking, Pending
    <2>2. QED
      BY <2>1, <1>2, <1>4, <1>8 DEF Pending
  <1>9. IsMarked(running)'
    BY <1>2, <1>3, <1>4 DEF IsMarked
  <1>10. Remarking'
    BY <1>2, <1>8, <1>9 DEF Remarking
  <1>11. QED
    BY <1>1, <1>2, <1>4, <1>5, <1>7, <1>10 DEF GInv, Phase, Propagating

LEMMA RemarkGrayAgainStep ==
    ASSUME GInv, RemarkGrayAgain, UNCHANGED <<heap, currentwhite, gcstate, full, sweepgc, running, world>>
    PROVE  GInv'
  <1>1. TypeOK /\ Shape /\ RefsLive /\ RootsLive /\ Colors /\ Phase /\ Propagating
    BY DEF GInv, Phase, RemarkGrayAgain, Remark
  <1>2. /\ UNCHANGED <<mark, key, val, owner, slot, stack, fin, called, currentwhite, gcstate, full, sweepgc,
                       running, world, tmudata, weak>>
        /\ gcstate = "propagate" /\ gray = {} /\ atomically = "weak" /\ atomically' = "again"
        /\ gray' = grayagain /\ grayagain' = {}
    BY DEF RemarkGrayAgain, Remark, heap, udata
  <1>3. TypeOK' /\ Shape'
    BY <1>1, <1>2 DEF TypeOK, Shape, Alive, IsOpen
  <1>4. RefsLive' /\ RootsLive' /\ Colors'
    BY <1>1, <1>2 DEF RefsLive, RootsLive, Live, LiveRef, otherwhite, Colors, IsOpen
  <1>5. Propagating'
    <2>1. Lists'
      BY <1>1, <1>2 DEF Propagating, Lists, IsMarked
    <2>2. Remarking'
      BY <1>1, <1>2 DEF Propagating, Remarking, IsMarked, Pending, Done, MarkedRef, IsOpen
    <2>3. QED
      BY <1>1, <1>2, <2>1, <2>2 DEF Propagating, IsMarked, otherwhite
  <1>6. QED
    BY <1>2, <1>3, <1>4, <1>5 DEF GInv, Phase

LEMMA SeparateUdataStep ==
    ASSUME GInv, SeparateUdata, UNCHANGED <<heap, currentwhite, gcstate, full, sweepgc, running, world>>
    PROVE  GInv'
  <1>1. TypeOK /\ Shape /\ RefsLive /\ RootsLive /\ Colors /\ Phase /\ Propagating
    BY DEF GInv, Phase, SeparateUdata, Remark
  <1> DEFINE m == [o \in Object |-> IF o \in tmudata' THEN currentwhite ELSE mark[o]]
  <1>2. /\ UNCHANGED <<key, val, owner, slot, stack, called, currentwhite, gcstate, full, sweepgc,
                       running, world, grayagain, weak>>
        /\ gcstate = "propagate" /\ gray = {} /\ atomically = "again" /\ atomically' = "finalizers"
        /\ fin' = [o \in Object |-> IF o \notin separated THEN fin[o]
                                    ELSE IF val[o] = Nil THEN "without" ELSE "with"]
        /\ tmudata' = tmudata \cup {u \in separated : val[u] # Nil}
        /\ reallymarkobject(m, tmudata', {})
    BY DEF SeparateUdata, luaC_separateudata, marktmu, Remark, heap
  <1>3. /\ currentwhite \in {"w0", "w1"} /\ otherwhite \in {"w0", "w1"} /\ otherwhite # currentwhite
    BY <1>1 DEF TypeOK, otherwhite, Whites
  <1>4. \A o \in Object : mark[o] # otherwhite
    BY <1>1 DEF Propagating
  <1>5. \A u \in tmudata' : u \in Object /\ Kind[u] = "userdata" /\ Live(u)
    <2>1. \A u \in separated : u \in Object /\ Kind[u] = "userdata" /\ Live(u)
      BY <1>3, <1>4, Constants DEF separated, IsWhite, Live, Whites
    <2>2. \A u \in tmudata : u \in Object /\ Kind[u] = "userdata" /\ Live(u)
      BY <1>1, Constants DEF TypeOK, RootsLive
    <2>3. QED
      BY <1>2, <2>1, <2>2
  <1>6. /\ m \in [Object -> {"free", "w0", "w1", "gray", "black"}]
        /\ \A o \in Object : m[o] = IF o \in tmudata' THEN currentwhite ELSE mark[o]
    BY <1>1, <1>3 DEF TypeOK
  <1> HIDE DEF m
  <1>7. \A o \in Object : m[o] # otherwhite /\ mark[o] # otherwhite /\ (m[o] = "free" <=> mark[o] = "free")
    BY <1>3, <1>4, <1>5, <1>6 DEF Live
  <1>8. /\ tmudata' \in SUBSET (Object \cup {Nil}) /\ {} \in SUBSET Object
        /\ \A v \in tmudata' : LiveRef(v)
    BY <1>5 DEF LiveRef
  <1>9. GrowsFrom(m, {}) /\ \A v \in tmudata' : v = Nil \/ mark'[v] \in {"gray", "black"}
    BY <1>1, <1>2, <1>6, <1>7, <1>8, MarkingAlive
  <1>10. /\ Shape' /\ RefsLive' /\ RootsLive' /\ Colors'
         /\ \A o \in Object : mark'[o] # otherwhite'
         /\ \A o \in Object : m[o] \in {"gray", "black"} => mark'[o] = m[o]
    <2>1. \A u \in tmudata' : u \in Object /\ mark[u] # "free"
      BY <1>5 DEF Live
    <2>2. \A o \in Object : key'[o] = key[o] \/ (Kind[o] = "table" /\ val[o] = Nil /\ key'[o] = Nil)
      BY <1>2
    <2>3. \A o \in Object : m[o] \in {"gray", "black"} =>
               m[o] = mark[o] \/ (Kind[o] \in {"table", "closure", "thread"} /\ (Kind[o] = "thread" => m[o] = "gray"))
      BY <1>3, <1>6
    <2>4. QED
      BY <2>1, <2>2, <2>3, <1>1, <1>2, <1>6, <1>7, <1>9, MarkingKeeps
  <1>11. \A u \in tmudata' : mark'[u] \in {"gray", "black"}
    BY <1>5, <1>9, Constants
  <1>12. \A o \in Object : IsMarked(o) => mark'[o] \in {"gray", "black"}
    BY <1>6, <1>10, <1>11 DEF IsMarked
  <1>13. /\ \A o \in Object : Done(o) => Done(o)'
         /\ \A o \in Object : IsMarked(o)' => m[o] \in {"gray", "black"} \/ o \in gray' \/ Done(o)'
    <2>1. \A o \in Object : key'[o] = key[o] \/ (Kind[o] = "table" /\ val[o] = Nil /\ key'[o] = Nil)
      BY <1>2
    <2>2. QED
      BY <2>1, <1>1, <1>2, <1>6, <1>9, <1>12, MarkingDone
  <1>14. TypeOK'
    <2>1. fin' \in [Object -> {"no", "without", "with"}]
      BY <1>1, <1>2 DEF TypeOK
    <2>2. tmudata' \subseteq Of("userdata")
      BY <1>5, Constants
    <2>3. QED
      BY <2>1, <2>2, <1>1, <1>2, <1>9 DEF TypeOK, GrowsFrom
  <1>15. Remarking /\ Lists
    BY <1>1, <1>2 DEF Propagating
  <1>16. Lists'
    <2>1. \A o \in gray' : IsMarked(o)' /\ Kind[o] \in {"table", "closure", "thread"}
      BY <1>9 DEF GrowsFrom, IsMarked, markedcolor
    <2>2. \A o \in grayagain \cup weak : IsMarked(o)'
      BY <1>1, <1>12, <1>15 DEF Lists, TypeOK, IsMarked
    <2>3. \A o \in Object : IsMarked(o)' /\ IsWeak(o) => o \in gray' \cup weak
      <3>1. \A o \in Object : IsWeak(o) => Kind[o] = "table" /\ (mark'[o] # m[o] => o \in gray')
        BY <1>9, Constants DEF GrowsFrom
      <3>2. \A o \in Object : IsWeak(o) => m[o] = mark[o]
        BY <1>5, <1>6, Constants
      <3>3. QED
        BY <3>1, <3>2, <1>2, <1>15 DEF Lists, IsMarked
    <2>4. QED
      BY <2>1, <2>2, <2>3, <1>2, <1>15 DEF Lists, IsWeak
  <1>17. Remarking'
    <2>1. ASSUME NEW o \in Object, IsMarked(o)' PROVE o \in gray' \/ Done(o)'
      <3>1. m[o] \in {"gray", "black"} => o \notin tmudata' /\ IsMarked(o)
        BY <1>3, <1>6 DEF IsMarked
      <3>2. m[o] \in {"gray", "black"} => Done(o)
        BY <3>1, <1>2, <1>15 DEF Remarking, Pending
      <3>3. QED
        BY <3>2, <2>1, <1>13
    <2>2. IsMarked(running)'
      BY <1>1, <1>2, <1>12, <1>15, Constants DEF Remarking, IsMarked, TypeOK
    <2>3. QED
      BY <2>1, <2>2, <1>2, <1>11, <1>15 DEF Remarking, IsMarked
  <1>18. IsMarked(Main)' /\ IsMarked(Globals)'
    BY <1>1, <1>12, Constants DEF Propagating, IsMarked
  <1>19. QED
    BY <1>1, <1>2, <1>10, <1>14, <1>16, <1>17, <1>18 DEF GInv, Phase, Propagating

\* A sweep begins: all that is alive and not white is before it.
LEMMA SweepAll ==
    ASSUME TypeOK, Shape, StartSweep, UNCHANGED <<owner, tmudata>>,
           \A o \in Object : mark'[o] = "free" <=> mark[o] = "free"
    PROVE  Sweeping'
  <1>1. gcstate' = "sweepstring" /\ sweepgc' = RootList
    BY DEF StartSweep
  <1>2. \A o \in Object : o \in sweepgc' <=>
           mark[o] # "free" /\ o # Main /\ o # Globals /\ Kind[o] # "string" /\ owner[o] = Nil /\ o \notin tmudata
    BY <1>1 DEF RootList, Alive, IsOpen
  <1>3. sweepgc' \subseteq Object
    BY <1>1 DEF RootList
  <1>4. \A o \in Object : IsOpen(o) => /\ owner[o] \in Object /\ Kind[owner[o]] = "thread"
                                       /\ mark[owner[o]] # "free" /\ owner[owner[o]] = Nil
                                       /\ owner[o] # Globals
    <2> SUFFICES ASSUME NEW o \in Object, IsOpen(o)
                 PROVE  /\ owner[o] \in Object /\ Kind[owner[o]] = "thread"
                        /\ mark[owner[o]] # "free" /\ owner[owner[o]] = Nil
                        /\ owner[o] # Globals
      OBVIOUS
    <2>1. owner[o] \in Of("thread") /\ Alive(owner[o])
      BY DEF TypeOK, Shape, IsOpen
    <2>2. owner[o] \in Object /\ Kind[owner[o]] = "thread" /\ Kind[Globals] = "table"
      BY <2>1, Constants
    <2>3. owner[owner[o]] = Nil
      BY <2>2 DEF Shape, IsOpen
    <2>4. QED
      BY <2>1, <2>2, <2>3 DEF Alive
  <1>5. \A u \in tmudata : Kind[u] = "userdata"
    BY Constants DEF TypeOK
  <1>6. ASSUME NEW o \in Object, mark'[o] # "free"
        PROVE  \/ o \in sweepgc' \cup tmudata \cup {Main, Globals}
               \/ Kind[o] = "string"
               \/ owner[o] # Nil /\ owner[o] \in sweepgc' \cup {Main}
    <2>1. owner[o] # Nil => owner[o] \in sweepgc' \cup {Main}
      BY <1>2, <1>4, <1>5 DEF IsOpen
    <2>2. QED
      BY <2>1, <1>2, <1>6
  <1>7. QED
    BY <1>1, <1>2, <1>3, <1>6 DEF Sweeping, Alive, IsOpen

LEMMA ClearWeakStep == ASSUME GInv, ClearWeak PROVE GInv'
  <1>1. TypeOK /\ Shape /\ RefsLive /\ RootsLive /\ Colors /\ Phase /\ Propagating /\ Remarking /\ Lists
    BY DEF GInv, Phase, Propagating, ClearWeak, Remark
  <1> DEFINE filled == {h \in weak : val[h] # Nil}
             keyed == {h \in filled : ~iscleared(key[h], TRUE)}
             kept == {h \in keyed : ~iscleared(val[h], FALSE)}
             strings == ({key[h] : h \in filled} \cup {val[h] : h \in keyed}) \cap Of("string")
             gone == filled \ kept
  <1>2. /\ UNCHANGED <<gray, grayagain, weak, tmudata, fin, called, full, owner, slot, stack, running, world>>
        /\ gcstate = "propagate" /\ gray = {} /\ atomically = "finalizers" /\ atomically' = "no"
        /\ currentwhite' = otherwhite /\ StartSweep
        /\ mark' = [o \in Object |-> IF o \in strings THEN "gray" ELSE mark[o]]
        /\ key' = [o \in Object |-> IF o \in gone THEN Nil ELSE key[o]]
        /\ val' = [o \in Object |-> IF o \in gone THEN Nil ELSE val[o]]
    BY DEF ClearWeak, Remark, cleartable, udata
  <1>3. /\ currentwhite \in {"w0", "w1"} /\ otherwhite \in {"w0", "w1"} /\ otherwhite # currentwhite
        /\ otherwhite' = currentwhite
    BY <1>1, <1>2 DEF TypeOK, otherwhite, Whites
  <1>4. \A o \in Object : mark[o] # otherwhite
    BY <1>1 DEF Propagating
  <1>5. weak \subseteq Object /\ \A h \in weak : IsMarked(h) /\ IsWeak(h) /\ Kind[h] = "table" /\ Live(h)
                                                /\ owner[h] = Nil
    BY <1>1, <1>3, Constants DEF TypeOK, Lists, IsMarked, Live, Shape, IsOpen
  <1>6. strings \subseteq Object /\ \A o \in strings : Kind[o] = "string" /\ Live(o)
    <2>1. \A h \in weak : LiveRef(key[h]) /\ LiveRef(val[h])
      BY <1>1, <1>5 DEF RefsLive, IsOpen
    <2>2. \A o \in strings : o \in Object /\ Kind[o] = "string"
      BY Constants
    <2>3. \A o \in strings : \E h \in weak : o = key[h] \/ o = val[h]
      OBVIOUS
    <2> HIDE DEF filled, keyed, kept, strings, gone
    <2>4. QED
      BY <2>1, <2>2, <2>3, Constants DEF LiveRef, Live
  <1>7. gone \subseteq weak
    OBVIOUS
  <1>8. ASSUME NEW h \in weak, h \notin gone
        PROVE  /\ key[h] = Nil \/ key[h] \in strings \/ IsMarked(key[h])
               /\ val[h] = Nil \/ val[h] \in strings \/ IsMarked(val[h])
    <2>1. h \in Object /\ LiveRef(key[h]) /\ LiveRef(val[h])
          /\ key[h] \in Object \cup {Nil} /\ val[h] \in Object \cup {Nil}
      BY <1>1, <1>5 DEF RefsLive, IsOpen, TypeOK
    <2>2. CASE val[h] = Nil
      BY <2>2, <1>1, <1>2 DEF Remarking
    <2>3. CASE val[h] # Nil
      <3>1. h \in filled /\ h \in kept /\ h \in keyed
        BY <2>3, <1>8
      <3>2. ~iscleared(key[h], TRUE) /\ ~iscleared(val[h], FALSE)
        BY <3>1
      <3>3. /\ key[h] = Nil \/ Kind[key[h]] = "string" \/ ~IsWhite(key[h])
            /\ Kind[val[h]] = "string" \/ ~IsWhite(val[h])
        BY <3>2, <2>3 DEF iscleared
      <3>4. \A v \in Object : Live(v) /\ ~IsWhite(v) => IsMarked(v)
        BY <1>1, Constants DEF TypeOK, Live, IsWhite, IsMarked, Whites
      <3>5. /\ key[h] # Nil /\ Kind[key[h]] = "string" => key[h] \in strings
            /\ Kind[val[h]] = "string" => val[h] \in strings
        BY <3>1, <2>1, <2>3, Constants
      <3>6. QED
        BY <3>3, <3>4, <3>5, <2>1, <2>3 DEF LiveRef
    <2>4. QED
      BY <2>2, <2>3
  <1> HIDE DEF filled, keyed, kept, strings, gone
  <1>9. \A o \in Object : /\ mark'[o] = (IF o \in strings THEN "gray" ELSE mark[o])
                          /\ key'[o] = (IF o \in gone THEN Nil ELSE key[o])
                          /\ val'[o] = (IF o \in gone THEN Nil ELSE val[o])
    BY <1>2
  <1>10. \A o \in Object : /\ Live(o)' <=> IsMarked(o) \/ o \in strings
                           /\ mark'[o] = "free" <=> mark[o] = "free"
    BY <1>1, <1>3, <1>4, <1>6, <1>9 DEF TypeOK, Live, IsMarked
  <1>11. TypeOK'
    <2>1. /\ mark' \in [Object -> {"free", "w0", "w1", "gray", "black"}]
          /\ key' \in [Object -> Object \cup {Nil}] /\ val' \in [Object -> Object \cup {Nil}]
      BY <1>1, <1>2 DEF TypeOK
    <2>2. gcstate' = "sweepstring" /\ sweepgc' \subseteq Object
      BY <1>2 DEF StartSweep, RootList
    <2>3. QED
      BY <2>1, <2>2, <1>1, <1>2, <1>3 DEF TypeOK, Whites
  <1>12. Shape'
    <2>1. \A o \in Object : IsOpen(o) => mark'[owner[o]] # "free"
      BY <1>1, <1>10, Constants DEF Shape, TypeOK, IsOpen, Alive
    <2>2. \A o \in Object : o \in gone => Kind[o] = "table"
      BY <1>5, <1>7
    <2>3. QED
      BY <2>1, <2>2, <1>1, <1>2, <1>9, <1>10, Constants DEF Shape, IsOpen, Alive
  <1>13. RefsLive'
    <2> SUFFICES ASSUME NEW o \in Object, Live(o)'
                 PROVE  /\ LiveRef(key[o])'
                        /\ IF IsOpen(o)' THEN LiveRef(stack[owner[o]][slot[o]])' ELSE LiveRef(val[o])'
                        /\ Kind[o] = "thread" => \A i \in Slot : LiveRef(stack[o][i])'
      BY DEF RefsLive
    <2>1. \A v \in Object \cup {Nil} : MarkedRef(v) \/ v \in strings => LiveRef(v)'
      BY <1>10 DEF MarkedRef, LiveRef
    <2>2. CASE o \in gone
      BY <2>2, <1>2, <1>5, <1>7, <1>9 DEF LiveRef, IsOpen
    <2>3. CASE o \in weak \ gone
      <3>1. key'[o] = key[o] /\ val'[o] = val[o] /\ ~IsOpen(o)' /\ Kind[o] # "thread"
            /\ key[o] \in Object \cup {Nil} /\ val[o] \in Object \cup {Nil}
        BY <2>3, <1>1, <1>2, <1>5, <1>9 DEF TypeOK, IsOpen
      <3>2. /\ MarkedRef(key[o]) \/ key[o] \in strings
            /\ MarkedRef(val[o]) \/ val[o] \in strings
        BY <2>3, <1>8 DEF MarkedRef
      <3>3. QED
        BY <2>1, <3>1, <3>2, <1>10 DEF LiveRef, MarkedRef
    <2>4. CASE o \notin weak /\ o \in strings
      <3>1. key'[o] = Nil /\ val'[o] = Nil /\ ~IsOpen(o)' /\ Kind[o] = "string"
        BY <2>4, <1>1, <1>2, <1>6, <1>7, <1>9 DEF Shape, IsOpen
      <3>2. QED
        BY <3>1 DEF LiveRef
    <2>5. CASE o \notin weak /\ o \notin strings
      <3>1. IsMarked(o) /\ Done(o) /\ ~IsWeak(o)
        BY <2>5, <1>1, <1>2, <1>10 DEF Remarking, Pending, Lists
      <3>2. key'[o] = key[o] /\ val'[o] = val[o]
        BY <2>5, <1>7, <1>9
      <3>3. /\ MarkedRef(key[o]) /\ (Kind[o] = "thread" => \A i \in Slot : MarkedRef(stack[o][i]))
            /\ IF IsOpen(o) THEN MarkedRef(stack[owner[o]][slot[o]]) ELSE MarkedRef(val[o])
        BY <3>1 DEF Done, IsWeak
      <3>4. /\ key[o] \in Object \cup {Nil} /\ val[o] \in Object \cup {Nil}
            /\ Kind[o] = "thread" => \A i \in Slot : stack[o][i] \in Object \cup {Nil}
            /\ IsOpen(o) => stack[owner[o]][slot[o]] \in Object \cup {Nil}
        BY <1>1, Constants DEF TypeOK, Shape, Value, IsOpen
      <3>5. QED
        BY <3>2, <3>3, <3>4, <1>2, <1>10 DEF LiveRef, MarkedRef, IsOpen
    <2>6. QED
      BY <2>2, <2>3, <2>4, <2>5
  <1>14. RootsLive'
    BY <1>1, <1>2, <1>10, Constants DEF RootsLive, Propagating, Remarking, TypeOK
  <1>15. Colors'
    BY <1>1, <1>2, <1>6, <1>9 DEF Colors, IsOpen, Shape
  <1>16. Sweeping'
    BY <1>1, <1>2, <1>10, SweepAll
  <1>17. QED
    BY <1>2, <1>11, <1>12, <1>13, <1>14, <1>15, <1>16 DEF GInv, Phase, StartSweep

-----------------------------------------------------------------------------
(* Sweeping *)

\* What a sweep of some objects keeps: only what is dead is freed.
LEMMA SweepKeeps ==
    ASSUME TypeOK, Shape, RefsLive, RootsLive, Colors, NEW objects \in SUBSET Object,
           \A o \in objects : Alive(o),
           \A u \in Object : IsOpen(u) /\ owner[u] \in objects => u \in objects,
           gcstate' \in {"sweep", "finalize"}, sweepgc' \subseteq Object,
           sweeplist(objects)
    PROVE  /\ TypeOK' /\ Shape' /\ RefsLive' /\ RootsLive' /\ Colors'
           /\ \A o \in Object : IsOpen(o)' => IsOpen(o) /\ owner'[o] = owner[o]
           /\ \A o \in Object \ objects : mark'[o] = mark[o]
           /\ \A o \in objects : mark'[o] = "free" \/ mark'[o] = currentwhite
           /\ UNCHANGED <<tmudata, currentwhite, atomically>>
  <1> DEFINE gone == {o \in objects : IsDead(o)}
             closed == {u \in Of("upval") : IsOpen(u) /\ owner[u] \in gone} \ gone
  <1>1. /\ mark' = [o \in Object |-> IF o \in objects THEN swept(o) ELSE mark[o]]
        /\ key' = [o \in Object |-> IF o \in gone THEN Nil ELSE key[o]]
        /\ val' = [o \in Object |-> IF o \in gone THEN Nil
                                    ELSE IF o \in closed THEN ValueOf(o) ELSE val[o]]
        /\ owner' = [o \in Object |-> IF o \in gone \cup closed THEN Nil ELSE owner[o]]
        /\ slot' = [o \in Object |-> IF o \in gone \cup closed THEN 0 ELSE slot[o]]
        /\ fin' = [o \in Object |-> IF o \in gone THEN "no" ELSE fin[o]]
        /\ called' = [o \in Object |-> IF o \in gone THEN 0 ELSE called[o]]
        /\ stack' = [th \in Of("thread") |-> IF th \in gone THEN [i \in Slot |-> Nil] ELSE stack[th]]
        /\ UNCHANGED <<gray, grayagain, weak, tmudata, currentwhite, atomically, full, running, world>>
    BY DEF sweeplist, Without
  <1>2. /\ currentwhite \in {"w0", "w1"} /\ otherwhite \in {"w0", "w1"} /\ otherwhite # currentwhite
        /\ otherwhite' = otherwhite
    BY <1>1 DEF TypeOK, otherwhite, Whites
  <1>3. gone \subseteq Object /\ \A o \in Object : o \in gone <=> o \in objects /\ mark[o] = otherwhite
    BY DEF IsDead
  <1>4. /\ closed \subseteq Object /\ closed \subseteq objects
        /\ \A o \in Object : o \in closed <=> IsOpen(o) /\ owner[o] \in gone /\ o \notin gone
        /\ \A o \in closed : Kind[o] = "upval"
    <2>1. \A o \in Object : IsOpen(o) => o \in Of("upval")
      BY Constants DEF Shape
    <2>2. \A o \in closed : o \in Object /\ Kind[o] = "upval" /\ IsOpen(o) /\ owner[o] \in objects
      BY Constants
    <2>3. QED
      BY <2>1, <2>2
  <1>5. \A o \in Object : IsOpen(o) => /\ owner[o] \in Of("thread") /\ slot[o] \in Slot /\ Kind[o] = "upval"
                                       /\ ValueOf(o) = stack[owner[o]][slot[o]] /\ ValueOf(o) \in Value
                                       /\ val[o] = Nil
    BY DEF TypeOK, Shape, IsOpen, ValueOf
  <1> HIDE DEF gone, closed
  <1>6. \A o \in Object :
           /\ mark'[o] = (IF o \in gone THEN "free" ELSE IF o \in objects THEN currentwhite ELSE mark[o])
           /\ key'[o] = (IF o \in gone THEN Nil ELSE key[o])
           /\ val'[o] = (IF o \in gone THEN Nil ELSE IF o \in closed THEN ValueOf(o) ELSE val[o])
           /\ owner'[o] = (IF o \in gone \cup closed THEN Nil ELSE owner[o])
           /\ slot'[o] = (IF o \in gone \cup closed THEN 0 ELSE slot[o])
    BY <1>1, <1>3 DEF swept, IsDead
  <1>7. \A t \in Of("thread") : stack'[t] = IF t \in gone THEN [i \in Slot |-> Nil] ELSE stack[t]
    BY <1>1
  <1>8. \A o \in Object : (Live(o)' <=> Live(o)) /\ (Alive(o)' <=> Alive(o) /\ o \notin gone)
                          /\ (o \in gone => ~Live(o)) /\ (o \in objects => Alive(o))
    BY <1>2, <1>3, <1>6 DEF Live, Alive
  <1>9. \A v \in Object \cup {Nil} : LiveRef(v)' <=> LiveRef(v)
    BY <1>8 DEF LiveRef
  <1>10. TypeOK'
    <2>1. mark' \in [Object -> {"free", "w0", "w1", "gray", "black"}]
      BY <1>1, <1>2 DEF TypeOK, swept
    <2>2. key' \in [Object -> Object \cup {Nil}] /\ val' \in [Object -> Object \cup {Nil}]
      BY <1>1, <1>4, <1>5 DEF TypeOK, Value
    <2>3. 0 \in 0 .. StackSize
      BY CollectorAssumption
    <2>4. owner' \in [Object -> Of("thread") \cup {Nil}] /\ slot' \in [Object -> 0 .. StackSize]
      BY <1>1, <2>3 DEF TypeOK
    <2>5. fin' \in [Object -> {"no", "without", "with"}] /\ called' \in [Object -> 0 .. 2]
      BY <1>1 DEF TypeOK
    <2>6. stack' \in [Of("thread") -> [Slot -> Value]]
      BY <1>1, Constants DEF TypeOK
    <2>7. QED
      BY <2>1, <2>2, <2>4, <2>5, <2>6, <1>1 DEF TypeOK
  <1>11. Shape'
    <2>1. \A o \in Object : IsOpen(o)' => /\ IsOpen(o) /\ o \notin gone /\ owner[o] \notin gone
                                          /\ owner'[o] = owner[o] /\ slot'[o] = slot[o] /\ val'[o] = Nil
      BY <1>4, <1>5, <1>6 DEF IsOpen
    <2>2. \A o \in Object : IsOpen(o)' => mark'[owner'[o]] # "free"
      BY <2>1, <1>8, Constants DEF Shape, TypeOK, IsOpen, Alive
    <2>3. \A o \in Object : Kind[o] = "userdata" /\ val'[o] # Nil => val'[o] = val[o]
      BY <1>4, <1>6
    <2>4. \A o \in Object : o \notin gone /\ o \notin closed => val'[o] = val[o]
      BY <1>6
    <2>5. \A o \in Object : o \in closed => Kind[o] = "upval" /\ val'[o] \in Value /\ mark'[o] # "free"
      BY <1>4, <1>5, <1>6, <1>8 DEF Alive
    <2>6. \A o \in Object : Kind[o] = "thread" =>
             /\ o \in gone => \A i \in Slot : stack'[o][i] = Nil
             /\ o \notin gone => stack'[o] = stack[o]
      BY <1>7, Constants
    <2>7. ASSUME NEW o \in Object
          PROVE  /\ key'[o] \in Value /\ (Kind[o] # "table" => key'[o] = Nil)
                 /\ Kind[o] # "closure" => val'[o] \in Value
                 /\ Kind[o] = "closure" /\ mark'[o] # "free" => val'[o] \in Of("upval")
                 /\ Kind[o] \in {"thread", "string"} => val'[o] = Nil
                 /\ mark'[o] = "free" => key'[o] = Nil /\ val'[o] = Nil
                 /\ mark'[o] = "free" /\ Kind[o] = "thread" => \A i \in Slot : stack'[o][i] = Nil
      <3>1. CASE o \in gone
        BY <3>1, <2>6, <1>6, Constants
      <3>2. CASE o \in closed
        BY <3>2, <2>5, <1>4, <1>5, <1>6 DEF Shape
      <3>3. CASE o \notin gone /\ o \notin closed
        BY <3>3, <2>4, <2>6, <1>6, <1>8 DEF Shape, Alive
      <3>4. QED
        BY <3>1, <3>2, <3>3
    <2>8. \A o \in Object : Kind[o] = "userdata" /\ val'[o] # Nil => Kind[val'[o]] = "table"
      BY <2>3 DEF Shape
    <2>9. \A o \in Object : IsOpen(o)' => Kind[o] = "upval" /\ slot'[o] \in Slot /\ mark'[o] # "free"
      BY <2>1, <1>5, <1>8 DEF Shape, Alive
    <2>10. QED
      BY <2>1, <2>2, <2>7, <2>8, <2>9 DEF Shape, Alive
  <1>12. RefsLive'
    <2> SUFFICES ASSUME NEW o \in Object, Live(o)'
                 PROVE  /\ LiveRef(key[o])'
                        /\ IF IsOpen(o)' THEN LiveRef(stack[owner[o]][slot[o]])' ELSE LiveRef(val[o])'
                        /\ Kind[o] = "thread" => \A i \in Slot : LiveRef(stack[o][i])'
      BY DEF RefsLive
    <2>1. Live(o) /\ o \notin gone
      BY <1>8
    <2>2. /\ LiveRef(key[o])
          /\ IF IsOpen(o) THEN LiveRef(ValueOf(o)) ELSE LiveRef(val[o])
          /\ Kind[o] = "thread" => \A i \in Slot : LiveRef(stack[o][i])
      BY <2>1, <1>5 DEF RefsLive
    <2>3. LiveRef(key[o])'
      BY <2>1, <2>2, <1>6, <1>8 DEF LiveRef, TypeOK
    <2>4. Kind[o] = "thread" => \A i \in Slot : LiveRef(stack[o][i])'
      <3>1. SUFFICES ASSUME Kind[o] = "thread", NEW i \in Slot PROVE LiveRef(stack[o][i])'
        OBVIOUS
      <3>2. stack'[o][i] = stack[o][i] /\ stack[o][i] \in Object \cup {Nil} /\ LiveRef(stack[o][i])
        BY <3>1, <2>1, <2>2, <1>7, Constants DEF TypeOK, Value
      <3>3. QED
        BY <3>2, <1>8 DEF LiveRef
    <2>5. CASE o \in closed
      <3>1. val'[o] = ValueOf(o) /\ ~IsOpen(o)' /\ ValueOf(o) \in Object \cup {Nil} /\ LiveRef(ValueOf(o))
        BY <2>1, <2>2, <2>5, <1>4, <1>5, <1>6 DEF IsOpen, Value
      <3>2. QED
        BY <3>1, <2>3, <2>4, <1>8 DEF LiveRef
    <2>6. CASE o \notin closed /\ IsOpen(o)
      <3>1. owner'[o] = owner[o] /\ slot'[o] = slot[o] /\ stack'[owner[o]] = stack[owner[o]] /\ IsOpen(o)'
        BY <2>1, <2>6, <1>4, <1>5, <1>6, <1>7 DEF IsOpen
      <3>2. LiveRef(stack[owner[o]][slot[o]]) /\ stack[owner[o]][slot[o]] \in Object \cup {Nil}
        BY <2>2, <2>6, <1>5 DEF Value
      <3>3. QED
        BY <3>1, <3>2, <2>3, <2>4, <1>8 DEF LiveRef
    <2>7. CASE o \notin closed /\ ~IsOpen(o)
      BY <2>1, <2>2, <2>3, <2>4, <2>7, <1>6, <1>8 DEF LiveRef, IsOpen, TypeOK
    <2>8. QED
      BY <2>5, <2>6, <2>7
  <1>13. RootsLive'
    BY <1>1, <1>8, Constants DEF RootsLive, TypeOK
  <1>14. \A o \in Object : IsOpen(o)' => IsOpen(o) /\ owner'[o] = owner[o]
    BY <1>6 DEF IsOpen
  <1>15. Colors'
    <2>1. \A o \in Object : mark'[o] \in {"gray", "black"} => o \notin objects /\ mark'[o] = mark[o]
      BY <1>2, <1>3, <1>6
    <2>2. \A o \in Object : o \notin objects => (IsOpen(o)' <=> IsOpen(o))
      BY <1>3, <1>4, <1>6 DEF IsOpen
    <2>3. QED
      BY <2>1, <2>2 DEF Colors
  <1>16. \A o \in objects : mark'[o] = "free" \/ mark'[o] = currentwhite
    BY <1>6
  <1>17. \A o \in Object \ objects : mark'[o] = mark[o]
    BY <1>3, <1>6
  <1>18. QED
    BY <1>1, <1>10, <1>11, <1>12, <1>13, <1>14, <1>15, <1>16, <1>17

LEMMA SweepStringsStep == ASSUME GInv, SweepStrings PROVE GInv'
  <1>1. TypeOK /\ Shape /\ RefsLive /\ RootsLive /\ Colors /\ Phase /\ Sweeping
    BY DEF GInv, Phase, SweepStrings
  <1> DEFINE objects == {o \in Of("string") : Alive(o)}
  <1>2. /\ gcstate = "sweepstring" /\ gcstate' = "sweep" /\ sweepgc' = sweepgc
        /\ sweeplist(objects)
    BY DEF SweepStrings
  <1>3. objects \subseteq Object /\ \A o \in Object : o \in objects <=> Kind[o] = "string" /\ Alive(o)
    BY Constants
  <1> HIDE DEF objects
  <1>4. \A u \in Object : IsOpen(u) /\ owner[u] \in objects => u \in objects
    BY <1>1, <1>3, Constants DEF TypeOK, IsOpen
  <1>5. /\ TypeOK' /\ Shape' /\ RefsLive' /\ RootsLive' /\ Colors'
        /\ \A o \in Object : IsOpen(o)' => IsOpen(o) /\ owner'[o] = owner[o]
        /\ \A o \in Object \ objects : mark'[o] = mark[o]
        /\ \A o \in objects : mark'[o] = "free" \/ mark'[o] = currentwhite
        /\ UNCHANGED <<tmudata, currentwhite, atomically>>
    <2>1. objects \in SUBSET Object /\ (\A o \in objects : Alive(o))
          /\ sweepgc' \subseteq Object /\ gcstate' \in {"sweep", "finalize"}
      BY <1>1, <1>2, <1>3 DEF TypeOK
    <2>2. QED
      BY <2>1, <1>1, <1>2, <1>4, SweepKeeps
  <1>6. \A o \in Object : mark'[o] # "free" /\ mark'[o] # currentwhite => mark'[o] = mark[o] /\ Kind[o] # "string"
    BY <1>3, <1>5 DEF Alive
  <1>7. ASSUME NEW o \in Object, mark'[o] # "free", mark'[o] # currentwhite
        PROVE  o \in sweepgc \cup tmudata \cup {Main, Globals} \/ (owner'[o] # Nil /\ owner'[o] \in sweepgc \cup {Main})
    <2>1. mark[o] # "free" /\ mark[o] # currentwhite /\ Kind[o] # "string"
      BY <1>6, <1>7
    <2>2. o \in sweepgc \cup tmudata \cup {Main, Globals} \/ (IsOpen(o) /\ owner[o] \in sweepgc \cup {Main})
      BY <2>1, <1>1 DEF Sweeping, Alive
    <2>3. IsOpen(o) /\ owner[o] \in sweepgc \cup {Main} => owner'[o] = owner[o]
      <3>1. SUFFICES ASSUME IsOpen(o), owner[o] \in sweepgc \cup {Main} PROVE owner'[o] = owner[o]
        OBVIOUS
      <3>2. o \notin objects /\ owner[o] \in Of("thread") /\ owner[o] \notin objects
        BY <3>1, <2>1, <1>1, <1>3, Constants DEF TypeOK, IsOpen
      <3>3. QED
        BY <3>2, <1>1, <1>2 DEF sweeplist, Without, TypeOK
    <2>4. QED
      BY <2>2, <2>3 DEF IsOpen
  <1>8. \A o \in sweepgc : mark'[o] # "free" /\ ~IsOpen(o)'
    BY <1>1, <1>3, <1>5 DEF Sweeping, TypeOK, Alive
  <1>9. Sweeping'
    BY <1>1, <1>2, <1>5, <1>7, <1>8 DEF Sweeping, Alive, IsOpen
  <1>10. QED
    BY <1>1, <1>2, <1>5, <1>9 DEF GInv, Phase

\* A thread is swept with its open upvalues.
LEMMA WithUpvals ==
    ASSUME TypeOK, Shape, NEW objects \in SUBSET Object, \A o \in objects : Alive(o),
           NEW all, \A u : u \in all <=> u \in objects \/ \E o \in objects : u \in OpenUpvals(o)
    PROVE  /\ all \subseteq Object /\ \A o \in all : Alive(o)
           /\ \A u \in Object : IsOpen(u) /\ owner[u] \in all => u \in all /\ owner[u] \in objects
           /\ \A u \in all : u \in objects \/ IsOpen(u)
  <1>1. \A u, o : u \in OpenUpvals(o) => u \in Object /\ Kind[u] = "upval" /\ owner[u] = o
    BY Constants DEF OpenUpvals
  <1>2. \A u \in all \ objects : u \in Object /\ Kind[u] = "upval" /\ owner[u] \in objects /\ owner[u] # Nil
    BY <1>1, Constants
  <1>3. ASSUME NEW u \in Object, IsOpen(u), owner[u] \in all PROVE u \in all /\ owner[u] \in objects
    <2>1. owner[u] \in Of("thread") /\ u \in Of("upval")
      BY <1>3, Constants DEF TypeOK, Shape, IsOpen
    <2>2. owner[u] \in objects
      BY <2>1, <1>2, <1>3, Constants
    <2>3. u \in OpenUpvals(owner[u])
      BY <2>1 DEF OpenUpvals
    <2>4. QED
      BY <2>2, <2>3
  <1>4. QED
    BY <1>2, <1>3 DEF Shape, IsOpen

LEMMA SweepOneStep == ASSUME GInv, NEW s \in sweepgc, SweepOne(s) PROVE GInv'
  <1>1. TypeOK /\ Shape /\ RefsLive /\ RootsLive /\ Colors /\ Phase /\ Sweeping
    BY DEF GInv, Phase, SweepOne
  <1> DEFINE objects == {s} \cup OpenUpvals(s)
  <1>2. /\ gcstate = "sweep" /\ gcstate' = "sweep" /\ sweepgc' = sweepgc \ {s}
        /\ sweeplist(objects)
    BY DEF SweepOne
  <1>3. \A u : u \in objects <=> u \in {s} \/ \E o \in {s} : u \in OpenUpvals(o)
    OBVIOUS
  <1>4. {s} \in SUBSET Object /\ \A o \in {s} : Alive(o)
    BY <1>1 DEF TypeOK, Sweeping
  <1> HIDE DEF objects
  <1>5. /\ objects \subseteq Object /\ \A o \in objects : Alive(o)
        /\ \A u \in Object : IsOpen(u) /\ owner[u] \in objects => u \in objects /\ owner[u] \in {s}
        /\ \A u \in objects : u \in {s} \/ IsOpen(u)
    BY <1>1, <1>3, <1>4, WithUpvals
  <1>6. /\ TypeOK' /\ Shape' /\ RefsLive' /\ RootsLive' /\ Colors'
        /\ \A o \in Object : IsOpen(o)' => IsOpen(o) /\ owner'[o] = owner[o]
        /\ \A o \in Object \ objects : mark'[o] = mark[o]
        /\ \A o \in objects : mark'[o] = "free" \/ mark'[o] = currentwhite
        /\ UNCHANGED <<tmudata, currentwhite, atomically>>
    <2>1. sweepgc' \subseteq Object /\ gcstate' \in {"sweep", "finalize"}
      BY <1>1, <1>2 DEF TypeOK
    <2>2. QED
      BY <2>1, <1>1, <1>2, <1>5, SweepKeeps
  <1>7. \A u \in OpenUpvals(s) : u \in objects
    BY DEF objects
  <1>8. s \in objects
    BY DEF objects
  <1>9. ASSUME NEW o \in Object, mark'[o] # "free", mark'[o] # currentwhite
        PROVE  \/ o \in (sweepgc \ {s}) \cup tmudata \cup {Main, Globals}
               \/ owner'[o] # Nil /\ owner'[o] \in (sweepgc \ {s}) \cup {Main}
    <2>1. mark[o] # "free" /\ mark[o] # currentwhite /\ o \notin objects
      BY <1>6, <1>9
    <2>2. o \in sweepgc \cup tmudata \cup {Main, Globals} \/ (IsOpen(o) /\ owner[o] \in sweepgc \cup {Main})
      BY <2>1, <1>1, <1>2 DEF Sweeping, Alive
    <2>3. IsOpen(o) /\ owner[o] \in sweepgc \cup {Main} => owner'[o] = owner[o] /\ owner[o] # s
      <3>1. SUFFICES ASSUME IsOpen(o) PROVE owner'[o] = owner[o] /\ owner[o] # s
        OBVIOUS
      <3>2. o \notin objects /\ owner[o] \notin objects
        BY <3>1, <2>1, <1>5
      <3>3. QED
        BY <3>2, <1>1, <1>2, <1>8 DEF sweeplist, Without, TypeOK
    <2>4. QED
      BY <2>1, <2>2, <2>3, <1>8 DEF IsOpen
  <1>10. \A o \in sweepgc \ {s} : mark'[o] # "free" /\ ~IsOpen(o)'
    BY <1>1, <1>5, <1>6 DEF Sweeping, TypeOK, Alive
  <1>11. Sweeping'
    BY <1>1, <1>2, <1>6, <1>9, <1>10 DEF Sweeping, Alive, IsOpen
  <1>12. QED
    BY <1>1, <1>2, <1>6, <1>11 DEF GInv, Phase

LEMMA EndSweepStep == ASSUME GInv, EndSweep PROVE GInv'
  <1>1. TypeOK /\ Shape /\ RefsLive /\ RootsLive /\ Colors /\ Phase /\ Sweeping
    BY DEF GInv, Phase, EndSweep
  <1> DEFINE objects == {Main, Globals} \cup OpenUpvals(Main)
  <1>2. /\ gcstate = "sweep" /\ gcstate' = "finalize" /\ sweepgc' = sweepgc /\ sweepgc = {}
        /\ sweeplist(objects)
    BY DEF EndSweep
  <1>3. \A u : u \in objects <=> u \in {Main, Globals} \/ \E o \in {Main, Globals} : u \in OpenUpvals(o)
    <2>1. \A u : u \notin OpenUpvals(Globals)
      BY <1>1, Constants DEF OpenUpvals, TypeOK
    <2>2. QED
      BY <2>1
  <1>4. {Main, Globals} \in SUBSET Object /\ \A o \in {Main, Globals} : Alive(o)
    BY <1>1, Constants DEF RootsLive, Live, Alive
  <1> HIDE DEF objects
  <1>5. /\ objects \subseteq Object /\ \A o \in objects : Alive(o)
        /\ \A u \in Object : IsOpen(u) /\ owner[u] \in objects => u \in objects
    BY <1>1, <1>3, <1>4, WithUpvals
  <1>6. /\ TypeOK' /\ Shape' /\ RefsLive' /\ RootsLive' /\ Colors'
        /\ \A o \in Object \ objects : mark'[o] = mark[o]
        /\ \A o \in objects : mark'[o] = "free" \/ mark'[o] = currentwhite
        /\ UNCHANGED <<tmudata, currentwhite, atomically>>
    <2>1. sweepgc' \subseteq Object /\ gcstate' \in {"sweep", "finalize"}
      BY <1>1, <1>2 DEF TypeOK
    <2>2. QED
      BY <2>1, <1>1, <1>2, <1>5, SweepKeeps
  <1>7. ASSUME NEW o \in Object, mark'[o] # "free", mark'[o] # currentwhite PROVE o \in tmudata
    <2>1. mark[o] # "free" /\ mark[o] # currentwhite /\ o \notin objects
      BY <1>6, <1>7
    <2>2. o \in tmudata \cup {Main, Globals} \/ (IsOpen(o) /\ owner[o] = Main)
      BY <2>1, <1>1, <1>2 DEF Sweeping, Alive
    <2>3. Main \in objects /\ Globals \in objects
      BY DEF objects
    <2>4. QED
      BY <2>1, <2>2, <2>3, <1>5
  <1>8. Finalizing'
    BY <1>6, <1>7 DEF Finalizing, Alive
  <1>9. QED
    BY <1>1, <1>2, <1>6, <1>8 DEF GInv, Phase

-----------------------------------------------------------------------------
(* Finalizers, and the collector as a whole *)

\* The finalizer of u is called; u is of the program again.
LEMMA GCTMStep == ASSUME GInv, NEW u \in tmudata, GCTM(u) PROVE GInv'
  <1>1. TypeOK /\ Shape /\ RefsLive /\ RootsLive /\ Colors /\ Phase /\ Finalizing
    BY DEF GInv, Phase, GCTM
  <1>2. /\ UNCHANGED <<gray, grayagain, key, val, owner, slot, fin, currentwhite, gcstate, atomically,
                       full, weak, sweepgc, running, world>>
        /\ gcstate = "finalize" /\ tmudata' = tmudata \ {u}
        /\ mark' = [mark EXCEPT ![u] = currentwhite]
        /\ called' = [called EXCEPT ![u] = IF called[u] = 0 THEN 1 ELSE 2]
    BY DEF GCTM
  <1>3. u \in Object /\ Kind[u] = "userdata" /\ u \in Value /\ Live(u)
    BY <1>1, Constants DEF TypeOK, RootsLive
  <1>4. /\ currentwhite \in {"w0", "w1"} /\ otherwhite \in {"w0", "w1"} /\ otherwhite # currentwhite
        /\ otherwhite' = otherwhite
    BY <1>1, <1>2 DEF TypeOK, otherwhite, Whites
  <1>5. running \in Of("thread") /\ Live(running) /\ running \in Object
    BY <1>1, Constants DEF TypeOK, RootsLive
  <1>6. /\ stack' \in [Of("thread") -> [Slot -> Value]]
        /\ \A t \in Of("thread"), k \in Slot : stack'[t][k] = stack[t][k] \/ (t = running /\ stack'[t][k] = u)
    <2>1. CASE stack' = stack
      BY <2>1, <1>1 DEF TypeOK
    <2>2. CASE \E i \in Slots : stack' = [stack EXCEPT ![running][i] = u]
      <3>1. PICK i \in Slots : stack' = [stack EXCEPT ![running][i] = u]
        BY <2>2
      <3>2. i \in Slot /\ stack \in [Of("thread") -> [Slot -> Value]]
        BY <1>1, SlotsInRange DEF TypeOK
      <3>3. /\ stack' \in [Of("thread") -> [Slot -> Value]]
            /\ \A t \in Of("thread"), k \in Slot :
                  stack'[t][k] = IF t = running /\ k = i THEN u ELSE stack[t][k]
        BY <3>1, <3>2, <1>3, <1>5, Write
      <3>4. QED
        BY <3>3
    <2>3. QED
      BY <2>1, <2>2 DEF GCTM, Slots
  <1>7. \A o \in Object : mark'[o] = IF o = u THEN currentwhite ELSE mark[o]
    BY <1>1, <1>2 DEF TypeOK
  <1>8. \A o \in Object : (Live(o)' <=> Live(o)) /\ (Alive(o)' <=> Alive(o))
    BY <1>3, <1>4, <1>7 DEF Live, Alive
  <1>9. TypeOK'
    <2>1. called' \in [Object -> 0 .. 2] /\ mark' \in [Object -> {"free", "w0", "w1", "gray", "black"}]
      <3>1. (IF called[u] = 0 THEN 1 ELSE 2) \in 0 .. 2
        OBVIOUS
      <3>2. called' \in [Object -> 0 .. 2]
        BY <3>1, <1>1, <1>2 DEF TypeOK
      <3>3. QED
        BY <3>2, <1>1, <1>2, <1>4 DEF TypeOK
    <2>2. tmudata' \subseteq Of("userdata")
      BY <1>1, <1>2 DEF TypeOK
    <2>3. QED
      BY <2>1, <2>2, <1>1, <1>2, <1>6 DEF TypeOK
  <1>10. Shape'
    <2>1. ASSUME NEW o \in Object, ~Alive(o), Kind[o] = "thread" PROVE \A i \in Slot : stack'[o][i] = Nil
      BY <2>1, <1>1, <1>5, <1>6, Constants DEF Shape, Live, Alive
    <2>2. \A o \in Object : IsOpen(o) => mark'[owner[o]] # "free"
      BY <1>1, <1>8, Constants DEF Shape, TypeOK, IsOpen, Alive
    <2>3. QED
      BY <2>1, <2>2, <1>1, <1>2, <1>8 DEF Shape, IsOpen, Alive
  <1>11. RefsLive'
    <2>1. ASSUME NEW t \in Of("thread"), NEW k \in Slot, LiveRef(stack[t][k]) PROVE LiveRef(stack[t][k])'
      <3>1. stack[t][k] \in Object \cup {Nil}
        BY <1>1 DEF TypeOK, Value
      <3>2. stack'[t][k] = u \/ stack'[t][k] = stack[t][k]
        BY <1>6
      <3>3. QED
        BY <3>1, <3>2, <2>1, <1>3, <1>8 DEF LiveRef
    <2>2. \A o \in Object : IsOpen(o) => owner[o] \in Of("thread") /\ slot[o] \in Slot
      BY <1>1 DEF TypeOK, Shape, IsOpen
    <2>3. \A o \in Object : IsOpen(o) /\ LiveRef(stack[owner[o]][slot[o]]) => LiveRef(stack[owner[o]][slot[o]])'
      BY <2>1, <2>2, <1>2
    <2>4. \A o \in Object : (LiveRef(key[o]) => LiveRef(key[o])') /\ (LiveRef(val[o]) => LiveRef(val[o])')
      BY <1>1, <1>2, <1>8 DEF LiveRef, TypeOK
    <2>5. \A o \in Object : IsOpen(o)' <=> IsOpen(o)
      BY <1>2 DEF IsOpen
    <2>6. QED
      BY <2>1, <2>3, <2>4, <2>5, <1>1, <1>8, Constants DEF RefsLive
  <1>12. RootsLive' /\ Colors'
    <2>1. RootsLive'
      BY <1>1, <1>2, <1>8, Constants DEF RootsLive, TypeOK
    <2>2. QED
      BY <2>1, <1>1, <1>2, <1>4, <1>7 DEF Colors, IsOpen
  <1>13. Finalizing'
    BY <1>1, <1>2, <1>7, <1>8 DEF Finalizing, Alive
  <1>14. QED
    BY <1>1, <1>2, <1>9, <1>10, <1>11, <1>12, <1>13 DEF GInv, Phase

LEMMA EndCycleStep == ASSUME GInv, EndCycle PROVE GInv'
  <1>1. /\ UNCHANGED <<mark, gray, grayagain, key, val, owner, slot, stack, fin, called, currentwhite,
                       atomically, weak, sweepgc, tmudata, running, world>>
        /\ gcstate = "finalize" /\ gcstate' = "pause" /\ full' = "no" /\ tmudata = {}
    BY DEF EndCycle, barriers, heap, udata
  <1>2. TypeOK' /\ Shape'
    BY <1>1 DEF GInv, TypeOK, Shape, Alive, IsOpen
  <1>3. RefsLive' /\ RootsLive' /\ Colors'
    BY <1>1 DEF GInv, RefsLive, RootsLive, Live, LiveRef, otherwhite, Colors, IsOpen
  <1>4. Phase'
    BY <1>1 DEF GInv, Phase, Finalizing, Alive
  <1>5. QED
    BY <1>2, <1>3, <1>4 DEF GInv

LEMMA FullGCStep == ASSUME GInv, FullGC PROVE GInv'
  <1>1. TypeOK /\ Shape /\ RefsLive /\ RootsLive /\ Colors /\ Phase
    BY DEF GInv
  <1>2. /\ UNCHANGED <<mark, key, val, owner, slot, stack, fin, called, currentwhite, atomically,
                       tmudata, running, world>>
        /\ atomically = "no" /\ full' = "sweep"
    BY DEF FullGC, heap, udata
  <1>3. \/ StartSweep /\ gray' = {} /\ grayagain' = {} /\ weak' = {}
        \/ gcstate \notin {"pause", "propagate"} /\ UNCHANGED <<gcstate, sweepgc, gray, grayagain, weak>>
    BY DEF FullGC
  <1>4. TypeOK'
    BY <1>1, <1>2, <1>3 DEF TypeOK, StartSweep, RootList
  <1>5. Shape'
    BY <1>1, <1>2 DEF Shape, Alive, IsOpen
  <1>6. RefsLive' /\ RootsLive' /\ Colors'
    BY <1>1, <1>2 DEF RefsLive, RootsLive, Live, LiveRef, otherwhite, Colors, IsOpen
  <1>7. CASE StartSweep
    <2>1. Sweeping'
      BY <1>1, <1>2, <1>7, SweepAll
    <2>2. gcstate' = "sweepstring"
      BY <1>7 DEF StartSweep
    <2>3. QED
      BY <2>1, <2>2, <1>2, <1>4, <1>5, <1>6 DEF GInv, Phase
  <1>8. CASE gcstate \notin {"pause", "propagate"} /\ UNCHANGED <<gcstate, sweepgc, gray, grayagain, weak>>
    <2>1. Phase'
      BY <1>1, <1>2, <1>8 DEF Phase, Sweeping, Finalizing, Alive, IsOpen
    <2>2. QED
      BY <2>1, <1>4, <1>5, <1>6 DEF GInv
  <1>9. QED
    BY <1>3, <1>7, <1>8

LEMMA StepStep == ASSUME GInv, Step PROVE GInv'
  <1>1. CASE Pause
    BY <1>1, MarkRootStep DEF Pause
  <1>2. CASE MarkAgain
    BY <1>2, MarkRootStep DEF MarkAgain
  <1>3. CASE Atomic
    BY <1>3, RemarkUpvalsStep, RemarkWeakStep, RemarkGrayAgainStep, SeparateUdataStep, ClearWeakStep DEF Atomic
  <1>4. QED
    BY <1>1, <1>2, <1>3, PropagateStep, SweepStringsStep, SweepOneStep, EndSweepStep, GCTMStep,
       EndCycleStep DEF Step

LEMMA Initially == Init => GInv
  <1> SUFFICES ASSUME Init PROVE GInv
    OBVIOUS
  <1>1. /\ mark = [o \in Object |-> IF o \in {Main, Globals} THEN "w0" ELSE "free"]
        /\ key = [o \in Object |-> Nil] /\ val = [o \in Object |-> Nil]
        /\ owner = [o \in Object |-> Nil] /\ slot = [o \in Object |-> 0]
        /\ fin = [o \in Object |-> "no"] /\ called = [o \in Object |-> 0]
        /\ stack = [th \in Of("thread") |-> [i \in Slot |-> Nil]]
        /\ running = Main /\ world \in Worlds
        /\ currentwhite = "w0" /\ gcstate = "pause" /\ atomically = "no" /\ full = "no"
        /\ gray = {} /\ grayagain = {} /\ weak = {} /\ sweepgc = {} /\ tmudata = {}
    BY DEF Init
  <1>2. otherwhite = "w1"
    BY <1>1 DEF otherwhite
  <1>3. TypeOK
    BY <1>1, Constants, CollectorAssumption DEF TypeOK, Whites
  <1>4. Shape
    BY <1>1, Constants DEF Shape, Alive, IsOpen
  <1>5. RefsLive /\ RootsLive
    <2>1. LiveRef(Nil)
      BY DEF LiveRef
    <2>2. RefsLive
      BY <2>1, <1>1, Constants DEF RefsLive, IsOpen
    <2>3. RootsLive
      BY <1>1, <1>2, Constants DEF RootsLive, Live
    <2>4. QED
      BY <2>2, <2>3
  <1>6. Colors /\ Phase
    BY <1>1, <1>2 DEF Colors, Phase, Finalizing, Alive
  <1>7. QED
    BY <1>3, <1>4, <1>5, <1>6 DEF GInv

LEMMA Stuttering == GInv /\ UNCHANGED vars => GInv'
  <1> SUFFICES ASSUME GInv, UNCHANGED vars PROVE GInv'
    OBVIOUS
  <1>1. UNCHANGED <<mark, gray, grayagain, key, val, owner, slot, stack, fin, called, currentwhite, gcstate,
                    atomically, full, weak, sweepgc, tmudata, running, world>>
    BY DEF vars, barriers, heap, udata, cycle
  <1>2. TypeOK' /\ Shape'
    BY <1>1 DEF GInv, TypeOK, Shape, Alive, IsOpen
  <1>3. RefsLive' /\ RootsLive' /\ Colors'
    BY <1>1 DEF GInv, RefsLive, RootsLive, Live, LiveRef, otherwhite, Colors, IsOpen
  <1>4. Phase'
    <2>1. (Lists => Lists') /\ (Tricolor => Tricolor') /\ (Remarking => Remarking')
      BY <1>1 DEF Lists, Tricolor, Remarking, Pending, Done, MarkedRef, IsMarked, IsOpen
    <2>2. (Propagating => Propagating') /\ (Sweeping => Sweeping') /\ (Finalizing => Finalizing')
      BY <1>1, <2>1 DEF Propagating, Sweeping, Finalizing, IsMarked, IsOpen, Alive, otherwhite
    <2>3. QED
      BY <1>1, <2>2 DEF GInv, Phase
  <1>5. QED
    BY <1>2, <1>3, <1>4 DEF GInv

LEMMA Inductive == GInv /\ [Next]_vars => GInv'
  BY ProgramStep, StepStep, FullGCStep, Stuttering DEF Next

LEMMA Invariant == Spec => []GInv
  BY Initially, Inductive, PTL DEF Spec

\* What the variables hold: marks, lists of objects, an entry for each table,
\* for every set of objects, every program and any depth of stacks.
THEOREM TypeCorrect == Spec => []TypeOK
  <1>1. GInv => TypeOK
    BY DEF GInv
  <1>2. QED
    BY <1>1, Invariant, PTL

-----------------------------------------------------------------------------
(* Reachability *)

LEMMA LeastElement ==
    ASSUME NEW T \in SUBSET Nat, T # {}
    PROVE  \E x \in T : \A y \in T : x <= y
  <1> DEFINE R == {ss \in Nat \X Nat : ss[1] < ss[2]}
  <1>1. IsWellFoundedOn(R, Nat)
    BY NatLessThanWellFounded DEF OpToRel
  <1>2. \A x, y \in Nat : <<y, x>> \in R <=> y < x
    OBVIOUS
  <1> HIDE DEF R
  <1>3. PICK x \in T : \A y \in T : ~ (<<y, x>> \in R)
    BY <1>1, WFMin
  <1>4. ASSUME NEW y \in T PROVE x <= y
    <2>1. ~ (y < x)
      BY <1>2, <1>3, Zenon
    <2>2. x \in Nat /\ y \in Nat
      OBVIOUS
    <2>3. QED
      BY <2>1, <2>2
  <1>5. QED
    BY <1>4

\* f is what is reached from some objects in each number of steps up to n.
ReachedIn(start, n, f) ==
    f = [k \in 0 .. n |-> IF k = 0 THEN start ELSE WithReferred(f[k - 1])]

LEMMA ReachedExists ==
    ASSUME NEW start, NEW n \in Nat
    PROVE  \E f : ReachedIn(start, n, f)
  <1> DEFINE T == {k \in Nat : ~ \E f : ReachedIn(start, k, f)}
  <1>1. SUFFICES ASSUME T # {} PROVE FALSE
    OBVIOUS
  <1>2. T \in SUBSET Nat
    OBVIOUS
  <1> HIDE DEF T
  <1>3. PICK k \in T : \A y \in T : k <= y
    BY <1>1, <1>2, LeastElement
  <1>4. k \in Nat /\ ~ \E f : ReachedIn(start, k, f)
    BY <1>3 DEF T
  <1>5. CASE k = 0
    <2>1. ReachedIn(start, 0, [i \in 0 .. 0 |-> start])
      BY DEF ReachedIn
    <2>2. QED
      BY <1>4, <1>5, <2>1
  <1>6. CASE k # 0
    <2>1. k - 1 \in Nat /\ k - 1 \notin T
      BY <1>3, <1>4, <1>6
    <2>2. PICK f : ReachedIn(start, k - 1, f)
      BY <2>1 DEF T
    <2> DEFINE g == [i \in 0 .. k |-> IF i = k THEN WithReferred(f[k - 1]) ELSE f[i]]
    <2>3. \A i \in 0 .. k - 1 : f[i] = IF i = 0 THEN start ELSE WithReferred(f[i - 1])
      BY <2>2 DEF ReachedIn
    <2>4. ASSUME NEW i \in 0 .. k
          PROVE  g[i] = IF i = 0 THEN start ELSE WithReferred(g[i - 1])
      <3>1. i # 0 => g[i - 1] = f[i - 1]
        BY <1>4
      <3>2. g[i] = IF i = 0 THEN start ELSE WithReferred(f[i - 1])
        BY <1>4, <1>6, <2>3
      <3>3. QED
        BY <3>1, <3>2
    <2>5. g = [i \in 0 .. k |-> IF i = 0 THEN start ELSE WithReferred(g[i - 1])]
      BY <2>4
    <2>6. ReachedIn(start, k, g)
      BY <2>5 DEF ReachedIn
    <2>7. QED
      BY <1>4, <2>6
  <1>7. QED
    BY <1>5, <1>6

LEMMA FromSteps ==
    ASSUME NEW start
    PROVE  /\ Cardinality(Object) \in Nat
           /\ \E f : /\ From(start) = f[Cardinality(Object)] /\ f[0] = start
                     /\ \A k \in 1 .. Cardinality(Object) : f[k] = WithReferred(f[k - 1])
  <1> DEFINE N == Cardinality(Object)
             f == CHOOSE h : ReachedIn(start, N, h)
  <1>1. N \in Nat
    BY CollectorAssumption, FS_CardinalityType
  <1>2. From(start) = f[N]
    BY DEF From, ReachedIn
  <1> HIDE DEF N
  <1>3. ReachedIn(start, N, f)
    BY <1>1, ReachedExists
  <1> HIDE DEF f
  <1>4. f[0] = start /\ \A k \in 1 .. N : f[k] = WithReferred(f[k - 1])
    BY <1>1, <1>3 DEF ReachedIn
  <1>5. QED
    BY <1>1, <1>2, <1>4 DEF N

\* What is reached stays within any set that has all it refers to.
Closed(S) == \A o \in S : Refers(o) \subseteq S \cup {Nil}

LEMMA FromWithin ==
    ASSUME NEW start, NEW S, start \subseteq S, Closed(S)
    PROVE  From(start) \subseteq S
  <1> DEFINE N == Cardinality(Object)
  <1>1. PICK f : /\ From(start) = f[N] /\ f[0] = start
                 /\ \A k \in 1 .. N : f[k] = WithReferred(f[k - 1])
    BY FromSteps
  <1>2. N \in Nat
    BY FromSteps
  <1> HIDE DEF N
  <1> DEFINE T == {k \in 0 .. N : ~ (f[k] \subseteq S)}
  <1>3. SUFFICES ASSUME T # {} PROVE FALSE
    BY <1>1, <1>2
  <1>4. T \in SUBSET Nat
    BY <1>2
  <1> HIDE DEF T
  <1>5. PICK k \in T : \A y \in T : k <= y
    BY <1>3, <1>4, LeastElement
  <1>6. k \in 0 .. N /\ ~ (f[k] \subseteq S)
    BY <1>5 DEF T
  <1>7. k # 0
    BY <1>1, <1>6
  <1>8. k - 1 \in 0 .. N /\ k - 1 \notin T
    <2>1. k - 1 \in 0 .. N /\ ~ (k <= k - 1)
      BY <1>2, <1>6, <1>7
    <2>2. QED
      BY <2>1, <1>5
  <1>9. f[k - 1] \subseteq S
    BY <1>8 DEF T
  <1>10. f[k] = WithReferred(f[k - 1])
    BY <1>1, <1>2, <1>6, <1>7
  <1>11. WithReferred(f[k - 1]) \subseteq S
    BY <1>9 DEF WithReferred, Closed
  <1>12. QED
    BY <1>6, <1>10, <1>11

LEMMA RefersLive ==
    ASSUME GInv, NEW o \in Object, Live(o)
    PROVE  \A v \in Refers(o) \ {Nil} : v \in Object /\ Live(v)
  <1>1. TypeOK /\ Shape /\ RefsLive
    BY DEF GInv
  <1>2. /\ LiveRef(key[o]) /\ key[o] \in Object \cup {Nil} /\ val[o] \in Object \cup {Nil}
        /\ IF IsOpen(o) THEN LiveRef(ValueOf(o)) ELSE LiveRef(val[o])
        /\ Kind[o] = "thread" => \A i \in Slot : LiveRef(stack[o][i]) /\ stack[o][i] \in Object \cup {Nil}
        /\ IsOpen(o) => Kind[o] = "upval" /\ ValueOf(o) \in Object \cup {Nil}
    BY <1>1, Constants DEF TypeOK, Shape, RefsLive, ValueOf, Value, IsOpen
  <1>3. CASE Kind[o] = "table"
    <2>1. \A v \in Refers(o) : v = key[o] \/ v = val[o]
      BY <1>3 DEF Refers, Strong
    <2>2. QED
      BY <2>1, <1>2, <1>3 DEF LiveRef, Live
  <1>4. CASE Kind[o] \in {"userdata", "closure"}
    <2>1. Refers(o) = {val[o]}
      BY <1>4 DEF Refers
    <2>2. QED
      BY <2>1, <1>2, <1>4 DEF LiveRef
  <1>5. CASE Kind[o] = "upval"
    <2>1. Refers(o) = {ValueOf(o)}
      BY <1>5 DEF Refers
    <2>2. ~IsOpen(o) => ValueOf(o) = val[o]
      BY DEF ValueOf
    <2>3. QED
      BY <2>1, <2>2, <1>2 DEF LiveRef
  <1>6. CASE Kind[o] = "thread"
    <2>1. Refers(o) = {stack[o][i] : i \in Slot}
      BY <1>6 DEF Refers, OnStack
    <2>2. \A v \in Refers(o) : \E i \in Slot : v = stack[o][i]
      BY <2>1
    <2>3. QED
      BY <2>2, <1>2, <1>6 DEF LiveRef, Live
  <1>7. CASE Kind[o] = "string"
    BY <1>7 DEF Refers
  <1>8. QED
    BY <1>3, <1>4, <1>5, <1>6, <1>7, Constants

\* No object that the program can reach was freed, nor any that a weak table it
\* can reach still holds: for every order of stores, barriers and steps of the
\* collector (lgc.c), every set of objects and every program.
THEOREM NothingDangles == Spec => []NoDangling
  <1>1. GInv => NoDangling
    <2> SUFFICES ASSUME GInv PROVE NoDangling
      OBVIOUS
    <2> DEFINE S == {o \in Object : Live(o)}
    <2>1. Closed(S)
      BY RefersLive DEF Closed
    <2>2. {Main, Globals, running} \cup tmudata \subseteq S
      BY Constants DEF GInv, RootsLive, TypeOK
    <2>3. Reachable \subseteq S
      BY <2>1, <2>2, FromWithin DEF Reachable
    <2>4. ASSUME NEW o \in S, Kind[o] = "table", NEW v \in {key[o], val[o]} \ {Nil}
          PROVE  Alive(v)
      <3>1. LiveRef(key[o]) /\ LiveRef(val[o])
        BY <2>4 DEF GInv, RefsLive, Shape, IsOpen
      <3>2. QED
        BY <3>1, <2>4 DEF LiveRef, Live, Alive
    <2>5. \A o \in S : Alive(o)
      BY DEF Live, Alive
    <2> HIDE DEF S
    <2>6. QED
      BY <2>3, <2>4, <2>5 DEF NoDangling
  <1>2. QED
    BY <1>1, Invariant, PTL

-----------------------------------------------------------------------------
(* Each userdata is finalized once *)

\* A userdata that is separated with a finalizer waits for it or has been
\* through it; what is found dead was separated; what is free was not.
Finalizers ==
    \A u \in Of("userdata") :
        /\ IF fin[u] = "with" THEN called[u] = (IF u \in tmudata THEN 0 ELSE 1)
           ELSE called[u] = 0 /\ u \notin tmudata
        /\ IsDead(u) => fin[u] # "no"
        /\ gcstate = "propagate" /\ atomically = "finalizers" /\ IsWhite(u) => fin[u] # "no"
        /\ ~Alive(u) => fin[u] = "no"

\* The program frees no userdata, and neither separates nor kills any.
KeepsUserdata ==
    /\ UNCHANGED <<fin, called, tmudata, currentwhite, gcstate, atomically>>
    /\ \A u \in Of("userdata") : (Alive(u) => Alive(u)') /\ (IsDead(u)' => IsDead(u))

LEMMA ProgramUserdata == ASSUME GInv, Program PROVE KeepsUserdata /\ atomically = "no"
  <1>1. TypeOK /\ Shape /\ RefsLive /\ RootsLive /\ Colors /\ Phase
    BY DEF GInv
  <1>2. /\ currentwhite \in {"w0", "w1"} /\ otherwhite \in {"w0", "w1"} /\ otherwhite # currentwhite
    BY <1>1 DEF TypeOK, otherwhite, Whites
  <1>3. \A u : u \in Of("userdata") <=> u \in Object /\ Kind[u] = "userdata"
    BY Constants
  <1>4. Instruction
    BY DEF Program, Allocate, NewString, NewClosure, Set, SetGlobal, SetTable, Get, GetGlobal, GetUpval, Forget,
       Read, SetMetatable, SetUpval, Close, Resume, Yield
  <1>5. \A h \in Object : \A v1, v2 : SetTable(h, v1, v2) =>
           \A u \in Object : mark'[u] = mark[u] \/ (mark[u] = "black" /\ mark'[u] = "gray")
    BY <1>1 DEF SetTable, barrierback, IsBlack, TypeOK
  <1>6. \A i, v : Read(i, v) => mark' = mark
    BY DEF Read, barriers
  <1>7. \A i \in Slots : Reg(i) \in Value /\ LiveRef(Reg(i)) /\ (Reg(i) # Nil => Reg(i) \in Object /\ Live(Reg(i)))
    BY Registers DEF LiveRef, Value
  <1>8. ASSUME NEW o \in Object, NEW v \in Object \cup {Nil}, LiveRef(v), barrierf(o, v), Instruction
        PROVE  \A u \in Object : (mark[u] # "free" => mark'[u] # "free")
                                 /\ (mark'[u] = otherwhite => mark[u] = otherwhite)
    <2>1. atomically = "no" /\ UNCHANGED currentwhite
      BY <1>8, Instructions
    <2>2. /\ gcstate # "propagate" =>
                \A x \in Object : mark'[x] # mark[x] => mark[x] = "black" /\ mark'[x] = currentwhite
          /\ gcstate = "propagate" => GrowsFrom(mark, gray)
      BY <1>8, <2>1, ForwardBarrier
    <2>3. QED
      BY <2>2, <1>2 DEF GrowsFrom
  <1>9. ASSUME NEW u \in Of("userdata")
        PROVE  /\ mark[u] # "free" => mark'[u] # "free"
               /\ mark'[u] = otherwhite => mark[u] = otherwhite
    <2>1. u \in Object /\ Kind[u] = "userdata"
      BY <1>3
    <2>2. CASE \E o \in Object, i \in Slots : Allocate(o, i) \/ NewString(o, i)
      <3>1. PICK o \in Object, i \in Slots : Allocate(o, i) \/ NewString(o, i)
        BY <2>2
      <3>2. mark'[u] = mark[u] \/ mark'[u] = currentwhite
        BY <3>1, <2>1, <1>1 DEF Allocate, NewString, TypeOK
      <3>3. QED
        BY <3>2, <1>2
    <2>3. CASE \E f, v \in Object, i, j \in Slots : NewClosure(f, v, i, j)
      <3>1. PICK f \in Object, v \in Object, i \in Slots, j \in Slots : NewClosure(f, v, i, j)
        BY <2>3
      <3>2. u # f /\ u # v
        BY <3>1, <2>1 DEF NewClosure
      <3>3. mark'[u] = mark[u]
        BY <3>1, <3>2, <2>1, <1>1 DEF NewClosure, TypeOK
      <3>4. QED
        BY <3>3
    <2>4. CASE Set \/ SetGlobal
      <3>1. \E h \in Object : \E v1, v2 : SetTable(h, v1, v2)
        BY <2>4, <1>7, Constants DEF Set, SetGlobal, Is
      <3>2. QED
        BY <3>1, <1>5, <2>1, <1>2
    <2>5. CASE Get \/ GetGlobal \/ GetUpval \/ Forget
      <3>1. \E i, v : Read(i, v)
        BY <2>5 DEF Get, GetGlobal, GetUpval, Forget
      <3>2. QED
        BY <3>1, <1>6
    <2>6. CASE SetMetatable
      <3>1. PICK i \in Slots, j \in Slots : Instruction /\ Is(Reg(i), "userdata") /\ Is(Reg(j), "table")
                                            /\ barrierf(Reg(i), Reg(j))
        BY <2>6 DEF SetMetatable
      <3>2. QED
        BY <3>1, <1>7, <1>8, <2>1 DEF Is
    <2>7. CASE SetUpval
      <3>1. PICK i \in Slots, j \in Slots :
               /\ Instruction
               /\ Is(Reg(i), "closure")
               /\ SetOpen(val[Reg(i)], Reg(j)) \/ SetClosed(val[Reg(i)], Reg(j))
        BY <2>7 DEF SetUpval
      <3>2. Reg(i) \in Object /\ Kind[Reg(i)] = "closure" /\ Live(Reg(i))
        BY <3>1, <1>7 DEF Is
      <3>3. val[Reg(i)] \in Object
        BY <3>2, <1>1, Constants DEF Shape, Live, Alive
      <3>4. CASE SetOpen(val[Reg(i)], Reg(j))
        BY <3>4 DEF SetOpen
      <3>5. CASE SetClosed(val[Reg(i)], Reg(j))
        <4>1. barrierf(val[Reg(i)], Reg(j))
          BY <3>5 DEF SetClosed
        <4>2. Reg(j) \in Object \cup {Nil} /\ LiveRef(Reg(j))
          BY <1>7 DEF Value
        <4>3. QED
          BY <4>1, <4>2, <3>1, <3>3, <1>8, <2>1
      <3>6. QED
        BY <3>1, <3>4, <3>5
    <2>8. CASE Close
      <3>1. PICK v \in OpenUpvals(running) :
               IF IsDead(v) THEN mark' = [mark EXCEPT ![v] = "free"] ELSE luaC_linkupval(v)
        BY <2>8 DEF Close
      <3>2. v \in Object /\ Kind[v] = "upval" /\ u # v
        BY <3>1, <2>1, Constants DEF OpenUpvals
      <3>3. CASE IsDead(v)
        BY <3>1, <3>2, <3>3, <2>1, <1>1 DEF TypeOK
      <3>4. CASE ~IsDead(v) /\ mark[v] # "gray"
        BY <3>1, <3>4 DEF luaC_linkupval
      <3>5. CASE ~IsDead(v) /\ mark[v] = "gray" /\ gcstate # "propagate"
        <4>1. mark' = [mark EXCEPT ![v] = currentwhite]
          BY <3>1, <3>5 DEF luaC_linkupval
        <4>2. QED
          BY <4>1, <3>2, <2>1, <1>1 DEF TypeOK
      <3>6. CASE ~IsDead(v) /\ mark[v] = "gray" /\ gcstate = "propagate"
        <4> DEFINE m == [mark EXCEPT ![v] = "black"]
        <4>1. reallymarkobject(m, {ValueOf(v)}, gray)
          BY <3>1, <3>6 DEF luaC_linkupval
        <4>2. m \in [Object -> {"free", "w0", "w1", "gray", "black"}] /\ m[u] = mark[u]
          BY <1>1, <2>1, <3>2 DEF TypeOK
        <4> HIDE DEF m
        <4>3. {ValueOf(v)} \in SUBSET (Object \cup {Nil}) /\ gray \in SUBSET Object
          BY <1>1, <3>2 DEF TypeOK, Shape, ValueOf, Value, IsOpen
        <4>4. mark'[u] = m[u] \/ mark'[u] = markedcolor(u)
          <5>1. \A o \in Object : mark'[o] = m[o] \/ (m[o] \in Whites /\ mark'[o] = markedcolor(o))
            BY <4>1, <4>2, <4>3, <1>1, MarkingOnly
          <5>2. QED
            BY <5>1, <2>1
        <4>5. QED
          BY <4>2, <4>4, <1>2 DEF markedcolor
      <3>7. QED
        BY <3>3, <3>4, <3>5, <3>6
    <2>9. CASE Resume \/ Yield
      BY <2>9 DEF Resume, Yield, barriers
    <2>10. QED
      BY <2>2, <2>3, <2>4, <2>5, <2>6, <2>7, <2>8, <2>9 DEF Program
  <1>10. /\ UNCHANGED <<fin, called, tmudata, currentwhite, gcstate, atomically>> /\ atomically = "no"
    BY <1>4, Instructions
  <1>11. otherwhite' = otherwhite
    BY <1>10 DEF otherwhite
  <1>12. QED
    BY <1>9, <1>10, <1>11 DEF KeepsUserdata, Alive, IsDead

\* A marking step of the collector, other than that which separates userdata.
LEMMA MarkingUserdata ==
    ASSUME GInv, \/ Pause \/ MarkAgain \/ Propagate
                 \/ /\ RemarkUpvals \/ RemarkWeak \/ RemarkGrayAgain
                    /\ UNCHANGED <<heap, currentwhite, gcstate, full, sweepgc, running, world>>
    PROVE  /\ UNCHANGED <<fin, called, tmudata, currentwhite>>
           /\ gcstate' = "propagate"
           /\ atomically' = "finalizers" => atomically = "finalizers" /\ gcstate = "propagate"
           /\ \A o \in Object : mark'[o] = mark[o] \/ (mark[o] # "free" /\ mark'[o] \in {"gray", "black"})
  <1>1. TypeOK /\ Shape /\ Phase
    BY DEF GInv
  <1>2. \A o \in Object : markedcolor(o) \in {"gray", "black"}
    BY DEF markedcolor
  <1>3. mark \in [Object -> {"free", "w0", "w1", "gray", "black"}]
    BY <1>1 DEF TypeOK
  <1>4. ASSUME NEW values \in SUBSET (Object \cup {Nil}), NEW list \in SUBSET Object,
               reallymarkobject(mark, values, list)
        PROVE  \A o \in Object : mark'[o] = mark[o] \/ (mark[o] # "free" /\ mark'[o] \in {"gray", "black"})
    <2>1. \A o \in Object : mark'[o] = mark[o] \/ (mark[o] \in Whites /\ mark'[o] = markedcolor(o))
      BY <1>1, <1>3, <1>4, Marking
    <2>2. QED
      BY <1>2, <2>1 DEF Whites
  <1>5. CASE Pause \/ MarkAgain
    <2>1. /\ UNCHANGED <<fin, called, tmudata, currentwhite, atomically>>
          /\ gcstate \in {"pause", "finalize"} /\ gcstate' = "propagate"
          /\ reallymarkobject(mark, {Main, Globals}, {})
      BY <1>5 DEF Pause, MarkAgain, markroot, udata
    <2>2. {Main, Globals} \in SUBSET (Object \cup {Nil}) /\ {} \in SUBSET Object
      BY Constants
    <2>3. atomically = "no"
      BY <1>1, <2>1 DEF Phase
    <2>4. QED
      BY <1>4, <2>1, <2>2, <2>3
  <1>6. CASE Propagate
    <2>1. PICK o \in gray : propagatemark(o)
      BY <1>6 DEF Propagate
    <2> DEFINE m == [mark EXCEPT ![o] = IF IsWeak(o) \/ Kind[o] = "thread" THEN "gray" ELSE "black"]
    <2>2. /\ UNCHANGED <<fin, called, tmudata, currentwhite, atomically, gcstate>> /\ gcstate = "propagate"
          /\ reallymarkobject(m, Traversed(o), gray \ {o})
      BY <2>1, <1>6 DEF Propagate, propagatemark, udata
    <2>3. o \in Object /\ mark[o] # "free" /\ Kind[o] \in {"table", "closure", "thread"}
      BY <2>2, <1>1 DEF TypeOK, Phase, Propagating, Lists, IsMarked
    <2>4. /\ m \in [Object -> {"free", "w0", "w1", "gray", "black"}]
          /\ \A x \in Object : m[x] = mark[x] \/ (mark[x] # "free" /\ m[x] \in {"gray", "black"})
      BY <2>3, <1>3
    <2>5. Traversed(o) \in SUBSET (Object \cup {Nil}) /\ gray \ {o} \in SUBSET Object
      BY <2>3, <1>1, Constants DEF Traversed, Strong, OnStack, TypeOK, Value
    <2> HIDE DEF m
    <2>6. \A x \in Object : mark'[x] = m[x] \/ (m[x] \in Whites /\ mark'[x] = markedcolor(x))
      BY <2>2, <2>4, <2>5, <1>1, MarkingOnly
    <2>7. \A x \in Object : mark'[x] = mark[x] \/ (mark[x] # "free" /\ mark'[x] \in {"gray", "black"})
      BY <2>4, <2>6, <1>2 DEF Whites
    <2>8. QED
      BY <2>2, <2>7
  <1>7. CASE RemarkUpvals /\ UNCHANGED <<heap, currentwhite, gcstate, full, sweepgc, running, world>>
    <2> DEFINE values == {ValueOf(u) : u \in {v \in Of("upval") : mark[v] = "gray" /\ IsOpen(v)}}
    <2>1. /\ UNCHANGED <<fin, called, tmudata, currentwhite, gcstate>> /\ gcstate = "propagate"
          /\ atomically' = "upvals" /\ reallymarkobject(mark, values, {})
      BY <1>7 DEF RemarkUpvals, Remark, udata
    <2>2. \A u \in Object : IsOpen(u) => ValueOf(u) \in Value
      BY <1>1, Constants DEF ValueOf, TypeOK, Shape, IsOpen
    <2>3. values \in SUBSET (Object \cup {Nil}) /\ {} \in SUBSET Object
      BY <2>2, Constants DEF Value
    <2>4. QED
      BY <2>1, <2>3, <1>4
  <1>8. CASE RemarkWeak /\ UNCHANGED <<heap, currentwhite, gcstate, full, sweepgc, running, world>>
    <2>1. /\ UNCHANGED <<fin, called, tmudata, currentwhite, gcstate>> /\ gcstate = "propagate"
          /\ atomically' = "weak" /\ reallymarkobject(mark, {running}, weak)
      BY <1>8 DEF RemarkWeak, Remark, udata
    <2>2. {running} \in SUBSET (Object \cup {Nil}) /\ weak \in SUBSET Object
      BY <1>1, Constants DEF TypeOK
    <2>3. QED
      BY <2>1, <2>2, <1>4
  <1>9. CASE RemarkGrayAgain /\ UNCHANGED <<heap, currentwhite, gcstate, full, sweepgc, running, world>>
    BY <1>9 DEF RemarkGrayAgain, Remark, udata
  <1>10. QED
    BY <1>5, <1>6, <1>7, <1>8, <1>9

\* What no step does to a userdata but the sweep that frees it.
FreedFinalized ==
    \A u \in Of("userdata") :
        /\ called'[u] < 2
        /\ Alive(u) /\ ~Alive(u)' => fin[u] # "no" /\ called[u] = (IF fin[u] = "with" THEN 1 ELSE 0)

LEMMA FinalizersStep ==
    ASSUME GInv, Finalizers, [Next]_vars
    PROVE  Finalizers' /\ FreedFinalized
  <1>1. TypeOK /\ RootsLive /\ Phase
    BY DEF GInv
  <1>2. /\ currentwhite \in {"w0", "w1"} /\ otherwhite \in {"w0", "w1"} /\ otherwhite # currentwhite
    BY <1>1 DEF TypeOK, otherwhite, Whites
  <1>3. \A u : u \in Of("userdata") <=> u \in Object /\ Kind[u] = "userdata"
    BY Constants
  <1>4. \A u \in Of("userdata") : called[u] < 2 /\ (u \in tmudata => Live(u) /\ Alive(u))
    BY <1>1 DEF Finalizers, RootsLive, Live, Alive
  <1>5. SUFFICES Finalizers' /\ \A u \in Of("userdata") : Alive(u) /\ ~Alive(u)' => IsDead(u)
    <2>1. \A u \in Of("userdata") : called'[u] < 2
      BY <1>5 DEF Finalizers
    <2>2. \A u \in Of("userdata") : IsDead(u) => fin[u] # "no" /\ u \notin tmudata
      BY <1>4 DEF Finalizers, IsDead, Live
    <2>3. QED
      BY <1>5, <2>1, <2>2 DEF FreedFinalized, Finalizers
  <1>6. CASE /\ UNCHANGED <<fin, called, tmudata, currentwhite>>
             /\ (gcstate' = "propagate" /\ atomically' = "finalizers" => gcstate = "propagate" /\ atomically = "finalizers")
             /\ \A u \in Of("userdata") :
                   (mark'[u] = "free" <=> mark[u] = "free") /\ (mark'[u] = otherwhite => mark[u] = otherwhite)
             /\ (gcstate' = "propagate" /\ atomically' = "finalizers" =>
                    \A u \in Of("userdata") : mark'[u] \in Whites => mark'[u] = mark[u])
    BY <1>3, <1>6 DEF Finalizers, Alive, IsDead, IsWhite, otherwhite
  <1>7. CASE Program
    <2>1. KeepsUserdata /\ atomically = "no"
      BY <1>7, ProgramUserdata
    <2>2. \A u \in Of("userdata") : (Alive(u) => Alive(u)') /\ (IsDead(u)' => IsDead(u))
      BY <2>1 DEF KeepsUserdata
    <2>3. UNCHANGED <<fin, called, tmudata, currentwhite, gcstate, atomically>>
      BY <2>1 DEF KeepsUserdata
    <2>4. QED
      BY <2>1, <2>2, <2>3 DEF Finalizers, Alive
  <1>8. CASE \/ Pause \/ MarkAgain \/ Propagate
             \/ /\ RemarkUpvals \/ RemarkWeak \/ RemarkGrayAgain
                /\ UNCHANGED <<heap, currentwhite, gcstate, full, sweepgc, running, world>>
    <2>1. /\ UNCHANGED <<fin, called, tmudata, currentwhite>>
          /\ gcstate' = "propagate"
          /\ atomically' = "finalizers" => atomically = "finalizers" /\ gcstate = "propagate"
          /\ \A o \in Object : mark'[o] = mark[o] \/ (mark[o] # "free" /\ mark'[o] \in {"gray", "black"})
      BY <1>8, MarkingUserdata
    <2>2. QED
      BY <2>1, <1>2, <1>3, <1>6 DEF Whites
  <1>9. CASE SeparateUdata /\ UNCHANGED <<heap, currentwhite, gcstate, full, sweepgc, running, world>>
    <2> DEFINE m == [o \in Object |-> IF o \in tmudata' THEN currentwhite ELSE mark[o]]
    <2>1. /\ UNCHANGED <<called, currentwhite>> /\ gcstate = "propagate" /\ gcstate' = "propagate"
          /\ fin' = [o \in Object |-> IF o \notin separated THEN fin[o]
                                      ELSE IF val[o] = Nil THEN "without" ELSE "with"]
          /\ tmudata' = tmudata \cup {u \in separated : val[u] # Nil}
          /\ reallymarkobject(m, tmudata', {})
      BY <1>9 DEF SeparateUdata, luaC_separateudata, marktmu, Remark
    <2>2. \A u \in Of("userdata") : u \in separated <=> IsWhite(u) /\ fin[u] = "no"
      BY DEF separated
    <2>3. tmudata' \subseteq Object /\ \A u \in tmudata' : mark[u] # "free"
      BY <2>1, <1>1, <1>3, <1>4 DEF TypeOK, separated, IsWhite, Whites, Alive
    <2>4. m \in [Object -> {"free", "w0", "w1", "gray", "black"}]
          /\ \A o \in Object : m[o] = IF o \in tmudata' THEN currentwhite ELSE mark[o]
      BY <1>1, <1>2 DEF TypeOK
    <2> HIDE DEF m
    <2>5. ASSUME NEW values \in SUBSET (Object \cup {Nil}), reallymarkobject(m, values, {})
          PROVE  /\ \A v \in values : v = Nil \/ mark'[v] \notin Whites
                 /\ \A o \in Object : mark'[o] = m[o] \/ (m[o] \in Whites /\ mark'[o] = markedcolor(o))
      <3>1. Shape /\ {} \in SUBSET Object /\ m \in [Object -> {"free", "w0", "w1", "gray", "black"}]
        BY <2>4 DEF GInv
      <3>2. QED
        BY <3>1, <2>5, <1>1, MarkingOnly
    <2>6. /\ \A v \in tmudata' : v = Nil \/ mark'[v] \notin Whites
          /\ \A o \in Object : mark'[o] = m[o] \/ (m[o] \in Whites /\ mark'[o] = markedcolor(o))
      <3>1. tmudata' \in SUBSET (Object \cup {Nil})
        BY <2>3
      <3>2. QED
        BY <3>1, <2>1, <2>5
    <2>7. \A o \in Object : markedcolor(o) \in {"gray", "black"}
      BY DEF markedcolor
    <2>8. \A u \in Of("userdata") : /\ mark'[u] = "free" <=> mark[u] = "free"
                                    /\ mark'[u] \in Whites => mark[u] = mark'[u] /\ u \notin tmudata'
      BY <2>3, <2>4, <2>6, <2>7, <1>2, <1>3, Constants DEF Whites
    <2>9. \A u \in Of("userdata") : mark[u] # otherwhite
      BY <2>1, <1>1, <1>3 DEF Phase, Propagating
    <2>10. \A u \in Of("userdata") :
              /\ u \in separated => /\ fin'[u] = (IF val[u] = Nil THEN "without" ELSE "with")
                                    /\ called[u] = 0 /\ u \notin tmudata
              /\ u \notin separated => fin'[u] = fin[u]
              /\ u \in tmudata' <=> u \in tmudata \/ (u \in separated /\ val[u] # Nil)
              /\ u \in separated => mark[u] # "free"
      BY <2>1, <2>2, <1>3 DEF Finalizers, IsWhite, Whites
    <2>11. \A u \in Of("userdata") : mark'[u] \in Whites => fin'[u] # "no"
      BY <2>2, <2>8, <2>10, <1>3, Constants DEF IsWhite
    <2>12. otherwhite' \in Whites /\ otherwhite' = otherwhite
      BY <2>1, <1>2 DEF otherwhite, Whites
    <2>13. QED
      BY <2>1, <2>8, <2>9, <2>10, <2>11, <2>12 DEF Finalizers, Alive, IsDead, IsWhite
  <1>10. CASE ClearWeak
    <2>1. /\ UNCHANGED <<fin, called, tmudata>> /\ gcstate' = "sweepstring" /\ currentwhite' = otherwhite
          /\ gcstate = "propagate" /\ atomically = "finalizers"
      BY <1>10 DEF ClearWeak, Remark, udata, StartSweep
    <2>2. \A u \in Of("userdata") : mark'[u] = mark[u]
      BY <1>10, <1>3 DEF ClearWeak, cleartable, Of
    <2>3. otherwhite' = currentwhite
      BY <2>1, <1>1 DEF otherwhite, TypeOK, Whites
    <2>4. \A u \in Of("userdata") : IsDead(u)' => IsWhite(u)
      BY <2>2, <2>3, <1>1, <1>3, Constants DEF IsDead, IsWhite, TypeOK
    <2>5. QED
      BY <2>1, <2>2, <2>4 DEF Finalizers, Alive
  <1>11. CASE \E objects : sweeplist(objects) /\ gcstate' \in {"sweep", "finalize"}
    <2>1. PICK objects : sweeplist(objects) /\ gcstate' \in {"sweep", "finalize"}
      BY <1>11
    <2> DEFINE gone == {o \in objects : IsDead(o)}
    <2>2. /\ mark' = [o \in Object |-> IF o \in objects THEN swept(o) ELSE mark[o]]
          /\ fin' = [o \in Object |-> IF o \in gone THEN "no" ELSE fin[o]]
          /\ called' = [o \in Object |-> IF o \in gone THEN 0 ELSE called[o]]
          /\ UNCHANGED <<tmudata, currentwhite>>
      BY <2>1 DEF sweeplist, Without
    <2>3. \A o \in objects : o \in gone <=> mark[o] = otherwhite
      BY DEF IsDead
    <2>4. gone \subseteq objects
      OBVIOUS
    <2> HIDE DEF gone
    <2>5. \A u \in Of("userdata") :
             /\ u \in gone => mark[u] = otherwhite /\ mark'[u] = "free" /\ fin'[u] = "no" /\ called'[u] = 0
             /\ u \notin gone => fin'[u] = fin[u] /\ called'[u] = called[u]
                                 /\ (mark'[u] = mark[u] \/ mark'[u] = currentwhite)
      BY <2>2, <2>3, <2>4, <1>3 DEF swept, IsDead
    <2>6. \A u \in Of("userdata") : u \in tmudata => mark[u] # otherwhite
      BY <1>4 DEF Live
    <2>7. otherwhite' = otherwhite
      BY <2>2 DEF otherwhite
    <2>8. ASSUME NEW u \in Of("userdata")
          PROVE  /\ IF fin'[u] = "with" THEN called'[u] = (IF u \in tmudata' THEN 0 ELSE 1)
                    ELSE called'[u] = 0 /\ u \notin tmudata'
                 /\ mark'[u] = otherwhite' => fin'[u] # "no"
                 /\ mark'[u] = "free" => fin'[u] = "no"
                 /\ mark[u] # "free" /\ mark'[u] = "free" => mark[u] = otherwhite
      <3>1. CASE u \in gone
        BY <3>1, <2>2, <2>5, <2>6, <2>7, <1>2
      <3>2. CASE u \notin gone
        BY <3>2, <2>2, <2>5, <2>7, <1>2 DEF Finalizers, Alive, IsDead
      <3>3. QED
        BY <3>1, <3>2
    <2>9. gcstate' # "propagate"
      BY <2>1
    <2>10. QED
      BY <2>8, <2>9 DEF Finalizers, Alive, IsDead
  <1>12. CASE \E v \in tmudata : GCTM(v)
    <2>1. PICK v \in tmudata : GCTM(v)
      BY <1>12
    <2>2. /\ UNCHANGED <<fin, currentwhite, gcstate, atomically>> /\ gcstate = "finalize"
          /\ tmudata' = tmudata \ {v} /\ mark' = [mark EXCEPT ![v] = currentwhite]
          /\ called' = [called EXCEPT ![v] = IF called[v] = 0 THEN 1 ELSE 2]
      BY <2>1 DEF GCTM
    <2>3. v \in Of("userdata") /\ called[v] = 0 /\ fin[v] = "with"
      BY <1>1 DEF TypeOK, Finalizers
    <2>4. \A u \in Of("userdata") : /\ mark'[u] = (IF u = v THEN currentwhite ELSE mark[u])
                                    /\ called'[u] = (IF u = v THEN 1 ELSE called[u])
      BY <2>2, <2>3, <1>1, <1>3 DEF TypeOK
    <2>5. mark[v] # "free" /\ otherwhite' = otherwhite
      BY <2>2, <2>3, <1>4 DEF Alive, otherwhite
    <2>6. QED
      BY <2>2, <2>3, <2>4, <2>5, <1>2 DEF Finalizers, Alive, IsDead
  <1>13. CASE EndCycle \/ FullGC
    <2>1. UNCHANGED <<fin, called, tmudata, currentwhite, mark, atomically>> /\ gcstate' # "propagate"
      BY <1>13, <1>1 DEF EndCycle, FullGC, barriers, udata, StartSweep, TypeOK
    <2>2. QED
      BY <2>1, <1>6
  <1>14. CASE UNCHANGED vars
    <2>1. UNCHANGED <<fin, called, tmudata, currentwhite, mark, atomically, gcstate>>
      BY <1>14 DEF vars, barriers, udata, cycle
    <2>2. QED
      BY <2>1, <1>6
  <1>15. QED
    <2>1. SweepStrings \/ EndSweep \/ (\E o \in sweepgc : SweepOne(o)) =>
             \E objects : sweeplist(objects) /\ gcstate' \in {"sweep", "finalize"}
      BY DEF SweepStrings, EndSweep, SweepOne
    <2>2. QED
      BY <2>1, <1>7, <1>8, <1>9, <1>10, <1>11, <1>12, <1>13, <1>14 DEF Next, Step, Atomic

LEMMA FinalizersInitially == Init => Finalizers
  <1> SUFFICES ASSUME Init PROVE Finalizers
    OBVIOUS
  <1>1. /\ mark = [o \in Object |-> IF o \in {Main, Globals} THEN "w0" ELSE "free"]
        /\ fin = [o \in Object |-> "no"] /\ called = [o \in Object |-> 0]
        /\ currentwhite = "w0" /\ gcstate = "pause" /\ tmudata = {}
    BY DEF Init
  <1>2. otherwhite = "w1"
    BY <1>1 DEF otherwhite
  <1>3. QED
    BY <1>1, <1>2, Constants DEF Finalizers, IsDead

\* No finalizer is called twice, and no userdata is freed that was not first
\* found dead, nor before its finalizer was called if it had one by then, for
\* all that it may be brought back in between (luaC_separateudata(), lgc.c:131).
THEOREM EachFinalizedOnce == Spec => FinalizedOnce
  <1>1. GInv /\ Finalizers /\ [Next]_vars => Finalizers' /\ FreedFinalized
    BY FinalizersStep
  <1>2. [FreedFinalized]_vars <=> [\A u \in Of("userdata") :
          /\ called'[u] < 2
          /\ Alive(u) /\ ~Alive(u)' =>
                 fin[u] # "no" /\ called[u] = (IF fin[u] = "with" THEN 1 ELSE 0)]_vars
    BY DEF FreedFinalized
  <1>3. QED
    BY <1>1, <1>2, FinalizersInitially, Invariant, PTL DEF Spec, FinalizedOnce

-----------------------------------------------------------------------------
(* A full collection *)

\* What is reached from some objects has all that it refers to: if each step
\* found another object there would be more of them than there are.
LEMMA FromClosed ==
    ASSUME TypeOK, Shape, NEW start \in SUBSET Object, start # {}
    PROVE  start \subseteq From(start) /\ From(start) \subseteq Object /\ Closed(From(start))
  <1> DEFINE N == Cardinality(Object)
  <1>1. PICK f : /\ From(start) = f[N] /\ f[0] = start
                 /\ \A k \in 1 .. N : f[k] = WithReferred(f[k - 1])
    BY FromSteps
  <1>2. N \in Nat
    BY FromSteps
  <1>3. IsFiniteSet(Object)
    BY CollectorAssumption
  <1>4. \A S \in SUBSET Object : IsFiniteSet(S) /\ Cardinality(S) \in Nat /\ Cardinality(S) <= N
    BY <1>3, FS_Subset, FS_CardinalityType
  <1>5. \A S \in SUBSET Object, T \in SUBSET Object : S \subseteq T /\ S # T => Cardinality(S) < Cardinality(T)
    <2> SUFFICES ASSUME NEW S \in SUBSET Object, NEW T \in SUBSET Object, S \subseteq T, S # T
                 PROVE  Cardinality(S) < Cardinality(T)
      OBVIOUS
    <2>1. IsFiniteSet(T)
      BY <1>4
    <2>2. Cardinality(S) <= Cardinality(T) /\ Cardinality(S) # Cardinality(T)
      BY <2>1, FS_Subset
    <2>3. QED
      BY <2>2, <1>4
  <1> HIDE DEF N
  <1>6. \A o \in Object : Refers(o) \subseteq Object \cup {Nil}
    <2> SUFFICES ASSUME NEW o \in Object PROVE Refers(o) \subseteq Object \cup {Nil}
      OBVIOUS
    <2>1. key[o] \in Object \cup {Nil} /\ val[o] \in Object \cup {Nil}
          /\ (Kind[o] = "thread" => \A i \in Slot : stack[o][i] \in Object \cup {Nil})
      BY Constants DEF TypeOK, Value
    <2>2. CASE Kind[o] = "table"
      BY <2>1, <2>2 DEF Refers, Strong
    <2>3. CASE Kind[o] \in {"userdata", "closure"}
      BY <2>1, <2>3 DEF Refers
    <2>4. CASE Kind[o] = "upval"
      <3>1. Refers(o) = {ValueOf(o)}
        BY <2>4 DEF Refers
      <3>2. CASE ~IsOpen(o)
        BY <3>1, <3>2, <2>1 DEF ValueOf
      <3>3. CASE IsOpen(o)
        <4>1. owner[o] \in Of("thread") /\ slot[o] \in Slot
          BY <3>3 DEF TypeOK, Shape, IsOpen
        <4>2. stack[owner[o]][slot[o]] \in Object \cup {Nil}
          BY <4>1 DEF TypeOK, Value
        <4>3. QED
          BY <3>1, <3>3, <4>2 DEF ValueOf
      <3>4. QED
        BY <3>2, <3>3
    <2>5. CASE Kind[o] = "thread"
      BY <2>1, <2>5 DEF Refers, OnStack
    <2>6. CASE Kind[o] = "string"
      BY <2>6 DEF Refers
    <2>7. QED
      BY <2>2, <2>3, <2>4, <2>5, <2>6, Constants
  <1> DEFINE Good(k) == /\ start \subseteq f[k] /\ f[k] \subseteq Object
                        /\ Closed(f[k]) \/ Cardinality(f[k]) > k
             T == {k \in 0 .. N : ~Good(k)}
  <1>7. SUFFICES ASSUME T # {} PROVE FALSE
    <2>1. Good(N)
      BY <1>2, <1>7
    <2>2. ~(Cardinality(f[N]) > N)
      BY <2>1, <1>2, <1>4
    <2>3. QED
      BY <2>1, <2>2, <1>1
  <1>8. T \in SUBSET Nat
    BY <1>2
  <1> HIDE DEF T
  <1>9. PICK k \in T : \A y \in T : k <= y
    BY <1>7, <1>8, LeastElement
  <1>10. k \in 0 .. N /\ ~Good(k)
    BY <1>9 DEF T
  <1>11. CASE k = 0
    <2>1. Cardinality(start) # 0
      BY <1>4, FS_EmptySet
    <2>2. Good(0)
      BY <2>1, <1>1, <1>4
    <2>3. QED
      BY <2>2, <1>10, <1>11
  <1>12. CASE k # 0
    <2>1. k - 1 \in 0 .. N /\ k \in 1 .. N /\ ~ (k <= k - 1)
      BY <1>2, <1>10, <1>12
    <2>2. k - 1 \notin T
      BY <2>1, <1>9
    <2>3. Good(k - 1)
      BY <2>1, <2>2 DEF T
    <2>4. f[k] = WithReferred(f[k - 1])
      BY <2>1, <1>1
    <2>5. f[k - 1] \subseteq f[k] /\ f[k] \subseteq Object
      BY <2>3, <2>4, <1>6 DEF WithReferred
    <2>6. CASE Closed(f[k - 1])
      <3>1. f[k] \subseteq f[k - 1]
        BY <2>4, <2>6 DEF WithReferred, Closed
      <3>2. f[k] = f[k - 1]
        BY <3>1, <2>5
      <3>3. QED
        BY <3>2, <2>3, <2>5, <2>6, <1>10
    <2>7. CASE ~Closed(f[k - 1])
      <3>1. PICK o \in f[k - 1] : ~(Refers(o) \subseteq f[k - 1] \cup {Nil})
        BY <2>7 DEF Closed
      <3>2. Refers(o) \subseteq f[k] \cup {Nil}
        BY <2>4 DEF WithReferred
      <3>3. f[k] # f[k - 1]
        BY <3>1, <3>2
      <3>4. Cardinality(f[k - 1]) < Cardinality(f[k])
        BY <3>3, <2>3, <2>5, <1>5
      <3>5. Cardinality(f[k - 1]) > k - 1
        BY <2>3, <2>7
      <3>6. Cardinality(f[k]) > k
        BY <3>4, <3>5, <2>1, <2>3, <2>5, <1>4
      <3>7. QED
        BY <3>6, <2>3, <2>5, <1>10
    <2>8. QED
      BY <2>6, <2>7
  <1>13. QED
    BY <1>11, <1>12

Roots == {Main, Globals, running} \cup tmudata

\* What a full collection has marked is in every set that has the roots and
\* all that what is in it refers to.
OnlyMarked ==
    full = "mark" /\ gcstate = "propagate" =>
        \A S \in SUBSET Object : Roots \subseteq S /\ Closed(S) => \A o \in Object : IsMarked(o) => o \in S

LEMMA MarkingWithin ==
    ASSUME TypeOK, Shape, NEW m \in [Object -> {"free", "w0", "w1", "gray", "black"}],
           NEW values, NEW list, reallymarkobject(m, values, list),
           NEW S \in SUBSET Object, Closed(S), values \subseteq S \cup {Nil},
           \A o \in Object : m[o] \in {"gray", "black"} => o \in S
    PROVE  \A o \in Object : mark'[o] \in {"gray", "black"} => o \in S
  <1>1. \A o \in Object : mark'[o] = m[o] \/ o \in Reached(m, values)
    BY DEF reallymarkobject
  <1>2. WhiteIn(m, values) \subseteq S
    BY DEF WhiteIn
  <1>3. \A u \in S : Kind[u] = "upval" => ValueOf(u) \in S \cup {Nil}
    <2> SUFFICES ASSUME NEW u \in S, Kind[u] = "upval" PROVE ValueOf(u) \in S \cup {Nil}
      OBVIOUS
    <2>1. Refers(u) = {ValueOf(u)}
      BY DEF Refers
    <2>2. QED
      BY <2>1 DEF Closed
  <1>4. \A u \in S : Kind[u] = "userdata" => val[u] \in S \cup {Nil}
    <2> SUFFICES ASSUME NEW u \in S, Kind[u] = "userdata" PROVE val[u] \in S \cup {Nil}
      OBVIOUS
    <2>1. Refers(u) = {val[u]}
      BY DEF Refers
    <2>2. QED
      BY <2>1 DEF Closed
  <1>5. Held(m, values) \subseteq S
    BY <1>2, <1>3, Constants DEF Held, WhiteIn
  <1>6. Reached(m, values) \subseteq S
    BY <1>4, <1>5, Constants DEF Reached, WhiteIn
  <1>7. QED
    BY <1>1, <1>6

\* The entry of a table that is removed with its value refers to nothing before either.
LEMMA ClosedBefore ==
    ASSUME UNCHANGED <<val, owner, slot, stack>>, NEW S \in SUBSET Object, Closed(S)',
           \A o \in Object : key'[o] = key[o] \/ (Kind[o] = "table" /\ val[o] = Nil)
    PROVE  Closed(S)
  <1>1. ASSUME NEW o \in S PROVE Refers(o) \subseteq S \cup {Nil}
    <2>1. Refers(o)' \subseteq S \cup {Nil}
      BY DEF Closed
    <2>2. CASE Kind[o] = "table" /\ val[o] = Nil
      BY <2>2 DEF Refers
    <2>3. CASE Kind[o] = "table" /\ val[o] # Nil
      BY <2>1, <2>3 DEF Refers, Strong
    <2>4. CASE Kind[o] \in {"userdata", "closure"}
      BY <2>1, <2>4 DEF Refers
    <2>5. CASE Kind[o] = "upval"
      <3>1. Refers(o) = {ValueOf(o)} /\ Refers(o)' = {ValueOf(o)'}
        BY <2>5 DEF Refers
      <3>2. ValueOf(o)' = ValueOf(o)
        BY DEF ValueOf, IsOpen
      <3>3. QED
        BY <2>1, <3>1, <3>2
    <2>6. CASE Kind[o] = "thread"
      BY <2>1, <2>6 DEF Refers, OnStack
    <2>7. CASE Kind[o] = "string"
      BY <2>7 DEF Refers
    <2>8. QED
      BY <2>2, <2>3, <2>4, <2>5, <2>6, <2>7, Constants
  <1>2. QED
    BY <1>1 DEF Closed

LEMMA OnlyMarkedStep ==
    ASSUME GInv, OnlyMarked, [Next]_vars
    PROVE  OnlyMarked'
  <1>1. TypeOK /\ Shape /\ Phase
    BY DEF GInv
  <1>2. SUFFICES ASSUME full' = "mark", gcstate' = "propagate",
                        NEW S \in SUBSET Object, Roots' \subseteq S, Closed(S)'
                 PROVE  \A o \in Object : mark'[o] \in {"gray", "black"} => o \in S
    BY DEF OnlyMarked, IsMarked
  <1>3. mark \in [Object -> {"free", "w0", "w1", "gray", "black"}]
    BY <1>1 DEF TypeOK
  <1>4. Main \in S /\ Globals \in S /\ running' \in S /\ tmudata' \subseteq S
    BY <1>2 DEF Roots
  <1>5. ASSUME UNCHANGED <<val, owner, slot, stack, running, full, gcstate>>, tmudata \subseteq tmudata',
               \A o \in Object : key'[o] = key[o] \/ (Kind[o] = "table" /\ val[o] = Nil)
        PROVE  Closed(S) /\ \A o \in Object : mark[o] \in {"gray", "black"} => o \in S
    <2>1. Closed(S)
      BY <1>2, <1>5, ClosedBefore
    <2>2. Roots \subseteq S
      BY <1>4, <1>5 DEF Roots
    <2>3. QED
      BY <2>1, <2>2, <1>2, <1>5 DEF OnlyMarked, IsMarked
  <1>6. CASE MarkAgain
    <2>1. /\ UNCHANGED <<key, val, owner, slot, stack, running, tmudata>> /\ gcstate = "finalize"
          /\ reallymarkobject(mark, {Main, Globals}, {})
      BY <1>6 DEF MarkAgain, markroot, heap
    <2>2. \A o \in Object : mark[o] \in {"gray", "black"} => o \in S
      BY <2>1, <1>1, <1>4 DEF Phase, Finalizing, Alive, TypeOK, Whites
    <2>3. Closed(S)
      BY <2>1, <1>2, ClosedBefore
    <2>4. {Main, Globals} \subseteq S \cup {Nil}
      BY <1>4
    <2>5. QED
      BY <2>1, <2>2, <2>3, <2>4, <1>1, <1>3, MarkingWithin
  <1>7. CASE Propagate
    <2>1. PICK o \in gray : propagatemark(o)
      BY <1>7 DEF Propagate
    <2> DEFINE m == [mark EXCEPT ![o] = IF IsWeak(o) \/ Kind[o] = "thread" THEN "gray" ELSE "black"]
    <2>2. /\ UNCHANGED <<val, owner, slot, stack, running, full, gcstate, tmudata>> /\ gcstate = "propagate"
          /\ reallymarkobject(m, Traversed(o), gray \ {o})
          /\ key' = IF Kind[o] = "table" /\ val[o] = Nil THEN [key EXCEPT ![o] = Nil] ELSE key
      BY <2>1, <1>7 DEF Propagate, propagatemark
    <2>3. o \in Object /\ mark[o] \in {"gray", "black"} /\ Kind[o] \in {"table", "closure", "thread"}
      BY <2>2, <1>1 DEF TypeOK, Phase, Propagating, Lists, IsMarked
    <2>4. \A x \in Object : key'[x] = key[x] \/ (Kind[x] = "table" /\ val[x] = Nil)
      BY <2>2, <2>3, <1>1 DEF TypeOK
    <2>5. Closed(S) /\ \A x \in Object : mark[x] \in {"gray", "black"} => x \in S
      BY <2>2, <2>4, <1>5
    <2>6. /\ m \in [Object -> {"free", "w0", "w1", "gray", "black"}]
          /\ \A x \in Object : m[x] \in {"gray", "black"} => x \in S
      BY <2>3, <2>5, <1>3
    <2>7. Traversed(o) \subseteq S \cup {Nil}
      <3>1. Refers(o) \subseteq S \cup {Nil}
        BY <2>3, <2>5 DEF Closed
      <3>2. CASE Kind[o] = "table"
        BY <3>1, <3>2 DEF Refers, Traversed
      <3>3. CASE Kind[o] = "closure"
        BY <3>1, <3>3 DEF Refers, Traversed
      <3>4. CASE Kind[o] = "thread"
        BY <3>1, <3>4, <1>4 DEF Refers, Traversed
      <3>5. QED
        BY <2>3, <3>2, <3>3, <3>4
    <2> HIDE DEF m
    <2>8. QED
      BY <2>2, <2>5, <2>6, <2>7, <1>1, MarkingWithin
  <1>8. CASE Atomic
    <2>1. ~ClearWeak
      BY <1>2 DEF ClearWeak, StartSweep
    <2>2. /\ UNCHANGED <<key, val, owner, slot, stack, running, full, gcstate>> /\ gcstate = "propagate"
          /\ tmudata \subseteq tmudata'
      BY <2>1, <1>8 DEF Atomic, heap, Remark, RemarkUpvals, RemarkWeak, RemarkGrayAgain, SeparateUdata,
         luaC_separateudata
    <2>3. Closed(S) /\ \A o \in Object : mark[o] \in {"gray", "black"} => o \in S
      BY <2>2, <1>5
    <2>4. CASE RemarkUpvals
      <3> DEFINE values == {ValueOf(u) : u \in {v \in Of("upval") : mark[v] = "gray" /\ IsOpen(v)}}
      <3>1. reallymarkobject(mark, values, {})
        BY <2>4 DEF RemarkUpvals
      <3>2. ASSUME NEW u \in Of("upval"), mark[u] = "gray" PROVE ValueOf(u) \in S \cup {Nil}
        <4>1. u \in S /\ Kind[u] = "upval"
          BY <3>2, <2>3, Constants
        <4>2. Refers(u) = {ValueOf(u)}
          BY <4>1 DEF Refers
        <4>3. QED
          BY <4>1, <4>2, <2>3 DEF Closed
      <3>3. values \subseteq S \cup {Nil}
        BY <3>2
      <3> HIDE DEF values
      <3>4. QED
        BY <3>1, <3>3, <2>3, <1>1, <1>3, MarkingWithin
    <2>5. CASE RemarkWeak
      <3>1. reallymarkobject(mark, {running}, weak) /\ {running} \subseteq S \cup {Nil}
        BY <2>2, <2>5, <1>4 DEF RemarkWeak
      <3>2. QED
        BY <3>1, <2>3, <1>1, <1>3, MarkingWithin
    <2>6. CASE RemarkGrayAgain
      BY <2>3, <2>6 DEF RemarkGrayAgain
    <2>7. CASE SeparateUdata
      <3> DEFINE m == [o \in Object |-> IF o \in tmudata' THEN currentwhite ELSE mark[o]]
      <3>1. reallymarkobject(m, tmudata', {})
        BY <2>7 DEF SeparateUdata, marktmu
      <3>2. /\ m \in [Object -> {"free", "w0", "w1", "gray", "black"}]
            /\ \A o \in Object : m[o] \in {"gray", "black"} => o \in S
        BY <2>3, <1>1 DEF TypeOK, Whites
      <3> HIDE DEF m
      <3>3. ASSUME NEW values, values \subseteq S \cup {Nil}, reallymarkobject(m, values, {})
            PROVE  \A o \in Object : mark'[o] \in {"gray", "black"} => o \in S
        BY <3>2, <3>3, <2>3, <1>1, MarkingWithin
      <3>4. tmudata' \subseteq S \cup {Nil}
        BY <1>4
      <3>5. QED
        BY <3>1, <3>3, <3>4
    <2>8. QED
      BY <2>1, <2>4, <2>5, <2>6, <2>7, <1>8 DEF Atomic
  <1>9. CASE UNCHANGED vars
    <2>1. UNCHANGED <<mark, key, val, owner, slot, stack, running, full, gcstate, tmudata>>
      BY <1>9 DEF vars, barriers, heap, cycle
    <2>2. QED
      BY <2>1, <1>5
  <1>10. CASE Program
    <2>1. Instruction
      BY <1>10 DEF Program, Allocate, NewString, NewClosure, Set, SetGlobal, SetTable, Get, GetGlobal, GetUpval,
         Forget, Read, SetMetatable, SetUpval, Close, Resume, Yield
    <2>2. full' = "no"
      BY <2>1, Instructions
    <2>3. QED
      BY <2>2, <1>2
  <1>11. QED
    <2>1. ~FullGC /\ ~Pause /\ ~EndCycle /\ ~SweepStrings /\ ~EndSweep
          /\ ~(\E o \in sweepgc : SweepOne(o)) /\ ~(\E u \in tmudata : GCTM(u))
      BY <1>2 DEF FullGC, Pause, EndCycle, SweepStrings, EndSweep, SweepOne, GCTM
    <2>2. QED
      BY <2>1, <1>6, <1>7, <1>8, <1>9, <1>10 DEF Next, Step

\* What a step of a full collection does: the action of FullCollects.
Collects ==
    full = "mark" =>
          /\ gcstate = "propagate" /\ gcstate' # "propagate" =>
                \A o \in Object \ From({Main, Globals, running} \cup tmudata) : Alive(o) => IsDead(o)'
          /\ \A o \in Object : IsDead(o) => IsDead(o)' \/ ~Alive(o)'
          /\ full' = "no" => \A o \in Object : Alive(o) => mark[o] = currentwhite

LEMMA CollectsStep ==
    ASSUME GInv, OnlyMarked, Next
    PROVE  Collects
  <1>1. TypeOK /\ Shape /\ RootsLive /\ Phase
    BY DEF GInv
  <1>2. SUFFICES ASSUME full = "mark"
                 PROVE  /\ gcstate = "propagate" /\ gcstate' # "propagate" =>
                              \A o \in Object \ From(Roots) : Alive(o) => IsDead(o)'
                        /\ \A o \in Object : IsDead(o) => IsDead(o)' \/ ~Alive(o)'
                        /\ full' = "no" => \A o \in Object : Alive(o) => mark[o] = currentwhite
    BY DEF Collects, Roots
  <1>3. Step
    <2>1. ~Instruction
      BY <1>2, Instructions
    <2>2. ~Program
      BY <2>1 DEF Program, Allocate, NewString, NewClosure, Set, SetGlobal, SetTable, Get, GetGlobal, GetUpval,
         Forget, Read, SetMetatable, SetUpval, Close, Resume, Yield
    <2>3. QED
      BY <2>2, <1>2 DEF Next, FullGC
  <1>4. CASE gcstate = "propagate" /\ ~ClearWeak
    <2>1. \A o \in Object : ~IsDead(o)
      BY <1>1, <1>4 DEF Phase, Propagating, IsDead
    <2>2. gcstate' = "propagate" /\ full' = full
      BY <1>3, <1>4 DEF Step, Atomic, Pause, Propagate, SweepStrings, EndSweep, EndCycle, MarkAgain, SweepOne, GCTM
    <2>3. QED
      BY <2>1, <2>2, <1>2
  <1>5. CASE ClearWeak
    <2>1. gcstate = "propagate" /\ currentwhite' = otherwhite /\ full' = full
      BY <1>5 DEF ClearWeak, Remark
    <2>2. \A o \in Object : mark[o] # otherwhite
      BY <2>1, <1>1 DEF Phase, Propagating
    <2>3. Roots \in SUBSET Object /\ Roots # {}
      BY <1>1, Constants DEF Roots, TypeOK
    <2>4. Roots \subseteq From(Roots) /\ From(Roots) \subseteq Object /\ Closed(From(Roots))
      BY <2>3, <1>1, FromClosed
    <2>5. From(Roots) \in SUBSET Object
      BY <2>4
    <2>6. \A S \in SUBSET Object : Roots \subseteq S /\ Closed(S) => \A o \in Object : IsMarked(o) => o \in S
      BY <2>1, <1>2 DEF OnlyMarked
    <2>7. \A o \in Object : IsMarked(o) => o \in From(Roots)
      BY <2>4, <2>5, <2>6
    <2>8. \A o \in Object : mark'[o] = mark[o] \/
             \E h \in weak : val[h] # Nil /\ (o = key[h] \/ o = val[h]) /\ Kind[o] = "string"
      <3> DEFINE filled == {h \in weak : val[h] # Nil}
                 keyed == {h \in filled : ~iscleared(key[h], TRUE)}
                 strings == ({key[h] : h \in filled} \cup {val[h] : h \in keyed}) \cap Of("string")
      <3>1. mark' = [o \in Object |-> IF o \in strings THEN "gray" ELSE mark[o]]
        BY <1>5 DEF ClearWeak, cleartable
      <3>2. ASSUME NEW o \in strings
            PROVE  \E h \in weak : val[h] # Nil /\ (o = key[h] \/ o = val[h]) /\ Kind[o] = "string"
        <4>1. Kind[o] = "string"
          BY Constants
        <4>2. \E h \in filled : o = key[h] \/ o = val[h]
          OBVIOUS
        <4>3. QED
          BY <4>1, <4>2
      <3> HIDE DEF strings
      <3>3. QED
        BY <3>1, <3>2
    <2>9. \A h \in weak : h \in Object /\ IsMarked(h) /\ Kind[h] = "table"
      BY <2>1, <1>1, Constants DEF Phase, Propagating, Lists, TypeOK
    <2>10. ASSUME NEW o \in Object, o \notin From(Roots) PROVE mark'[o] = mark[o]
      <3>1. SUFFICES ASSUME NEW h \in weak, val[h] # Nil, o = key[h] \/ o = val[h], Kind[o] = "string" PROVE FALSE
        BY <2>8
      <3>2. h \in From(Roots) /\ Kind[h] = "table"
        BY <2>7, <2>9
      <3>3. Refers(h) \subseteq From(Roots) \cup {Nil}
        BY <3>2, <2>4 DEF Closed
      <3>4. o \in Of("string")
        BY <3>1, Constants
      <3>5. o \in Refers(h)
        BY <3>1, <3>2, <3>4 DEF Refers
      <3>6. QED
        BY <3>3, <3>5, <2>10, Constants
    <2>11. otherwhite' = currentwhite
      BY <2>1, <1>1 DEF otherwhite, TypeOK, Whites
    <2>12. ASSUME NEW o \in Object \ From(Roots), Alive(o) PROVE IsDead(o)'
      <3>1. mark[o] = currentwhite
        BY <2>2, <2>7, <2>12, <1>1 DEF Alive, IsMarked, TypeOK, otherwhite, Whites
      <3>2. QED
        BY <3>1, <2>10, <2>11, <2>12 DEF IsDead
    <2>13. QED
      BY <2>1, <2>2, <2>12, <1>2 DEF IsDead
  <1>6. CASE gcstate # "propagate" /\ \E objects : sweeplist(objects)
    <2>1. PICK objects : sweeplist(objects)
      BY <1>6
    <2>2. /\ mark' = [o \in Object |-> IF o \in objects THEN swept(o) ELSE mark[o]]
          /\ UNCHANGED <<currentwhite, full>>
      BY <2>1 DEF sweeplist
    <2>3. otherwhite' = otherwhite
      BY <2>2 DEF otherwhite
    <2>4. QED
      BY <2>2, <2>3, <1>2, <1>6 DEF swept, IsDead, Alive
  <1>7. CASE gcstate # "propagate" /\ \E u \in tmudata : GCTM(u)
    <2>1. PICK u \in tmudata : GCTM(u)
      BY <1>7
    <2>2. mark' = [mark EXCEPT ![u] = currentwhite] /\ UNCHANGED <<currentwhite, full>>
      BY <2>1 DEF GCTM
    <2>3. ~IsDead(u) /\ otherwhite' = otherwhite
      BY <2>2, <1>1 DEF RootsLive, Live, IsDead, otherwhite
    <2>4. QED
      BY <2>2, <2>3, <1>1, <1>2, <1>7 DEF IsDead, TypeOK
  <1>8. CASE gcstate # "propagate" /\ EndCycle
    <2>1. UNCHANGED <<mark, currentwhite>> /\ gcstate = "finalize" /\ tmudata = {}
      BY <1>8 DEF EndCycle, barriers
    <2>2. \A o \in Object : Alive(o) => mark[o] = currentwhite
      BY <2>1, <1>1 DEF Phase, Finalizing
    <2>3. QED
      BY <2>1, <2>2, <1>8 DEF IsDead, otherwhite
  <1>9. QED
    <2>1. SweepStrings \/ EndSweep \/ (\E o \in sweepgc : SweepOne(o)) => \E objects : sweeplist(objects)
      BY DEF SweepStrings, EndSweep, SweepOne
    <2>2. ~Pause /\ ~MarkAgain
      BY <1>2 DEF Pause, MarkAgain
    <2>3. Propagate \/ Atomic => gcstate = "propagate"
      BY DEF Propagate, Atomic, RemarkUpvals, RemarkWeak, RemarkGrayAgain, SeparateUdata, ClearWeak, Remark
    <2>4. QED
      BY <2>1, <2>2, <2>3, <1>3, <1>4, <1>5, <1>6, <1>7, <1>8 DEF Step

\* A full collection leaves nothing that the program cannot reach as it ends to
\* mark, but for userdata with a finalizer and what they refer to. What it
\* finds dead stays so until it is freed, and all else is white then
\* (luaC_fullgc()): for every set of objects and every program.
THEOREM FullCollectionCollects == Spec => FullCollects
  <1>1. Init => OnlyMarked
    BY DEF Init, OnlyMarked
  <1>2. GInv /\ OnlyMarked /\ [Next]_vars => OnlyMarked' /\ [Collects]_vars
    <2>1. GInv /\ OnlyMarked /\ Next => Collects
      BY CollectsStep
    <2>2. GInv /\ OnlyMarked /\ [Next]_vars => OnlyMarked'
      BY OnlyMarkedStep
    <2>3. QED
      BY <2>1, <2>2
  <1>3. [Collects]_vars <=> [full = "mark" =>
          /\ gcstate = "propagate" /\ gcstate' # "propagate" =>
                \A o \in Object \ From({Main, Globals, running} \cup tmudata) : Alive(o) => IsDead(o)'
          /\ \A o \in Object : IsDead(o) => IsDead(o)' \/ ~Alive(o)'
          /\ full' = "no" => \A o \in Object : Alive(o) => mark[o] = currentwhite]_vars
    BY DEF Collects
  <1>4. QED
    BY <1>1, <1>2, <1>3, Invariant, PTL DEF Spec, FullCollects

=============================================================================
