--------------------------- MODULE BigPictureProofs ---------------------------
(***************************************************************************)
(* The big picture for any program, any history and any kinds of globals.  *)
(* The names of a level are a scan of the history, defined by recursion;   *)
(* what it draws is proved by looking at the least entry up to which it    *)
(* would fail.  A scan is put as a relation between a history, the names   *)
(* that are looked for, and what is drawn, so that the scans of two states *)
(* can be compared.                                                        *)
(***************************************************************************)
EXTENDS BigPicture, FiniteSetTheorems, SequenceTheorems, WellFoundedInduction, TLAPS

-----------------------------------------------------------------------------
(* The call graph: a function is recorded at a depth where the program can *)
(* call it, and levels are filled from the top if every first call comes   *)
(* from the level above.                                                   *)

\* A thread that is running has a stack, and waits for at most one other.
ThreadInv ==
    /\ active # <<>>
    /\ active[1] = MainThread
    /\ \A i, j \in DOMAIN active : active[i] = active[j] => i = j
    /\ \A i \in DOMAIN active : stacks[active[i]] # <<>>
    /\ \A t \in Thread : Len(stacks[t]) <= MaxDepth

CInv == TypeOK /\ ThreadInv

LEMMA NotEmpty ==
    ASSUME NEW S, NEW s \in Seq(S), Len(s) > 0
    PROVE  s # <<>>
  <1> SUFFICES ASSUME s = <<>> PROVE FALSE
    OBVIOUS
  <1> QED
    BY EmptySeq

LEMMA FrontOfSeq ==
    ASSUME NEW S, NEW s \in Seq(S), Len(s) > 0
    PROVE  /\ SubSeq(s, 1, Len(s) - 1) \in Seq(S)
           /\ Len(SubSeq(s, 1, Len(s) - 1)) = Len(s) - 1
           /\ \A i \in 1 .. Len(s) - 1 : SubSeq(s, 1, Len(s) - 1)[i] = s[i]
  <1>1. Len(s) \in Nat /\ \A i \in 1 .. Len(s) - 1 : s[i] \in S
    BY LenProperties, ElementOfSeq
  <1> DEFINE n == Len(s) - 1
  <1>2. n \in Int /\ 1 \in Int /\ 1 <= n + 1
    BY <1>1
  <1>3. \A i \in 1 .. n : s[i] \in S
    BY <1>1
  <1> HIDE DEF n
  <1>4. /\ SubSeq(s, 1, n) \in Seq(S)
        /\ Len(SubSeq(s, 1, n)) = IF 1 <= n THEN n - 1 + 1 ELSE 0
        /\ \A i \in 1 .. n - 1 + 1 : SubSeq(s, 1, n)[i] = s[1 + i - 1]
    BY <1>2, <1>3, SubSeqProperties
  <1>5. Len(SubSeq(s, 1, n)) = n /\ \A i \in 1 .. n : SubSeq(s, 1, n)[i] = s[i]
    BY <1>2, <1>4
  <1>6. QED
    BY <1>4, <1>5 DEF n

LEMMA Running ==
    CInv => /\ Len(active) \in Nat \ {0}
            /\ running \in Thread
            /\ stack \in Seq(Frame)
            /\ Len(stack) \in 1 .. MaxDepth
            /\ ci \in Frame
            /\ \A i \in 1 .. Len(active) - 1 : active[i] # running
            /\ running = MainThread => Len(active) = 1
  <1> SUFFICES ASSUME CInv
               PROVE  /\ Len(active) \in Nat \ {0}
                      /\ running \in Thread
                      /\ stack \in Seq(Frame)
                      /\ Len(stack) \in 1 .. MaxDepth
                      /\ ci \in Frame
                      /\ \A i \in 1 .. Len(active) - 1 : active[i] # running
                      /\ running = MainThread => Len(active) = 1
    OBVIOUS
  <1> USE DEF CInv, TypeOK, ThreadInv
  <1>1. active \in Seq(Thread) /\ Len(active) \in Nat \ {0}
    OBVIOUS
  <1>2. running \in Thread
    BY <1>1 DEF running
  <1>3. stack \in Seq(Frame)
    BY <1>2 DEF stack
  <1>4. stack # <<>> /\ Len(stack) <= MaxDepth
    BY <1>1, <1>2 DEF stack, running
  <1>5. Len(stack) \in 1 .. MaxDepth
    BY <1>3, <1>4, CallGraphAssumption
  <1>6. ci \in Frame
    BY <1>3, <1>5 DEF ci
  <1>7. \A i \in 1 .. Len(active) - 1 : active[i] # running
    BY <1>1 DEF running
  <1>8. running = MainThread => Len(active) = 1
    <2>1. 1 \in DOMAIN active /\ Len(active) \in DOMAIN active
      BY <1>1
    <2>2. QED
      BY <2>1 DEF running
  <1>9. QED
    BY <1>1, <1>2, <1>3, <1>5, <1>6, <1>7, <1>8

LEMMA RecordType ==
    ASSUME CInv, NEW f \in Frame, NEW d \in 1 .. MaxDepth + 1, NEW g \in Frame,
           RecordMetadata(f, d, g)
    PROVE  /\ depth' \in [Func -> 0 .. MaxDepth + 1]
           /\ caller' \in [Func -> SUBSET (Func \cup Builtin)]
           /\ orderly' \in BOOLEAN
  <1> USE DEF CInv, TypeOK
  <1>1. CASE f \notin Func
    BY <1>1 DEF RecordMetadata, metadata
  <1>2. CASE f \in Func
    <2>1. depth' \in [Func -> 0 .. MaxDepth + 1]
      BY <1>2 DEF RecordMetadata, SaveCallGraphDepth
    <2>2. caller' \in [Func -> SUBSET (Func \cup Builtin)]
      BY <1>2, CallGraphAssumption DEF RecordMetadata, SaveCaller, Frame
    <2>3. orderly' \in BOOLEAN
      BY <1>2, Zenon DEF RecordMetadata
    <2>4. QED
      BY <2>1, <2>2, <2>3
  <1>3. QED
    BY <1>1, <1>2

LEMMA InitInv == Init => CInv
  <1> SUFFICES ASSUME Init PROVE CInv
    OBVIOUS
  <1> USE CallGraphAssumption DEF Init, Thread, Frame
  <1>1. stacks \in [Thread -> Seq(Frame)] /\ active \in Seq(Thread)
    <2>1. <<Unknown>> \in Seq(Frame) /\ <<>> \in Seq(Frame) /\ <<MainThread>> \in Seq(Thread)
      OBVIOUS
    <2>2. QED
      BY <2>1
  <1>2. depth \in [Func -> 0 .. MaxDepth + 1] /\ caller \in [Func -> SUBSET (Func \cup Builtin)]
    BY DEF NothingRecorded, NoCallers
  <1>3. TypeOK
    BY <1>1, <1>2 DEF TypeOK
  <1>4. ThreadInv
    <2>1. active = <<MainThread>> /\ DOMAIN active = {1} /\ active[1] = MainThread
      OBVIOUS
    <2>2. stacks[MainThread] = <<Unknown>> /\ <<Unknown>> # <<>>
      OBVIOUS
    <2>3. \A t \in Thread : Len(stacks[t]) <= MaxDepth
      <3>1. Len(<<Unknown>>) = 1 /\ Len(<<>>) = 0
        OBVIOUS
      <3>2. \A t \in Thread : stacks[t] = <<Unknown>> \/ stacks[t] = <<>>
        OBVIOUS
      <3>3. QED
        BY <3>1, <3>2
    <2>4. QED
      BY <2>1, <2>2, <2>3 DEF ThreadInv
  <1>5. QED
    BY <1>3, <1>4 DEF CInv

\* What the steps do to the stacks, one shape at a time.
LEMMA PushInv ==
    ASSUME CInv, NEW f \in Frame, Len(stack) < MaxDepth, UNCHANGED active,
           stacks' = [stacks EXCEPT ![running] = Append(@, f)]
    PROVE  ThreadInv' /\ stacks' \in [Thread -> Seq(Frame)]
  <1>1. running \in Thread /\ stack \in Seq(Frame)
    BY Running
  <1>2. stacks'[running] = Append(stack, f)
    BY <1>1 DEF CInv, TypeOK, stack
  <1>3. Append(stack, f) \in Seq(Frame) /\ Append(stack, f) # <<>>
        /\ Len(Append(stack, f)) = Len(stack) + 1
    BY <1>1, AppendProperties
  <1>4. \A t \in Thread : t # running => stacks'[t] = stacks[t]
    BY DEF CInv, TypeOK
  <1>5. stacks' \in [Thread -> Seq(Frame)]
    BY <1>1, <1>2, <1>3, <1>4 DEF CInv, TypeOK
  <1>6. \A t \in Thread : Len(stacks'[t]) <= MaxDepth
    BY <1>1, <1>2, <1>3, <1>4, CallGraphAssumption DEF CInv, ThreadInv
  <1>7. \A i \in DOMAIN active : stacks'[active[i]] # <<>>
    <2> TAKE i \in DOMAIN active
    <2>1. active[i] \in Thread
      BY DEF CInv, TypeOK
    <2>2. QED
      BY <2>1, <1>2, <1>3, <1>4 DEF CInv, ThreadInv
  <1>8. QED
    BY <1>5, <1>6, <1>7 DEF CInv, ThreadInv

LEMMA TailInv ==
    ASSUME CInv, NEW f \in Frame, UNCHANGED active,
           stacks' = [stacks EXCEPT ![running][Len(stack)] = f]
    PROVE  /\ ThreadInv' /\ stacks' \in [Thread -> Seq(Frame)]
           /\ stacks'[running] = [stack EXCEPT ![Len(stack)] = f]
  <1>1. running \in Thread /\ stack \in Seq(Frame) /\ Len(stack) \in 1 .. MaxDepth
    BY Running
  <1> DEFINE new == [stack EXCEPT ![Len(stack)] = f]
  <1>2. stacks'[running] = new
    BY <1>1 DEF CInv, TypeOK, stack
  <1>3. new \in Seq(Frame) /\ new # <<>> /\ Len(new) = Len(stack)
    BY <1>1
  <1> HIDE DEF new
  <1>4. \A t \in Thread : t # running => stacks'[t] = stacks[t]
    BY DEF CInv, TypeOK
  <1>5. stacks' \in [Thread -> Seq(Frame)]
    BY <1>1, <1>2, <1>3, <1>4 DEF CInv, TypeOK
  <1>6. \A t \in Thread : Len(stacks'[t]) <= MaxDepth
    BY <1>1, <1>2, <1>3, <1>4 DEF CInv, ThreadInv, stack
  <1>7. \A i \in DOMAIN active : stacks'[active[i]] # <<>>
    <2> TAKE i \in DOMAIN active
    <2>1. active[i] \in Thread
      BY DEF CInv, TypeOK
    <2>2. QED
      BY <2>1, <1>2, <1>3, <1>4 DEF CInv, ThreadInv
  <1>8. QED
    BY <1>2, <1>5, <1>6, <1>7 DEF CInv, ThreadInv, new

\* The thread that runs gives up its place.
LEMMA PopInv ==
    ASSUME CInv, Len(active) > 1, active' = SubSeq(active, 1, Len(active) - 1),
           \A t \in Thread : t # running => stacks'[t] = stacks[t],
           \A t \in Thread : Len(stacks'[t]) <= MaxDepth
    PROVE  ThreadInv' /\ active' \in Seq(Thread)
  <1>1. active \in Seq(Thread) /\ Len(active) \in Nat
    BY DEF CInv, TypeOK
  <1>2. /\ active' \in Seq(Thread) /\ Len(active') = Len(active) - 1
        /\ \A i \in 1 .. Len(active) - 1 : active'[i] = active[i]
    BY <1>1, FrontOfSeq
  <1>3. DOMAIN active' = 1 .. Len(active) - 1 /\ DOMAIN active = 1 .. Len(active)
    BY <1>1, <1>2, LenProperties
  <1>4. \A i \in DOMAIN active' : i \in DOMAIN active /\ active'[i] = active[i]
    BY <1>1, <1>2, <1>3
  <1>5. \A i \in DOMAIN active' : stacks'[active'[i]] # <<>>
    <2> TAKE i \in DOMAIN active'
    <2>1. active[i] \in Thread
      BY <1>1, <1>4
    <2>2. active[i] # running
      BY <1>3, Running
    <2>3. QED
      BY <1>4, <2>1, <2>2 DEF CInv, ThreadInv
  <1>6. active'[1] = MainThread /\ active' # <<>>
    <2>1. 1 \in DOMAIN active'
      BY <1>1, <1>3
    <2>2. active'[1] = active[1]
      BY <1>4, <2>1
    <2>3. active' # <<>>
      <3>1. Len(active') > 0
        BY <1>1, <1>2
      <3>2. QED
        BY <1>2, <3>1, NotEmpty
    <2>4. QED
      BY <2>2, <2>3 DEF CInv, ThreadInv
  <1>7. \A i, j \in DOMAIN active' : active'[i] = active'[j] => i = j
    BY <1>4 DEF CInv, ThreadInv
  <1>8. QED
    BY <1>2, <1>5, <1>6, <1>7 DEF ThreadInv

\* A thread that does not run yet takes its place on top.
LEMMA StartInv ==
    ASSUME CInv, NEW c \in Coroutine, \A i \in DOMAIN active : active[i] # c,
           active' = Append(active, c), stacks'[c] # <<>>,
           \A t \in Thread : t # c => stacks'[t] = stacks[t],
           Len(stacks'[c]) <= MaxDepth
    PROVE  ThreadInv' /\ active' \in Seq(Thread)
  <1>1. active \in Seq(Thread) /\ Len(active) \in Nat /\ c \in Thread
    BY DEF CInv, TypeOK, Thread
  <1>2. /\ active' \in Seq(Thread) /\ active' # <<>> /\ Len(active') = Len(active) + 1
        /\ \A i \in 1 .. Len(active) : active'[i] = active[i]
        /\ active'[Len(active) + 1] = c
    BY <1>1, AppendProperties
  <1>3. DOMAIN active' = 1 .. Len(active) + 1 /\ DOMAIN active = 1 .. Len(active)
    BY <1>1, <1>2, LenProperties
  <1>4. \A i \in DOMAIN active' : (i \in DOMAIN active /\ active'[i] = active[i])
                                 \/ (i = Len(active) + 1 /\ active'[i] = c)
    BY <1>1, <1>2, <1>3
  <1>5. \A i \in DOMAIN active : active[i] \in Thread
    BY <1>1
  <1>6. \A i \in DOMAIN active' : stacks'[active'[i]] # <<>>
    BY <1>4, <1>5 DEF CInv, ThreadInv
  <1>7. active'[1] = MainThread
    <2>1. Len(active) \in Nat \ {0}
      BY Running
    <2>2. QED
      BY <1>2, <2>1 DEF CInv, ThreadInv
  <1>8. \A i, j \in DOMAIN active' : active'[i] = active'[j] => i = j
    BY <1>4 DEF CInv, ThreadInv
  <1>9. \A t \in Thread : Len(stacks'[t]) <= MaxDepth
    BY DEF CInv, ThreadInv
  <1>10. QED
    BY <1>2, <1>6, <1>7, <1>8, <1>9 DEF ThreadInv

LEMMA ReturnInv ==
    ASSUME CInv, Return
    PROVE  /\ ThreadInv' /\ stacks' \in [Thread -> Seq(Frame)] /\ active' \in Seq(Thread)
           /\ stacks'[running] = SubSeq(stack, 1, Len(stack) - 1)
  <1>1. /\ running \in Thread /\ stack \in Seq(Frame) /\ Len(stack) \in 1 .. MaxDepth
        /\ Len(active) \in Nat \ {0}
    BY Running
  <1> DEFINE new == SubSeq(stack, 1, Len(stack) - 1)
  <1>2. stacks'[running] = new
    BY <1>1 DEF CInv, TypeOK, stack, Return
  <1>3. new \in Seq(Frame) /\ Len(new) = Len(stack) - 1
    BY <1>1, FrontOfSeq
  <1> HIDE DEF new
  <1>4. \A t \in Thread : t # running => stacks'[t] = stacks[t]
    BY DEF CInv, TypeOK, Return
  <1>5. stacks' \in [Thread -> Seq(Frame)]
    BY <1>1, <1>2, <1>3, <1>4 DEF CInv, TypeOK, Return
  <1>6. \A t \in Thread : Len(stacks'[t]) <= MaxDepth
    BY <1>1, <1>2, <1>3, <1>4, CallGraphAssumption DEF CInv, ThreadInv, stack
  <1>7. CASE Len(stack) # 1
    <2>1. UNCHANGED active
      BY <1>7 DEF Return
    <2>2. \A i \in DOMAIN active : stacks'[active[i]] # <<>>
      <3> TAKE i \in DOMAIN active
      <3>1. active[i] \in Thread
        BY DEF CInv, TypeOK
      <3>2. new # <<>>
        BY <1>1, <1>3, <1>7
      <3>3. QED
        BY <3>1, <3>2, <1>2, <1>4 DEF CInv, ThreadInv
    <2>3. QED
      BY <1>2, <1>5, <1>6, <2>1, <2>2 DEF CInv, ThreadInv, TypeOK, new
  <1>8. CASE Len(stack) = 1
    <2>1. Len(active) > 1
      <3>1. running # MainThread
        BY <1>8 DEF Return, AtBase
      <3>2. QED
        BY <1>1, <3>1 DEF CInv, ThreadInv, running
    <2>2. active' = SubSeq(active, 1, Len(active) - 1)
      BY <1>8 DEF Return
    <2>3. \A t \in Thread : t # running => stacks'[t] = stacks[t]
      BY <1>4
    <2>4. ThreadInv' /\ active' \in Seq(Thread)
      BY <1>5, <1>6, <2>1, <2>2, <2>3, PopInv
    <2>5. QED
      BY <1>2, <1>5, <2>4 DEF new
  <1>9. QED
    BY <1>7, <1>8

LEMMA NextInv == CInv /\ [Next]_graph => CInv'
  <1> SUFFICES ASSUME CInv, [Next]_graph PROVE CInv'
    OBVIOUS
  <1> USE DEF CInv
  <1>1. /\ running \in Thread /\ stack \in Seq(Frame) /\ Len(stack) \in 1 .. MaxDepth
        /\ ci \in Frame /\ Len(active) \in Nat \ {0}
    BY Running
  <1>2. Len(stack) + 1 \in 1 .. MaxDepth + 1
    BY <1>1, CallGraphAssumption
  <1>3. ASSUME NEW f \in Frame, Call(f) PROVE CInv'
    <2>1. ThreadInv' /\ stacks' \in [Thread -> Seq(Frame)]
      BY <1>3, PushInv DEF Call
    <2>2. /\ depth' \in [Func -> 0 .. MaxDepth + 1]
          /\ caller' \in [Func -> SUBSET (Func \cup Builtin)]
          /\ orderly' \in BOOLEAN
      BY <1>1, <1>2, <1>3, RecordType DEF Call
    <2>3. QED
      BY <1>3, <2>1, <2>2 DEF Call, TypeOK
  <1>4. ASSUME NEW f \in Frame, TailCall(f) PROVE CInv'
    <2>1. ThreadInv' /\ stacks' \in [Thread -> Seq(Frame)]
      BY <1>4, TailInv DEF TailCall
    <2>2. /\ depth' \in [Func -> 0 .. MaxDepth + 1]
          /\ caller' \in [Func -> SUBSET (Func \cup Builtin)]
          /\ orderly' \in BOOLEAN
      BY <1>1, <1>2, <1>4, RecordType DEF TailCall
    <2>3. QED
      BY <1>4, <2>1, <2>2 DEF TailCall, TypeOK
  <1>5. ASSUME Return PROVE CInv'
    <2>1. ThreadInv' /\ stacks' \in [Thread -> Seq(Frame)] /\ active' \in Seq(Thread)
      BY <1>5, ReturnInv
    <2>2. QED
      BY <1>5, <2>1 DEF Return, TypeOK, metadata
  <1>6. ASSUME NEW c \in Coroutine, NEW f \in Frame, Create(c, f) PROVE CInv'
    <2> DEFINE new == <<f>>
    <2>1. c \in Thread /\ new \in Seq(Frame) /\ new # <<>> /\ Len(new) = 1
      BY DEF Thread
    <2>2. stacks' = [stacks EXCEPT ![c] = new]
      BY <1>6 DEF Create
    <2> HIDE DEF new
    <2>3. stacks'[c] = new /\ \A t \in Thread : t # c => stacks'[t] = stacks[t]
      BY <2>1, <2>2 DEF TypeOK
    <2>4. stacks' \in [Thread -> Seq(Frame)]
      BY <2>1, <2>2 DEF TypeOK
    <2>5. \A i \in DOMAIN active : active[i] # c
      BY <1>6 DEF Create, ThreadInv
    <2>6. ThreadInv' /\ active' \in Seq(Thread)
      <3>1. stacks'[c] = new /\ 1 <= MaxDepth
        BY <2>3, CallGraphAssumption
      <3>2. active' = Append(active, c)
        BY <1>6 DEF Create
      <3>3. QED
        BY <2>1, <2>3, <2>5, <3>1, <3>2, StartInv
    <2>7. /\ depth' \in [Func -> 0 .. MaxDepth + 1]
          /\ caller' \in [Func -> SUBSET (Func \cup Builtin)]
          /\ orderly' \in BOOLEAN
      <3>1. 1 \in 1 .. MaxDepth + 1 /\ Unknown \in Frame
        BY CallGraphAssumption DEF Frame
      <3>2. RecordMetadata(f, 1, Unknown)
        BY <1>6 DEF Create
      <3>3. QED
        BY <3>1, <3>2, RecordType
    <2>8. QED
      BY <1>6, <2>4, <2>6, <2>7 DEF Create, TypeOK
  <1>7. ASSUME NEW c \in Coroutine, Resume(c) PROVE CInv'
    <2>1. \A i \in DOMAIN active : active[i] # c
      BY <1>7 DEF Resume
    <2>2. c \in Thread /\ active' = Append(active, c) /\ stacks' = stacks /\ stacks[c] # <<>>
      BY <1>7 DEF Resume, Thread
    <2>3. Len(stacks'[c]) <= MaxDepth
      BY <2>2 DEF ThreadInv
    <2>4. ThreadInv' /\ active' \in Seq(Thread)
      BY <2>1, <2>2, <2>3, StartInv
    <2>5. QED
      BY <1>7, <2>4 DEF Resume, TypeOK, metadata
  <1>8. ASSUME Yield PROVE CInv'
    <2>1. Len(active) > 1
      BY <1>1, <1>8 DEF Yield, ThreadInv, running
    <2>2. active' = SubSeq(active, 1, Len(active) - 1) /\ stacks' = stacks
      BY <1>8 DEF Yield
    <2>3. \A t \in Thread : Len(stacks'[t]) <= MaxDepth
      BY <2>2 DEF ThreadInv
    <2>4. ThreadInv' /\ active' \in Seq(Thread)
      BY <2>1, <2>2, <2>3, PopInv
    <2>5. QED
      BY <1>8, <2>4 DEF Yield, TypeOK, metadata
  <1>9. ASSUME StartApp PROVE CInv'
    <2>1. running = MainThread /\ Len(stack) = 1
      BY <1>9 DEF StartApp, AtBase
    <2>2. Main \in Frame /\ Main \in Func /\ Len(stack) < MaxDepth
      BY <2>1, CallGraphAssumption DEF Frame
    <2>3. UNCHANGED active /\ stacks' = [stacks EXCEPT ![running] = Append(@, Main)]
      BY <1>9, <2>1 DEF StartApp
    <2>4. ThreadInv' /\ stacks' \in [Thread -> Seq(Frame)]
      BY <2>2, <2>3, PushInv
    <2>5. depth' \in [Func -> 0 .. MaxDepth + 1] /\ caller' \in [Func -> SUBSET (Func \cup Builtin)]
      BY <1>9, CallGraphAssumption DEF StartApp, NothingRecorded, NoCallers
    <2>6. QED
      BY <1>9, <2>4, <2>5 DEF StartApp, TypeOK
  <1>10. ASSUME DeveloperMode PROVE CInv'
    BY <1>10 DEF DeveloperMode, TypeOK, ThreadInv, threads, metadata
  <1>11. ASSUME NewProcess PROVE CInv'
    <2>1. Init'
      BY <1>11 DEF NewProcess, Init, NothingRecorded, NoCallers
    <2>2. QED
      BY <2>1, InitInv, PTL
  <1>12. ASSUME UNCHANGED graph PROVE CInv'
    BY <1>12 DEF graph, threads, metadata, TypeOK, ThreadInv
  <1>13. QED
    BY <1>3, <1>4, <1>5, <1>6, <1>7, <1>8, <1>9, <1>10, <1>11, <1>12 DEF Next, Step

\* The levels of functions, and the threads that fill them, are what they should
\* be, for any program and any bound on the stacks.
THEOREM CallGraphTyped == Spec => []TypeOK
  <1>1. CInv => TypeOK
    BY DEF CInv
  <1>2. QED
    BY InitInv, NextInv, <1>1, PTL DEF Spec

LEMMA RecordLevels ==
    ASSUME CInv, LevelsFollowCalls, NEW f \in Frame, NEW d \in 1 .. MaxDepth + 1,
           NEW g \in Frame, RecordMetadata(f, d, g)
    PROVE  LevelsFollowCalls'
  <1> USE DEF CInv, TypeOK
  <1>1. CASE f \notin Func
    BY <1>1 DEF RecordMetadata, metadata, LevelsFollowCalls
  <1>2. CASE f \in Func
    <2> SUFFICES ASSUME orderly', NEW h \in Func, depth'[h] > 2
                 PROVE  \E k \in caller'[h] \cap Func : depth'[k] = depth'[h] - 1
      BY DEF LevelsFollowCalls
    <2>1. orderly /\ (depth[f] = 0 => OnLevelAbove(d, g))
      BY <1>2, Zenon DEF RecordMetadata
    <2>2. \A k \in Func : depth[k] # 0 => depth'[k] = depth[k]
      BY <1>2 DEF RecordMetadata, SaveCallGraphDepth
    <2>3. \A k \in Func : caller[k] \subseteq caller'[k]
      BY <1>2 DEF RecordMetadata, SaveCaller
    <2>4. CASE depth[h] # 0
      <3>1. depth[h] > 2
        BY <2>2, <2>4
      <3>2. PICK k \in caller[h] \cap Func : depth[k] = depth[h] - 1
        BY <2>1, <3>1 DEF LevelsFollowCalls
      <3>3. depth[k] # 0
        BY <3>1, <3>2
      <3>4. QED
        BY <2>2, <2>3, <2>4, <3>2, <3>3
    <2>5. CASE depth[h] = 0
      <3>1. h = f /\ depth'[h] = d
        BY <1>2, <2>5 DEF RecordMetadata, SaveCallGraphDepth
      <3>2. g \in Func /\ depth[g] = d - 1
        BY <2>1, <2>5, <3>1 DEF OnLevelAbove
      <3>3. g # Unknown
        BY <3>2, CallGraphAssumption
      <3>4. g \in caller'[f]
        BY <1>2, <3>1, <3>3 DEF RecordMetadata, SaveCaller
      <3>5. depth[g] # 0
        BY <3>1, <3>2
      <3>6. QED
        BY <2>2, <3>1, <3>2, <3>4, <3>5
    <2>6. QED
      BY <2>4, <2>5
  <1>3. QED
    BY <1>1, <1>2

\* Every function that is recorded has a caller on the level above, up to main(),
\* provided that first calls come from there: the levels of the big picture
\* follow the calls, and none is empty between others.
THEOREM LevelsFilled == Spec => []LevelsFollowCalls
  <1>1. Init => LevelsFollowCalls
    BY DEF Init, LevelsFollowCalls, NothingRecorded
  <1>2. ASSUME CInv, LevelsFollowCalls, [Next]_graph PROVE LevelsFollowCalls'
    <2>1. ci \in Frame /\ Len(stack) + 1 \in 1 .. MaxDepth + 1
      BY <1>2, Running, CallGraphAssumption
    <2>2. ASSUME NEW f \in Frame, Call(f) \/ TailCall(f) PROVE LevelsFollowCalls'
      BY <1>2, <2>1, <2>2, RecordLevels DEF Call, TailCall
    <2>3. ASSUME NEW c \in Coroutine, NEW f \in Frame, Create(c, f) PROVE LevelsFollowCalls'
      <3>1. 1 \in 1 .. MaxDepth + 1 /\ Unknown \in Frame
        BY CallGraphAssumption DEF Frame
      <3>2. QED
        BY <1>2, <2>3, <3>1, RecordLevels DEF Create
    <2>4. ASSUME StartApp PROVE LevelsFollowCalls'
      BY <2>4 DEF StartApp, LevelsFollowCalls, NothingRecorded
    <2>5. ASSUME NewProcess PROVE LevelsFollowCalls'
      BY <2>5 DEF NewProcess, LevelsFollowCalls, NothingRecorded
    <2>6. ASSUME UNCHANGED metadata PROVE LevelsFollowCalls'
      BY <1>2, <2>6 DEF metadata, LevelsFollowCalls
    <2>7. CASE UNCHANGED graph
      BY <2>6, <2>7 DEF graph
    <2>8. QED
      BY <1>2, <2>2, <2>3, <2>4, <2>5, <2>6, <2>7
      DEF Next, Step, Return, Resume, Yield, DeveloperMode
  <1>3. QED
    BY <1>1, <1>2, InitInv, NextInv, PTL DEF Spec

-----------------------------------------------------------------------------
(* What the text of the program allows *)

\* Every nonempty set of natural numbers has a least element.
LEMMA LeastElement ==
    ASSUME NEW T \in SUBSET Nat, T # {}
    PROVE  \E x \in T : \A y \in T : x <= y
  <1> DEFINE R == {ss \in Nat \X Nat : ss[1] < ss[2]}
  <1>1. IsWellFoundedOn(R, Nat)
    BY NatLessThanWellFounded DEF OpToRel
  <1>2. \A x, y \in Nat : <<y, x>> \in R <=> y < x
    OBVIOUS
  <1> HIDE DEF R
  <1>3. PICK x \in T : \A y \in T : ~ (<<y, x>> \in R)
    BY <1>1, WFMin
  <1>4. ASSUME NEW y \in T PROVE x <= y
    <2>1. ~ (y < x)
      BY <1>2, <1>3, Zenon
    <2>2. x \in Nat /\ y \in Nat
      OBVIOUS
    <2>3. QED
      BY <2>1, <2>2
  <1>5. QED
    BY <1>4

LEMMA Closure ==
    ASSUME NEW S \in SUBSET Frame
    PROVE  /\ S \subseteq TailClosure(S)
           /\ TailClosure(S) \subseteq Frame
           /\ Closed(TailClosure(S))
  <1>1. S \subseteq TailClosure(S) /\ TailClosure(S) \subseteq Frame
    BY DEF TailClosure
  <1>2. ASSUME NEW call \in TailCalls, call[1] \in TailClosure(S)
        PROVE  call[2] \in TailClosure(S)
    <2>1. call[2] \in Frame
      BY CallGraphAssumption DEF Frame
    <2>2. ASSUME NEW T \in SUBSET Frame, S \subseteq T, Closed(T)
          PROVE  call[2] \in T
      <3>1. call[1] \in T
        BY <1>2, <2>2 DEF TailClosure
      <3>2. QED
        BY <2>2, <3>1 DEF Closed
    <2>3. QED
      BY <2>1, <2>2 DEF TailClosure
  <1>3. QED
    BY <1>1, <1>2 DEF Closed

LEMMA ClosureMonotone ==
    ASSUME NEW S \in SUBSET Frame, NEW R \in SUBSET S
    PROVE  TailClosure(R) \subseteq TailClosure(S)
  BY DEF TailClosure

\* One level of AllowedAt, and a function that has the first m of them.
Above(roots, at, n) ==
    IF n = 1 THEN TailClosure(Body)
    ELSE TailClosure(Callees(at[n - 1]) \cup (IF n = 2 THEN roots ELSE {}))

IsAllowed(roots, m, at) == at = [n \in 1 .. m |-> Above(roots, at, n)]

LEMMA AllowedExists ==
    ASSUME NEW roots, NEW m \in Nat
    PROVE  \E at : IsAllowed(roots, m, at)
  <1> DEFINE T == {k \in Nat : ~ \E at : IsAllowed(roots, k, at)}
  <1>1. SUFFICES ASSUME T # {} PROVE FALSE
    OBVIOUS
  <1>2. T \in SUBSET Nat
    OBVIOUS
  <1> HIDE DEF T
  <1>3. PICK k \in T : \A y \in T : k <= y
    BY <1>1, <1>2, LeastElement
  <1>4. k \in Nat /\ ~ \E at : IsAllowed(roots, k, at)
    BY <1>3 DEF T
  <1>5. CASE k = 0
    <2>1. IsAllowed(roots, 0, [n \in 1 .. 0 |-> {}])
      BY DEF IsAllowed
    <2>2. QED
      BY <1>4, <1>5, <2>1
  <1>6. CASE k # 0
    <2>1. k - 1 \in Nat /\ k - 1 \notin T
      <3>1. k - 1 \in Nat /\ ~ (k <= k - 1)
        BY <1>4, <1>6
      <3>2. QED
        BY <3>1, <1>3
    <2>2. PICK f : IsAllowed(roots, k - 1, f)
      BY <2>1 DEF T
    <2> DEFINE g == [n \in 1 .. k |-> IF n = k THEN Above(roots, f, k) ELSE f[n]]
    <2>3. \A n \in 1 .. k - 1 : f[n] = Above(roots, f, n)
      BY <2>2 DEF IsAllowed
    <2>4. ASSUME NEW n \in 1 .. k
          PROVE  g[n] = Above(roots, g, n)
      <3>1. g[n] = Above(roots, f, n)
        BY <2>3, <1>4
      <3>2. CASE n = 1
        BY <3>1, <3>2 DEF Above
      <3>3. CASE n # 1
        <4>1. g[n - 1] = f[n - 1]
          BY <3>3, <1>4
        <4>2. QED
          BY <3>1, <3>3, <4>1 DEF Above
      <3>4. QED
        BY <3>2, <3>3
    <2>5. IsAllowed(roots, k, g)
      <3> HIDE DEF g
      <3>1. g = [n \in 1 .. k |-> g[n]]
        BY DEF g
      <3>2. QED
        BY <3>1, <2>4 DEF IsAllowed
    <2>6. QED
      BY <2>5, <1>4
  <1>7. QED
    BY <1>5, <1>6

LEMMA AllowedStep ==
    ASSUME NEW roots, NEW n \in 1 .. MaxDepth
    PROVE  AllowedAt(roots)[n] = Above(roots, AllowedAt(roots), n)
  <1> DEFINE at == AllowedAt(roots)
  <1>1. MaxDepth \in Nat
    BY CallGraphAssumption
  <1>2. \E a : IsAllowed(roots, MaxDepth, a)
    BY <1>1, AllowedExists
  <1>3. at = CHOOSE a : IsAllowed(roots, MaxDepth, a)
    BY DEF AllowedAt, IsAllowed, Above
  <1>4. IsAllowed(roots, MaxDepth, at)
    BY <1>2, <1>3
  <1> HIDE DEF at
  <1>5. at[n] = Above(roots, at, n)
    BY <1>4 DEF IsAllowed
  <1>6. QED
    BY <1>5 DEF at

\* What the levels have: the bodies of coroutines and the roots, everything that
\* the level below calls, and everything that a tail call puts there.
LEMMA AllowedFacts ==
    ASSUME NEW roots \in SUBSET Frame, NEW n \in 1 .. MaxDepth
    PROVE  /\ AllowedAt(roots)[n] \subseteq Frame
           /\ Closed(AllowedAt(roots)[n])
           /\ n = 1 => Body \subseteq AllowedAt(roots)[n]
           /\ n = 2 => roots \subseteq AllowedAt(roots)[n]
           /\ n > 1 => Callees(AllowedAt(roots)[n - 1]) \subseteq AllowedAt(roots)[n]
  <1> DEFINE at == AllowedAt(roots)
             S == IF n = 1 THEN Body ELSE Callees(at[n - 1]) \cup (IF n = 2 THEN roots ELSE {})
  <1>1. at[n] = TailClosure(S)
    BY AllowedStep DEF Above
  <1>2. S \in SUBSET Frame
    BY CallGraphAssumption DEF Callees
  <1>3. S \subseteq at[n] /\ at[n] \subseteq Frame /\ Closed(at[n])
    <2> HIDE DEF at, S
    <2> QED
      BY <1>1, <1>2, Closure
  <1>4. QED
    BY <1>3

\* Coroutines do not need the roots.
LEMMA AllowedMonotone ==
    ASSUME NEW roots \in SUBSET Frame, NEW m \in 1 .. MaxDepth
    PROVE  AllowedAt({})[m] \subseteq AllowedAt(roots)[m]
  <1> DEFINE Good(k) == AllowedAt({})[k] \subseteq AllowedAt(roots)[k]
             T == {k \in 1 .. MaxDepth : ~ Good(k)}
  <1>1. MaxDepth \in Nat
    BY CallGraphAssumption
  <1>2. SUFFICES ASSUME T # {} PROVE FALSE
    OBVIOUS
  <1>3. T \in SUBSET Nat
    OBVIOUS
  <1> HIDE DEF T
  <1>4. PICK k \in T : \A y \in T : k <= y
    BY <1>2, <1>3, LeastElement
  <1>5. k \in 1 .. MaxDepth /\ ~ Good(k)
    BY <1>4 DEF T
  <1>6. CASE k = 1
    BY <1>5, <1>6, AllowedStep DEF Above
  <1>7. CASE k # 1
    <2>1. k - 1 \in 1 .. MaxDepth /\ ~ (k <= k - 1)
      BY <1>1, <1>5, <1>7
    <2>2. Good(k - 1)
      BY <2>1, <1>4 DEF T
    <2> DEFINE R == Callees(AllowedAt({})[k - 1])
               S == Callees(AllowedAt(roots)[k - 1]) \cup (IF k = 2 THEN roots ELSE {})
    <2>3. S \in SUBSET Frame /\ R \in SUBSET S
      BY <2>2 DEF Callees
    <2>4. AllowedAt({})[k] = TailClosure(R \cup {}) /\ AllowedAt(roots)[k] = TailClosure(S)
      BY <1>5, <1>7, AllowedStep DEF Above
    <2> HIDE DEF R, S
    <2>5. R \cup {} = R
      OBVIOUS
    <2>6. QED
      BY <1>5, <2>3, <2>4, <2>5, ClosureMonotone
  <1>8. QED
    BY <1>6, <1>7

-----------------------------------------------------------------------------
(* Depths are levels of call chains *)

\* Each frame is where the program allows it.
ChainInv ==
    /\ \A c \in Coroutine : \A n \in DOMAIN stacks[c] : stacks[c][n] \in AllowedAt({})[n]
    /\ \A n \in DOMAIN stacks[MainThread] :
          n > 1 => stacks[MainThread][n] \in AllowedAt(Roots)[n]

\* Where DepthIsCallChain lets a function be recorded
At(f, d, roots) ==
    \/ d = 1 /\ f \in Body
    \/ d = 2 /\ f \in roots
    \/ d > 1 /\ f \in Callees(AllowedAt(roots)[d - 1])

LEMMA DepthAt == DepthIsCallChain <=> \A f \in Func : depth[f] # 0 => At(f, depth[f], Roots)
  BY DEF DepthIsCallChain, At

LEMMA RootsInFrame == Roots \in SUBSET Frame
  BY CallGraphAssumption DEF Roots, Frame

LEMMA RecordChain ==
    ASSUME CInv, DepthIsCallChain, NEW f \in Frame, NEW d \in 1 .. MaxDepth + 1, NEW g \in Frame,
           RecordMetadata(f, d, g), At(f, d, Roots), UNCHANGED phase
    PROVE  DepthIsCallChain'
  <1>1. Roots' = Roots
    BY DEF Roots
  <1>2. \A h \in Func : depth'[h] = depth[h] \/ (h = f /\ depth'[h] = d)
    BY DEF RecordMetadata, SaveCallGraphDepth, metadata, CInv, TypeOK
  <1>3. \A h \in Func : depth[h] # 0 => At(h, depth[h], Roots)
    BY DepthAt
  <1>4. \A h \in Func : depth'[h] # 0 => At(h, depth'[h], Roots)
    BY <1>2, <1>3
  <1>5. QED
    BY <1>1, <1>4 DEF DepthIsCallChain, At

\* The frame that runs, unless it is pmain(), is where the program allows it.
LEMMA TopAllowed ==
    ASSUME CInv, ChainInv, ~ AtBase
    PROVE  ci \in AllowedAt(Roots)[Len(stack)]
  <1>1. /\ running \in Thread /\ stack \in Seq(Frame) /\ Len(stack) \in 1 .. MaxDepth
    BY Running
  <1>2. Len(stack) \in DOMAIN stack /\ stack = stacks[running] /\ ci = stack[Len(stack)]
    BY <1>1 DEF stack, ci
  <1>3. CASE running \in Coroutine
    <2>1. ci \in AllowedAt({})[Len(stack)]
      BY <1>2, <1>3 DEF ChainInv
    <2>2. QED
      BY <1>1, <2>1, RootsInFrame, AllowedMonotone
  <1>4. CASE running = MainThread
    <2>1. Len(stack) > 1
      <3>1. Len(stack) # 1
        BY <1>4, Zenon DEF AtBase
      <3>2. Len(stack) \in Nat /\ 1 <= Len(stack)
        BY <1>1, CallGraphAssumption
      <3>3. \A n \in Nat : 1 <= n /\ n # 1 => n > 1
        OBVIOUS
      <3>4. QED
        BY <3>1, <3>2, <3>3, Zenon
    <2>2. QED
      BY <1>2, <1>4, <2>1 DEF ChainInv
  <1>5. QED
    BY <1>1, <1>3, <1>4 DEF Thread

LEMMA CallAllowed ==
    ASSUME CInv, ChainInv, NEW f \in Frame, MayCall(f)
    PROVE  At(f, Len(stack) + 1, Roots)
  <1>1. Len(stack) \in 1 .. MaxDepth
    BY Running
  <1>2. CASE AtBase
    BY <1>2 DEF MayCall, AtBase, At, Roots
  <1>3. CASE ~ AtBase
    <2>1. f \in Callees(AllowedAt(Roots)[Len(stack)])
      BY <1>3, TopAllowed DEF MayCall, Callees
    <2>2. Len(stack) + 1 > 1 /\ Len(stack) + 1 - 1 = Len(stack)
      BY <1>1
    <2>3. QED
      BY <2>1, <2>2 DEF At
  <1>4. QED
    BY <1>2, <1>3

\* Where f may be in the thread that runs
Fits(f, n) ==
    /\ running \in Coroutine => f \in AllowedAt({})[n]
    /\ running = MainThread /\ n > 1 => f \in AllowedAt(Roots)[n]

LEMMA PlaceChain ==
    ASSUME CInv, ChainInv, NEW f \in Frame, UNCHANGED phase,
           \A t \in Thread : t # running => stacks'[t] = stacks[t],
           \A n \in DOMAIN stacks'[running] :
              \/ n \in DOMAIN stack /\ stacks'[running][n] = stack[n]
              \/ stacks'[running][n] = f /\ Fits(f, n)
    PROVE  ChainInv'
  <1>1. Roots' = Roots
    BY DEF Roots
  <1>2. running \in Thread /\ stack = stacks[running]
    BY Running DEF stack
  <1>3. ASSUME NEW c \in Coroutine, NEW n \in DOMAIN stacks'[c]
        PROVE  stacks'[c][n] \in AllowedAt({})[n]
    <2>1. c \in Thread
      BY DEF Thread
    <2>2. CASE c = running
      BY <1>2, <1>3, <2>2 DEF ChainInv, Fits
    <2>3. CASE c # running
      BY <1>3, <2>1, <2>3 DEF ChainInv
    <2>4. QED
      BY <2>2, <2>3
  <1>4. ASSUME NEW n \in DOMAIN stacks'[MainThread], n > 1
        PROVE  stacks'[MainThread][n] \in AllowedAt(Roots)[n]
    <2>1. MainThread \in Thread
      BY DEF Thread
    <2>2. CASE MainThread = running
      BY <1>2, <1>4, <2>2 DEF ChainInv, Fits
    <2>3. CASE MainThread # running
      BY <1>4, <2>1, <2>3 DEF ChainInv
    <2>4. QED
      BY <2>2, <2>3
  <1>5. QED
    BY <1>1, <1>3, <1>4 DEF ChainInv

LEMMA CallFits ==
    ASSUME CInv, ChainInv, NEW f \in Frame, MayCall(f), Len(stack) < MaxDepth
    PROVE  Fits(f, Len(stack) + 1)
  <1>1. /\ running \in Thread /\ stack \in Seq(Frame) /\ Len(stack) \in 1 .. MaxDepth
    BY Running
  <1> DEFINE n == Len(stack) + 1
  <1>2. /\ n \in 1 .. MaxDepth /\ n > 1 /\ n - 1 = Len(stack)
    BY <1>1, CallGraphAssumption
  <1>3. /\ Callees(AllowedAt({})[Len(stack)]) \subseteq AllowedAt({})[n]
        /\ Callees(AllowedAt(Roots)[Len(stack)]) \subseteq AllowedAt(Roots)[n]
        /\ n = 2 => Roots \subseteq AllowedAt(Roots)[n]
    <2> HIDE DEF n
    <2>1. {} \in SUBSET Frame
      OBVIOUS
    <2>2. QED
      BY <1>2, <2>1, AllowedFacts, RootsInFrame
  <1>4. CASE AtBase
    <2>1. running = MainThread /\ n = 2 /\ f \in Roots
      BY <1>4 DEF AtBase, MayCall, Roots
    <2>2. running \notin Coroutine
      BY <2>1, CallGraphAssumption
    <2>3. QED
      BY <1>3, <2>1, <2>2 DEF Fits
  <1>5. CASE ~ AtBase
    <2>1. <<ci, f>> \in Calls
      BY <1>5 DEF MayCall
    <2>2. ci \in AllowedAt(Roots)[Len(stack)]
      BY <1>5, TopAllowed
    <2>3. running \in Coroutine => ci \in AllowedAt({})[Len(stack)]
      BY <1>1 DEF ChainInv, stack, ci
    <2>4. QED
      BY <1>3, <2>1, <2>2, <2>3 DEF Fits, Callees
  <1>6. QED
    BY <1>4, <1>5

LEMMA TailFits ==
    ASSUME CInv, ChainInv, NEW f \in Frame, ~ AtBase, <<ci, f>> \in TailCalls
    PROVE  Fits(f, Len(stack)) /\ At(f, Len(stack) + 1, Roots)
  <1>1. /\ running \in Thread /\ stack \in Seq(Frame) /\ Len(stack) \in 1 .. MaxDepth
    BY Running
  <1>2. ci \in AllowedAt(Roots)[Len(stack)]
    BY TopAllowed
  <1>3. running \in Coroutine => ci \in AllowedAt({})[Len(stack)]
    BY <1>1 DEF ChainInv, stack, ci
  <1>4. Closed(AllowedAt({})[Len(stack)]) /\ Closed(AllowedAt(Roots)[Len(stack)])
    <2>1. {} \in SUBSET Frame
      OBVIOUS
    <2>2. QED
      BY <1>1, <2>1, AllowedFacts, RootsInFrame
  <1>5. Fits(f, Len(stack))
    BY <1>2, <1>3, <1>4 DEF Fits, Closed
  <1>6. f \in Callees(AllowedAt(Roots)[Len(stack)])
    BY <1>2, CallGraphAssumption DEF Callees
  <1>7. Len(stack) + 1 > 1 /\ Len(stack) + 1 - 1 = Len(stack)
    BY <1>1
  <1>8. QED
    BY <1>5, <1>6, <1>7 DEF At

LEMMA CallChain ==
    ASSUME CInv, ChainInv, DepthIsCallChain, NEW f \in Frame, Call(f)
    PROVE  ChainInv' /\ DepthIsCallChain'
  <1>1. /\ running \in Thread /\ stack \in Seq(Frame) /\ Len(stack) \in 1 .. MaxDepth
        /\ ci \in Frame /\ Len(stack) + 1 \in 1 .. MaxDepth + 1
    BY Running, CallGraphAssumption
  <1>2. /\ MayCall(f) /\ Len(stack) < MaxDepth /\ RecordMetadata(f, Len(stack) + 1, ci)
        /\ UNCHANGED phase /\ stacks' = [stacks EXCEPT ![running] = Append(stack, f)]
    BY DEF Call, stack
  <1>3. /\ \A t \in Thread : t # running => stacks'[t] = stacks[t]
        /\ stacks'[running] = Append(stack, f)
    BY <1>1, <1>2 DEF CInv, TypeOK
  <1>4. ASSUME NEW n \in DOMAIN stacks'[running]
        PROVE  \/ n \in DOMAIN stack /\ stacks'[running][n] = stack[n]
               \/ stacks'[running][n] = f /\ Fits(f, n)
    <2> DEFINE new == Append(stack, f)
    <2>1. /\ new \in Seq(Frame) /\ Len(new) = Len(stack) + 1
          /\ \A i \in 1 .. Len(stack) : new[i] = stack[i]
          /\ new[Len(stack) + 1] = f
      BY <1>1, AppendProperties
    <2> HIDE DEF new
    <2>2. DOMAIN new = 1 .. Len(stack) + 1 /\ DOMAIN stack = 1 .. Len(stack) /\ stacks'[running] = new
      BY <1>1, <1>3, <2>1, LenProperties DEF new
    <2>3. CASE n = Len(stack) + 1
      BY <1>2, <2>1, <2>2, <2>3, CallFits
    <2>4. CASE n # Len(stack) + 1
      <3>1. n \in 1 .. Len(stack)
        BY <1>1, <1>4, <2>2, <2>4, CallGraphAssumption
      <3>2. QED
        BY <2>1, <2>2, <3>1
    <2>5. QED
      BY <2>3, <2>4
  <1>5. ChainInv'
    BY <1>2, <1>3, <1>4, PlaceChain
  <1>6. DepthIsCallChain'
    BY <1>1, <1>2, CallAllowed, RecordChain
  <1>7. QED
    BY <1>5, <1>6

LEMMA TailChain ==
    ASSUME CInv, ChainInv, DepthIsCallChain, NEW f \in Frame, TailCall(f)
    PROVE  ChainInv' /\ DepthIsCallChain'
  <1>1. /\ running \in Thread /\ stack \in Seq(Frame) /\ Len(stack) \in 1 .. MaxDepth
        /\ ci \in Frame /\ Len(stack) + 1 \in 1 .. MaxDepth + 1
    BY Running, CallGraphAssumption
  <1>2. /\ ~ AtBase /\ <<ci, f>> \in TailCalls /\ RecordMetadata(f, Len(stack) + 1, ci)
        /\ UNCHANGED <<phase, active>> /\ stacks' = [stacks EXCEPT ![running][Len(stack)] = f]
    BY DEF TailCall
  <1>3. /\ \A t \in Thread : t # running => stacks'[t] = stacks[t]
        /\ stacks'[running] = [stack EXCEPT ![Len(stack)] = f]
    BY <1>1, <1>2, TailInv DEF CInv, TypeOK
  <1>4. ASSUME NEW n \in DOMAIN stacks'[running]
        PROVE  \/ n \in DOMAIN stack /\ stacks'[running][n] = stack[n]
               \/ stacks'[running][n] = f /\ Fits(f, n)
    <2>1. n \in DOMAIN stack
      BY <1>3, <1>4
    <2>2. CASE n = Len(stack)
      BY <1>2, <1>3, <2>1, <2>2, TailFits
    <2>3. CASE n # Len(stack)
      BY <1>3, <2>1, <2>3
    <2>4. QED
      BY <2>2, <2>3
  <1>5. ChainInv'
    BY <1>2, <1>3, <1>4, PlaceChain
  <1>6. DepthIsCallChain'
    BY <1>1, <1>2, TailFits, RecordChain
  <1>7. QED
    BY <1>5, <1>6

LEMMA ReturnChain ==
    ASSUME CInv, ChainInv, DepthIsCallChain, Return
    PROVE  ChainInv' /\ DepthIsCallChain'
  <1>1. /\ running \in Thread /\ stack \in Seq(Frame) /\ Len(stack) \in 1 .. MaxDepth
        /\ ci \in Frame
    BY Running
  <1>2. /\ \A t \in Thread : t # running => stacks'[t] = stacks[t]
        /\ stacks'[running] = SubSeq(stack, 1, Len(stack) - 1)
    BY <1>1, ReturnInv DEF Return, CInv, TypeOK
  <1>3. ASSUME NEW n \in DOMAIN stacks'[running]
        PROVE  n \in DOMAIN stack /\ stacks'[running][n] = stack[n]
    <2> DEFINE new == SubSeq(stack, 1, Len(stack) - 1)
    <2>1. Len(stack) > 0 /\ Len(stack) \in Nat
      BY <1>1, CallGraphAssumption
    <2>2. new \in Seq(Frame) /\ Len(new) = Len(stack) - 1
          /\ \A i \in 1 .. Len(stack) - 1 : new[i] = stack[i]
      BY <1>1, <2>1, FrontOfSeq
    <2> HIDE DEF new
    <2>3. DOMAIN new = 1 .. Len(stack) - 1 /\ DOMAIN stack = 1 .. Len(stack) /\ stacks'[running] = new
      BY <1>1, <1>2, <2>2, LenProperties DEF new
    <2>4. QED
      BY <1>3, <2>1, <2>2, <2>3
  <1>4. UNCHANGED <<phase, metadata>>
    BY DEF Return
  <1>5. ChainInv'
    BY <1>1, <1>2, <1>3, <1>4, PlaceChain
  <1>6. DepthIsCallChain'
    BY <1>4 DEF metadata, DepthIsCallChain, Roots
  <1>7. QED
    BY <1>5, <1>6

LEMMA CreateChain ==
    ASSUME CInv, ChainInv, DepthIsCallChain, NEW c \in Coroutine, NEW f \in Frame, Create(c, f)
    PROVE  ChainInv' /\ DepthIsCallChain'
  <1>1. 1 \in 1 .. MaxDepth /\ 1 \in 1 .. MaxDepth + 1 /\ Unknown \in Frame /\ c # MainThread
    BY CallGraphAssumption DEF Frame
  <1>2. /\ f \in Body /\ RecordMetadata(f, 1, Unknown) /\ UNCHANGED phase
        /\ stacks' = [stacks EXCEPT ![c] = <<f>>]
    BY DEF Create
  <1>3. /\ stacks'[c] = <<f>> /\ \A t \in Thread : t # c => stacks'[t] = stacks[t]
    BY <1>2 DEF CInv, TypeOK, Thread
  <1>4. f \in AllowedAt({})[1]
    <2>1. {} \in SUBSET Frame
      OBVIOUS
    <2>2. QED
      BY <1>1, <1>2, <2>1, AllowedFacts
  <1>5. ASSUME NEW b \in Coroutine, NEW n \in DOMAIN stacks'[b]
        PROVE  stacks'[b][n] \in AllowedAt({})[n]
    <2>1. CASE b = c
      <3>1. n = 1 /\ stacks'[b][n] = f
        BY <1>3, <1>5, <2>1
      <3>2. QED
        BY <1>4, <3>1
    <2>2. CASE b # c
      BY <1>3, <1>5, <2>2 DEF ChainInv, Thread
    <2>3. QED
      BY <2>1, <2>2
  <1>6. stacks'[MainThread] = stacks[MainThread] /\ Roots' = Roots
    BY <1>1, <1>2, <1>3 DEF Thread, Roots
  <1>7. ChainInv'
    BY <1>5, <1>6 DEF ChainInv
  <1>8. At(f, 1, Roots)
    BY <1>2 DEF At
  <1>9. DepthIsCallChain'
    BY <1>1, <1>2, <1>8, RecordChain
  <1>10. QED
    BY <1>7, <1>9

LEMMA StartChain ==
    ASSUME CInv, ChainInv, StartApp
    PROVE  ChainInv' /\ DepthIsCallChain'
  <1>1. /\ running \in Thread /\ stack \in Seq(Frame)
    BY Running
  <1>2. /\ running = MainThread /\ Len(stack) = 1
        /\ Roots' = {Main} /\ stacks' = [stacks EXCEPT ![MainThread] = Append(@, Main)]
        /\ depth' = [NothingRecorded EXCEPT ![Main] = 2]
    BY DEF StartApp, AtBase, Roots
  <1>3. Main \in Func /\ Main \in Frame /\ MainThread \notin Coroutine /\ 2 \in 1 .. MaxDepth
    BY CallGraphAssumption DEF Frame
  <1>4. /\ stacks'[MainThread] = Append(stack, Main)
        /\ \A c \in Coroutine : stacks'[c] = stacks[c]
    BY <1>1, <1>2, <1>3 DEF stack, CInv, TypeOK, Thread
  <1>5. ASSUME NEW n \in DOMAIN stacks'[MainThread], n > 1
        PROVE  stacks'[MainThread][n] \in AllowedAt({Main})[n]
    <2> DEFINE new == Append(stack, Main)
    <2>1. /\ new \in Seq(Frame) /\ Len(new) = Len(stack) + 1
          /\ new[Len(stack) + 1] = Main
      BY <1>1, <1>3, AppendProperties
    <2> HIDE DEF new
    <2>2. /\ DOMAIN new = 1 .. 2 /\ stacks'[MainThread] = new
          /\ new[2] = Main
      BY <1>2, <1>4, <2>1, LenProperties DEF new
    <2>3. n = 2
      BY <1>5, <2>2
    <2>4. Main \in AllowedAt({Main})[2]
      <3>1. {Main} \in SUBSET Frame
        BY <1>3
      <3>2. QED
        BY <1>3, <3>1, AllowedFacts
    <2>5. QED
      BY <2>1, <2>2, <2>3, <2>4
  <1>6. ChainInv'
    BY <1>2, <1>4, <1>5 DEF ChainInv
  <1>7. \A f \in Func : depth'[f] # 0 => depth'[f] = 2 /\ f \in Roots'
    BY <1>2, <1>3 DEF NothingRecorded
  <1>8. DepthIsCallChain'
    BY <1>7 DEF DepthIsCallChain
  <1>9. QED
    BY <1>6, <1>8

LEMMA InitChain == Init => ChainInv /\ DepthIsCallChain
  <1> SUFFICES ASSUME Init PROVE ChainInv /\ DepthIsCallChain
    OBVIOUS
  <1>1. MainThread \notin Coroutine
    BY CallGraphAssumption
  <1>2. stacks[MainThread] = <<Unknown>> /\ \A c \in Coroutine : stacks[c] = <<>>
    BY <1>1 DEF Init, Thread
  <1>3. ChainInv
    BY <1>2 DEF ChainInv
  <1>4. DepthIsCallChain
    BY DEF Init, NothingRecorded, DepthIsCallChain
  <1>5. QED
    BY <1>3, <1>4

LEMMA NextChain ==
    CInv /\ ChainInv /\ DepthIsCallChain /\ [Next]_graph => ChainInv' /\ DepthIsCallChain'
  <1> SUFFICES ASSUME CInv, ChainInv, DepthIsCallChain, [Next]_graph
               PROVE  ChainInv' /\ DepthIsCallChain'
    OBVIOUS
  <1>1. ASSUME NEW f \in Frame, Call(f) PROVE ChainInv' /\ DepthIsCallChain'
    BY <1>1, CallChain
  <1>2. ASSUME NEW f \in Frame, TailCall(f) PROVE ChainInv' /\ DepthIsCallChain'
    BY <1>2, TailChain
  <1>3. ASSUME Return PROVE ChainInv' /\ DepthIsCallChain'
    BY <1>3, ReturnChain
  <1>4. ASSUME NEW c \in Coroutine, NEW f \in Frame, Create(c, f)
        PROVE  ChainInv' /\ DepthIsCallChain'
    BY <1>4, CreateChain
  <1>5. ASSUME StartApp PROVE ChainInv' /\ DepthIsCallChain'
    BY <1>5, StartChain
  <1>6. ASSUME NewProcess PROVE ChainInv' /\ DepthIsCallChain'
    <2>1. Init'
      BY <1>6 DEF NewProcess, Init, NothingRecorded, NoCallers
    <2>2. QED
      BY <2>1, InitChain, PTL
  <1>7. ASSUME UNCHANGED <<phase, stacks, depth>> PROVE ChainInv' /\ DepthIsCallChain'
    BY <1>7 DEF ChainInv, DepthIsCallChain, Roots
  <1>8. CASE UNCHANGED graph
    BY <1>7, <1>8 DEF graph, threads, metadata
  <1>9. QED
    BY <1>1, <1>2, <1>3, <1>4, <1>5, <1>6, <1>7, <1>8
    DEF Next, Step, Resume, Yield, DeveloperMode, threads, metadata

\* A function is shown at a level where a chain of calls of the program can reach
\* it, below main() in the app and below a test while tests run, whatever the
\* program, and however threads, tail calls and returns interleave.
THEOREM DepthsAreCallChains == Spec => []DepthIsCallChain
  <1>1. QED
    BY InitInv, NextInv, InitChain, NextChain, PTL DEF Spec

-----------------------------------------------------------------------------
(* One scan *)

Current(p, i) == \A j \in i + 1 .. Len(p) : p[j] # p[i]

Visited(p, names, f, n) ==
    IF n = 0 THEN <<>>
    ELSE IF p[n] \in names /\ Current(p, n) THEN <<p[n]>> \o f[n - 1]
    ELSE f[n - 1]

IsScan(p, names, m, f) == f = [n \in 0 .. m |-> Visited(p, names, f, n)]

IsDrawn(p, names, s) == \E f : IsScan(p, names, Len(p), f) /\ s = f[Len(p)]

LEMMA ScanExists ==
    ASSUME NEW p, NEW names, NEW m \in Nat
    PROVE  \E f : IsScan(p, names, m, f)
  <1> DEFINE T == {k \in Nat : ~ \E f : IsScan(p, names, k, f)}
  <1>1. SUFFICES ASSUME T # {} PROVE FALSE
    OBVIOUS
  <1>2. T \in SUBSET Nat
    OBVIOUS
  <1> HIDE DEF T
  <1>3. PICK k \in T : \A y \in T : k <= y
    BY <1>1, <1>2, LeastElement
  <1>4. k \in Nat /\ ~ \E f : IsScan(p, names, k, f)
    BY <1>3 DEF T
  <1>5. CASE k = 0
    <2>1. IsScan(p, names, 0, [n \in 0 .. 0 |-> <<>>])
      BY DEF IsScan, Visited
    <2>2. QED
      BY <1>4, <1>5, <2>1
  <1>6. CASE k # 0
    <2>1. k - 1 \in Nat /\ k - 1 \notin T
      <3>1. k - 1 \in Nat /\ ~ (k <= k - 1)
        BY <1>4, <1>6
      <3>2. QED
        BY <3>1, <1>3
    <2>2. PICK f : IsScan(p, names, k - 1, f)
      BY <2>1 DEF T
    <2> DEFINE g == [n \in 0 .. k |-> IF n = k THEN Visited(p, names, f, k) ELSE f[n]]
    <2>3. \A n \in 0 .. k - 1 : f[n] = Visited(p, names, f, n)
      BY <2>2 DEF IsScan
    <2>4. ASSUME NEW n \in 0 .. k
          PROVE  g[n] = Visited(p, names, g, n)
      <3>1. g[n] = Visited(p, names, f, n)
        BY <2>3, <1>4
      <3>2. CASE n = 0
        BY <3>1, <3>2 DEF Visited
      <3>3. CASE n # 0
        <4>1. g[n - 1] = f[n - 1]
          BY <3>3, <1>4
        <4> HIDE DEF g
        <4>2. QED
          BY <3>1, <3>3, <4>1 DEF Visited
      <3>4. QED
        BY <3>2, <3>3
    <2>5. IsScan(p, names, k, g)
      <3>1. g = [n \in 0 .. k |-> g[n]]
        OBVIOUS
      <3> HIDE DEF g
      <3>2. QED
        BY <3>1, <2>4 DEF IsScan
    <2>6. QED
      BY <2>5, <1>4
  <1>7. QED
    BY <1>5, <1>6

\* What a scan has drawn after its first n entries
ScanFact(p, names, f, n) ==
    /\ f[n] \in Seq(names)
    /\ \A k \in DOMAIN f[n] : \E i \in 1 .. n : p[i] = f[n][k] /\ Current(p, i)
    /\ \A i \in 1 .. n : p[i] \in names /\ Current(p, i) => \E k \in DOMAIN f[n] : f[n][k] = p[i]
    /\ \A k, l \in DOMAIN f[n] : f[n][k] = f[n][l] => k = l

LEMMA ScanStep ==
    ASSUME NEW p, NEW names, Len(p) \in Nat, NEW f, NEW n \in 1 .. Len(p),
           f[n] = Visited(p, names, f, n), ScanFact(p, names, f, n - 1)
    PROVE  ScanFact(p, names, f, n)
  <1> DEFINE s == f[n - 1]
             t == f[n]
  <1>1. s \in Seq(names) /\ Len(s) \in Nat /\ DOMAIN s = 1 .. Len(s)
    BY DEF ScanFact
  <1>2. CASE p[n] \in names /\ Current(p, n)
    <2>1. t = <<p[n]>> \o s
      BY <1>2 DEF Visited
    <2>2. /\ t \in Seq(names)
          /\ Len(t) = Len(s) + 1
          /\ t[1] = p[n]
          /\ \A k \in 2 .. Len(s) + 1 : t[k] = s[k - 1]
      <3> HIDE DEF s, t
      <3>1. <<p[n]>> \in Seq(names) /\ Len(<<p[n]>>) = 1
        BY <1>2
      <3>2. QED
        BY <1>1, <2>1, <3>1
    <2>3. DOMAIN t = 1 .. Len(s) + 1
      BY <2>2
    <2>4. ASSUME NEW k \in 2 .. Len(s) + 1
          PROVE  k - 1 \in DOMAIN s /\ t[k] = s[k - 1]
      <3> HIDE DEF s, t
      <3>1. QED
        BY <1>1, <2>2
    <2>5. ASSUME NEW k \in DOMAIN s PROVE k + 1 \in DOMAIN t /\ t[k + 1] = s[k]
      <3> HIDE DEF s, t
      <3>1. k \in 1 .. Len(s) /\ k + 1 \in 2 .. Len(s) + 1 /\ (k + 1) - 1 = k
        BY <1>1
      <3>2. QED
        BY <3>1, <2>2, <2>3
    <2> HIDE DEF s, t
    <2>6. \A k \in DOMAIN s : \E i \in 1 .. n - 1 : p[i] = s[k] /\ Current(p, i)
      BY DEF ScanFact, s
    <2>7. \A k \in DOMAIN s : s[k] # p[n]
      <3>1. ASSUME NEW k \in DOMAIN s, s[k] = p[n] PROVE FALSE
        <4>1. PICK i \in 1 .. n - 1 : p[i] = s[k] /\ Current(p, i)
          BY <2>6
        <4>2. n \in i + 1 .. Len(p)
          BY <4>1
        <4>3. QED
          BY <3>1, <4>1, <4>2 DEF Current
      <3>2. QED
        BY <3>1
    <2>8. \A k \in DOMAIN t : \E i \in 1 .. n : p[i] = t[k] /\ Current(p, i)
      <3>1. ASSUME NEW k \in DOMAIN t PROVE \E i \in 1 .. n : p[i] = t[k] /\ Current(p, i)
        <4>1. CASE k = 1
          BY <1>2, <2>2, <4>1
        <4>2. CASE k # 1
          <5>1. k \in 2 .. Len(s) + 1
            BY <1>1, <2>3, <3>1, <4>2
          <5>2. PICK i \in 1 .. n - 1 : p[i] = s[k - 1] /\ Current(p, i)
            BY <5>1, <2>4, <2>6
          <5>3. i \in 1 .. n
            OBVIOUS
          <5>4. QED
            BY <5>1, <5>2, <5>3, <2>4
        <4>3. QED
          BY <4>1, <4>2
      <3>2. QED
        BY <3>1
    <2>9. \A i \in 1 .. n : p[i] \in names /\ Current(p, i) => \E k \in DOMAIN t : t[k] = p[i]
      <3>1. ASSUME NEW i \in 1 .. n, p[i] \in names, Current(p, i)
            PROVE  \E k \in DOMAIN t : t[k] = p[i]
        <4>1. CASE i = n
          <5>1. 1 \in DOMAIN t
            BY <2>3, <1>1
          <5>2. QED
            BY <5>1, <2>2, <4>1
        <4>2. CASE i # n
          <5>1. i \in 1 .. n - 1
            BY <4>2
          <5>2. PICK k \in DOMAIN s : s[k] = p[i]
            BY <3>1, <5>1 DEF ScanFact, s
          <5>3. QED
            BY <5>2, <2>5
        <4>3. QED
          BY <4>1, <4>2
      <3>2. QED
        BY <3>1
    <2>10. \A k, l \in DOMAIN t : t[k] = t[l] => k = l
      <3>1. \A k, l \in DOMAIN s : s[k] = s[l] => k = l
        BY DEF ScanFact, s
      <3>2. ASSUME NEW k \in DOMAIN t, NEW l \in DOMAIN t, t[k] = t[l]
            PROVE  k = l
        <4>1. /\ k = 1 \/ k \in 2 .. Len(s) + 1
              /\ l = 1 \/ l \in 2 .. Len(s) + 1
          BY <1>1, <2>3
        <4>2. CASE k = 1 /\ l = 1
          BY <4>2
        <4>3. CASE k \in 2 .. Len(s) + 1 /\ l = 1
          BY <2>2, <2>4, <2>7, <3>2, <4>3
        <4>4. CASE k = 1 /\ l \in 2 .. Len(s) + 1
          BY <2>2, <2>4, <2>7, <3>2, <4>4
        <4>5. CASE k \in 2 .. Len(s) + 1 /\ l \in 2 .. Len(s) + 1
          <5>1. k - 1 \in DOMAIN s /\ l - 1 \in DOMAIN s /\ s[k - 1] = s[l - 1]
            BY <2>4, <3>2, <4>5
          <5>2. k - 1 = l - 1
            BY <5>1, <3>1
          <5>3. QED
            BY <5>2, <4>5
        <4>6. QED
          BY <4>1, <4>2, <4>3, <4>4, <4>5
      <3>3. QED
        BY <3>2
    <2>11. QED
      BY <2>2, <2>8, <2>9, <2>10 DEF ScanFact, t
  <1>3. CASE ~ (p[n] \in names /\ Current(p, n))
    <2>1. t = s
      BY <1>3 DEF Visited
    <2> HIDE DEF s, t
    <2>2. ScanFact(p, names, f, n - 1)
      OBVIOUS
    <2>3. \A k \in DOMAIN t : \E i \in 1 .. n : p[i] = t[k] /\ Current(p, i)
      <3>1. \A i \in 1 .. n - 1 : i \in 1 .. n
        OBVIOUS
      <3>2. QED
        BY <2>1, <2>2, <3>1 DEF ScanFact, s
    <2>4. \A i \in 1 .. n : p[i] \in names /\ Current(p, i) => \E k \in DOMAIN t : t[k] = p[i]
      <3>1. \A i \in 1 .. n : i # n => i \in 1 .. n - 1
        OBVIOUS
      <3>2. QED
        BY <1>3, <2>1, <2>2, <3>1 DEF ScanFact, s
    <2>5. t \in Seq(names) /\ \A k, l \in DOMAIN t : t[k] = t[l] => k = l
      BY <2>1, <2>2 DEF ScanFact, s
    <2>6. QED
      BY <2>3, <2>4, <2>5 DEF ScanFact, t
  <1>4. QED
    BY <1>2, <1>3

LEMMA ScanFacts ==
    ASSUME NEW p, NEW names, Len(p) \in Nat, NEW f, IsScan(p, names, Len(p), f)
    PROVE  \A n \in 0 .. Len(p) : ScanFact(p, names, f, n)
  <1> DEFINE T == {n \in 0 .. Len(p) : ~ ScanFact(p, names, f, n)}
  <1>1. SUFFICES ASSUME T # {} PROVE FALSE
    OBVIOUS
  <1>2. T \in SUBSET Nat
    OBVIOUS
  <1> HIDE DEF T
  <1>3. PICK k \in T : \A y \in T : k <= y
    BY <1>1, <1>2, LeastElement
  <1>4. k \in 0 .. Len(p) /\ ~ ScanFact(p, names, f, k)
    BY <1>3 DEF T
  <1>5. f[k] = Visited(p, names, f, k)
    BY <1>4 DEF IsScan
  <1>6. CASE k = 0
    <2>1. f[0] = <<>> /\ DOMAIN f[0] = {}
      BY <1>5, <1>6 DEF Visited
    <2>2. f[0] \in Seq(names)
      BY <2>1
    <2>3. QED
      BY <1>4, <1>6, <2>1, <2>2 DEF ScanFact
  <1>7. CASE k # 0
    <2>1. k \in 1 .. Len(p) /\ k - 1 \in 0 .. Len(p) /\ ~ (k <= k - 1)
      BY <1>4, <1>7
    <2>2. ScanFact(p, names, f, k - 1)
      BY <1>3, <2>1 DEF T
    <2>3. QED
      BY <1>4, <1>5, <2>1, <2>2, ScanStep
  <1>8. QED
    BY <1>6, <1>7

\* Two scans that look at the same entries draw the same.
LEMMA ScansAgree ==
    ASSUME NEW p, NEW q, NEW names, NEW m \in Nat,
           \A i \in 1 .. m : p[i] = q[i] /\ (p[i] \in names => (Current(p, i) <=> Current(q, i))),
           NEW f, IsScan(p, names, m, f), NEW g, NEW n \in Nat, m <= n, IsScan(q, names, n, g)
    PROVE  f[m] = g[m]
  <1> DEFINE T == {k \in 0 .. m : f[k] # g[k]}
  <1>1. SUFFICES ASSUME T # {} PROVE FALSE
    <2>1. m \in 0 .. m
      OBVIOUS
    <2>2. QED
      BY <2>1
  <1>2. T \in SUBSET Nat
    OBVIOUS
  <1> HIDE DEF T
  <1>3. PICK k \in T : \A y \in T : k <= y
    BY <1>1, <1>2, LeastElement
  <1>4. k \in 0 .. m /\ k \in 0 .. n /\ f[k] # g[k]
    BY <1>3 DEF T
  <1>5. f[k] = Visited(p, names, f, k) /\ g[k] = Visited(q, names, g, k)
    BY <1>4 DEF IsScan
  <1>6. CASE k = 0
    BY <1>4, <1>5, <1>6 DEF Visited
  <1>7. CASE k # 0
    <2>1. k \in 1 .. m /\ k - 1 \in 0 .. m /\ ~ (k <= k - 1)
      BY <1>4, <1>7
    <2>2. f[k - 1] = g[k - 1]
      BY <1>3, <2>1 DEF T
    <2>3. p[k] = q[k] /\ (p[k] \in names => (Current(p, k) <=> Current(q, k)))
      BY <2>1
    <2>4. CASE p[k] \in names /\ Current(p, k)
      <3>1. f[k] = <<p[k]>> \o f[k - 1] /\ g[k] = <<q[k]>> \o g[k - 1]
        BY <1>5, <1>7, <2>3, <2>4 DEF Visited
      <3>2. QED
        BY <1>4, <2>2, <2>3, <3>1
    <2>5. CASE ~ (p[k] \in names /\ Current(p, k))
      <3>1. f[k] = f[k - 1] /\ g[k] = g[k - 1]
        BY <1>5, <1>7, <2>3, <2>5 DEF Visited
      <3>2. QED
        BY <1>4, <2>2, <3>1
    <2>6. QED
      BY <2>4, <2>5
  <1>8. QED
    BY <1>6, <1>7

LEMMA DrawnUnique ==
    ASSUME NEW p, NEW names, Len(p) \in Nat,
           NEW s, IsDrawn(p, names, s), NEW t, IsDrawn(p, names, t)
    PROVE  s = t
  <1>1. PICK f : IsScan(p, names, Len(p), f) /\ s = f[Len(p)]
    BY DEF IsDrawn
  <1>2. PICK g : IsScan(p, names, Len(p), g) /\ t = g[Len(p)]
    BY DEF IsDrawn
  <1>3. f[Len(p)] = g[Len(p)]
    BY <1>1, <1>2, ScansAgree
  <1>4. QED
    BY <1>1, <1>2, <1>3

\* An entry that undoes has no name, and changes nothing that is drawn.
LEMMA DrawnAfterUndo ==
    ASSUME NEW S, NEW p \in Seq(S \cup {Undo}), NEW names, Undo \notin names,
           NEW s, IsDrawn(p, names, s), NEW t, IsDrawn(Append(p, Undo), names, t)
    PROVE  s = t
  <1> DEFINE q == Append(p, Undo)
             m == Len(p)
  <1>1. PICK f : IsScan(p, names, m, f) /\ s = f[m]
    BY DEF IsDrawn
  <1>2. PICK g : IsScan(q, names, Len(q), g) /\ t = g[Len(q)]
    BY DEF IsDrawn
  <1>3. m \in Nat /\ Len(q) = m + 1 /\ q[m + 1] = Undo /\ \A i \in 1 .. m : q[i] = p[i]
    OBVIOUS
  <1> HIDE DEF q, m
  <1>4. ASSUME NEW i \in 1 .. m, p[i] \in names
        PROVE  Current(p, i) <=> Current(q, i)
    <2>1. p[i] # Undo
      BY <1>4
    <2>2. \A j \in i + 1 .. m + 1 : j = m + 1 \/ j \in i + 1 .. m
      BY <1>3
    <2>3. \A j \in i + 1 .. m : j \in i + 1 .. m + 1 /\ j \in 1 .. m
      BY <1>3
    <2>4. Len(p) = m
      BY DEF m
    <2>5. QED
      BY <1>3, <2>1, <2>2, <2>3, <2>4 DEF Current
  <1>5. f[m] = g[m]
    <2>1. \A i \in 1 .. m : p[i] = q[i] /\ (p[i] \in names => (Current(p, i) <=> Current(q, i)))
      BY <1>3, <1>4
    <2>2. m + 1 \in Nat /\ m <= m + 1 /\ IsScan(q, names, m + 1, g)
      BY <1>2, <1>3
    <2>3. QED
      BY <1>1, <1>3, <2>1, <2>2, ScansAgree
  <1>6. g[m + 1] = g[m]
    <2>1. m + 1 \in 0 .. m + 1 /\ m + 1 # 0 /\ m + 1 - 1 = m
      BY <1>3
    <2>2. g[m + 1] = Visited(q, names, g, m + 1)
      BY <1>2, <1>3, <2>1 DEF IsScan
    <2>3. QED
      BY <1>3, <2>1, <2>2 DEF Visited
  <1>7. QED
    BY <1>1, <1>2, <1>3, <1>5, <1>6

\* What is drawn: each of the names that the history has, once
Lists(p, names, s) ==
    /\ s \in Seq(names)
    /\ \A i \in DOMAIN p : p[i] \in names => \E k \in DOMAIN s : s[k] = p[i]
    /\ \A k, l \in DOMAIN s : s[k] = s[l] => k = l

LEMMA LastOne ==
    ASSUME NEW S, NEW p \in Seq(S), NEW i \in DOMAIN p
    PROVE  \E j \in 1 .. Len(p) : p[j] = p[i] /\ Current(p, j)
  <1> DEFINE m == Len(p)
             T == {k \in 0 .. m : m - k \in 1 .. m /\ p[m - k] = p[i]}
  <1>1. m \in Nat /\ i \in 1 .. m
    OBVIOUS
  <1> HIDE DEF m
  <1>2. m - i \in T
    BY <1>1, m - (m - i) = i
  <1>3. T \in SUBSET Nat
    BY <1>1
  <1> HIDE DEF T
  <1>4. PICK k \in T : \A y \in T : k <= y
    BY <1>2, <1>3, LeastElement
  <1>5. k \in 0 .. m /\ m - k \in 1 .. m /\ p[m - k] = p[i]
    BY <1>4 DEF T
  <1>6. ASSUME NEW j \in m - k + 1 .. m PROVE p[j] # p[m - k]
    <2>1. SUFFICES ASSUME p[j] = p[i] PROVE FALSE
      BY <1>5
    <2>2. j \in 1 .. m /\ m - j \in 0 .. m /\ m - (m - j) = j /\ ~ (k <= m - j)
      BY <1>1, <1>5
    <2>3. m - j \in T
      BY <2>1, <2>2 DEF T
    <2>4. QED
      BY <1>4, <2>2, <2>3
  <1>7. QED
    BY <1>5, <1>6 DEF Current, m

LEMMA DrawnLists ==
    ASSUME NEW S, NEW p \in Seq(S), NEW names, NEW s, IsDrawn(p, names, s)
    PROVE  Lists(p, names, s)
  <1>1. Len(p) \in Nat /\ Len(p) \in 0 .. Len(p)
    OBVIOUS
  <1>2. PICK f : IsScan(p, names, Len(p), f) /\ s = f[Len(p)]
    BY DEF IsDrawn
  <1>3. ScanFact(p, names, f, Len(p))
    BY <1>1, <1>2, ScanFacts
  <1>4. ASSUME NEW i \in DOMAIN p, p[i] \in names
        PROVE  \E k \in DOMAIN s : s[k] = p[i]
    <2>1. PICK j \in 1 .. Len(p) : p[j] = p[i] /\ Current(p, j)
      BY LastOne
    <2>2. QED
      BY <1>2, <1>3, <1>4, <2>1 DEF ScanFact
  <1>5. QED
    BY <1>2, <1>3, <1>4 DEF ScanFact, Lists

-----------------------------------------------------------------------------
(* The levels *)

DataOf(k) == {n \in Name \ (Doc \cup {Menu}) : k[n] = "data"}
MenuOf(k) == {n \in Name \ Doc : n = Menu \/ k[n] = "userdata"}
CalledOf(d, l) == {f \in Func : d[f] = l}
UnusedOf(k, d) == {n \in Name : k[n] = "function" /\ n \notin {f \in Func : d[f] # 0}}

Drew(p, d, l) == \E i \in DOMAIN p : p[i] \in CalledOf(d, l)

IsMaxLevel(p, d, m) ==
    /\ m \in 2 .. MaxDepth + 2
    /\ ~ Drew(p, d, m)
    /\ \A l \in 2 .. m - 1 : Drew(p, d, l)

\* The names of a level; data and userdata are two scans.
NamesAt(k, d, m, l) ==
    IF l = 0 THEN DataOf(k) \cup MenuOf(k)
    ELSE IF l = 1 THEN Doc
    ELSE IF l < m THEN CalledOf(d, l)
    ELSE UnusedOf(k, d)

IsLevel(p, k, d, m, l, s) ==
    IF l = 0 THEN \E a, b : IsDrawn(p, DataOf(k), a) /\ IsDrawn(p, MenuOf(k), b) /\ s = a \o b
    ELSE IsDrawn(p, NamesAt(k, d, m, l), s)

Types ==
    /\ program \in Seq(Name \cup {Undo})
    /\ kind \in [Name -> Kind]
    /\ depth \in [Func -> 0 .. MaxDepth + 1]

LEMMA Constants ==
    /\ MaxDepth \in Nat /\ MaxDepth >= 2
    /\ Undo \notin Name
    /\ Func \subseteq Name /\ Doc \subseteq Name /\ Menu \in Name
    /\ Menu \notin Doc
  BY BigPictureAssumption, CallGraphAssumption

LEMMA DrawnIs == Types => \A names : IsDrawn(program, names, Drawn(names))
  <1> SUFFICES ASSUME Types, NEW names
               PROVE  IsDrawn(program, names, Drawn(names))
    OBVIOUS
  <1> DEFINE g == CHOOSE f : f = [n \in 0 .. Len(program) |->
                     IF n = 0 THEN <<>>
                     ELSE IF program[n] \in names /\ IsCurrentDefinition(n)
                          THEN <<program[n]>> \o f[n - 1]
                     ELSE f[n - 1]]
  <1>1. Len(program) \in Nat
    BY DEF Types
  <1>2. PICK f : IsScan(program, names, Len(program), f)
    BY <1>1, ScanExists
  <1>3. \A i : Current(program, i) = IsCurrentDefinition(i)
    BY DEF Current, IsCurrentDefinition
  <1>4. f = [n \in 0 .. Len(program) |->
               IF n = 0 THEN <<>>
               ELSE IF program[n] \in names /\ IsCurrentDefinition(n)
                    THEN <<program[n]>> \o f[n - 1]
               ELSE f[n - 1]]
    BY <1>2, <1>3 DEF IsScan, Visited
  <1>5. g = [n \in 0 .. Len(program) |->
               IF n = 0 THEN <<>>
               ELSE IF program[n] \in names /\ IsCurrentDefinition(n)
                    THEN <<program[n]>> \o g[n - 1]
               ELSE g[n - 1]]
    BY <1>4
  <1>6. Drawn(names) = g[Len(program)]
    BY DEF Drawn
  <1> HIDE DEF g
  <1>7. IsScan(program, names, Len(program), g)
    BY <1>3, <1>5 DEF IsScan, Visited
  <1>8. QED
    BY <1>6, <1>7 DEF IsDrawn

\* The loop over the depths ends, as no function is called below MaxDepth + 1.
LEMMA MaxLevelIs == Types => IsMaxLevel(program, depth, max_level)
  <1> SUFFICES ASSUME Types PROVE IsMaxLevel(program, depth, max_level)
    OBVIOUS
  <1> DEFINE T == {l \in 2 .. MaxDepth + 2 : ~ Drew(program, depth, l)}
  <1>1. T \in SUBSET Nat
    BY Constants
  <1>2. MaxDepth + 2 \in T
    <2>1. MaxDepth + 2 \in 2 .. MaxDepth + 2 /\ MaxDepth + 2 \notin 0 .. MaxDepth + 1
      BY Constants
    <2>2. CalledOf(depth, MaxDepth + 2) = {}
      BY <2>1 DEF Types, CalledOf
    <2>3. QED
      BY <2>1, <2>2 DEF Drew
  <1> HIDE DEF T
  <1>3. PICK m \in T : \A y \in T : m <= y
    BY <1>1, <1>2, LeastElement
  <1>4. m \in 2 .. MaxDepth + 2 /\ ~ Drew(program, depth, m)
    BY <1>3 DEF T
  <1>5. ASSUME NEW l \in 2 .. m - 1 PROVE Drew(program, depth, l)
    <2>1. l \in 2 .. MaxDepth + 2 /\ ~ (m <= l)
      BY <1>4, Constants
    <2>2. QED
      BY <1>3, <2>1 DEF T
  <1>6. \A l : drew_anything(l) <=> Drew(program, depth, l)
    BY DEF drew_anything, Drew, CalledAt, CalledOf
  <1>7. \E l \in 2 .. MaxDepth + 2 :
           ~ drew_anything(l) /\ \A d \in 2 .. l - 1 : drew_anything(d)
    BY <1>4, <1>5, <1>6
  <1>8. /\ max_level \in 2 .. MaxDepth + 2
        /\ ~ drew_anything(max_level) /\ \A d \in 2 .. max_level - 1 : drew_anything(d)
    BY <1>7 DEF max_level
  <1>9. QED
    BY <1>6, <1>8 DEF IsMaxLevel

LEMMA LevelsAre ==
    Types => \A l \in 0 .. max_level : IsLevel(program, kind, depth, max_level, l, Level(l))
  <1> SUFFICES ASSUME Types, NEW l \in 0 .. max_level
               PROVE  IsLevel(program, kind, depth, max_level, l, Level(l))
    OBVIOUS
  <1>1. max_level \in 2 .. MaxDepth + 2
    BY MaxLevelIs DEF IsMaxLevel
  <1> DEFINE top == max_level
  <1>2. /\ l = 0 => Level(l) = Drawn(Data) \o Drawn(MenuAndUserdata)
        /\ l = 1 => Level(l) = Drawn(Doc)
        /\ l > 1 /\ l < top => Level(l) = Drawn(CalledAt(l))
        /\ l > 1 /\ l = top => Level(l) = Drawn(Unused)
    BY <1>1 DEF Level
  <1>3. /\ Data = DataOf(kind) /\ MenuAndUserdata = MenuOf(kind)
        /\ CalledAt(l) = CalledOf(depth, l) /\ Unused = UnusedOf(kind, depth)
    BY DEF Data, DataOf, MenuAndUserdata, MenuOf, CalledAt, CalledOf, Unused, UnusedOf
  <1>4. l = 0 \/ l = 1 \/ (l > 1 /\ l < top) \/ (l > 1 /\ l = top)
    <2> HIDE DEF top
    <2>1. top \in Int /\ l \in 0 .. top
      BY <1>1, Constants DEF top
    <2>2. QED
      BY <2>1
  <1> HIDE DEF top
  <1>5. l \in Int /\ top \in Int
    BY <1>1, Constants DEF top
  <1>6. \A names : IsDrawn(program, names, Drawn(names))
    BY DrawnIs
  <1>7. CASE l = 0
    <2>1. IsDrawn(program, DataOf(kind), Drawn(DataOf(kind))) /\ IsDrawn(program, MenuOf(kind), Drawn(MenuOf(kind)))
      BY <1>6
    <2>2. QED
      BY <1>2, <1>3, <1>7, <2>1 DEF IsLevel
  <1>8. CASE l = 1
    BY <1>2, <1>6, <1>8 DEF IsLevel, NamesAt
  <1>9. CASE l > 1 /\ l < top
    <2>1. l # 0 /\ l # 1
      BY <1>5, <1>9
    <2>2. IsDrawn(program, CalledOf(depth, l), Level(l))
      BY <1>2, <1>3, <1>6, <1>9
    <2>3. QED
      BY <1>9, <2>1, <2>2 DEF IsLevel, NamesAt, top
  <1>10. CASE l > 1 /\ l = top
    <2>1. l # 0 /\ l # 1 /\ ~ (l < top)
      BY <1>5, <1>10
    <2>2. IsDrawn(program, UnusedOf(kind, depth), Level(l))
      BY <1>2, <1>3, <1>6, <1>10
    <2>3. QED
      BY <2>1, <2>2 DEF IsLevel, NamesAt, top
  <1>11. QED
    BY <1>4, <1>7, <1>8, <1>9, <1>10

LEMMA NamesOfLevels ==
    ASSUME NEW k, NEW d, NEW m, NEW l
    PROVE  /\ NamesAt(k, d, m, l) \subseteq Name
           /\ DataOf(k) \subseteq Name /\ MenuOf(k) \subseteq Name
           /\ DataOf(k) \cap MenuOf(k) = {}
           /\ Undo \notin NamesAt(k, d, m, l) /\ Undo \notin DataOf(k) /\ Undo \notin MenuOf(k)
  <1>1. /\ DataOf(k) \subseteq Name /\ MenuOf(k) \subseteq Name
        /\ UnusedOf(k, d) \subseteq Name /\ CalledOf(d, l) \subseteq Name
    BY Constants DEF DataOf, MenuOf, UnusedOf, CalledOf
  <1>2. NamesAt(k, d, m, l) \subseteq Name
    BY <1>1, Constants DEF NamesAt
  <1>3. DataOf(k) \cap MenuOf(k) = {}
    BY DEF DataOf, MenuOf
  <1>4. QED
    BY <1>1, <1>2, <1>3, Constants

LEMMA ListsConcat ==
    ASSUME NEW S, NEW p \in Seq(S), NEW A, NEW B, A \cap B = {},
           NEW a, Lists(p, A, a), NEW b, Lists(p, B, b)
    PROVE  Lists(p, A \cup B, a \o b)
  <1> DEFINE s == a \o b
             m == Len(a)
             n == Len(b)
  <1>1. /\ a \in Seq(A) /\ b \in Seq(B) /\ a \in Seq(A \cup B) /\ b \in Seq(A \cup B)
        /\ m \in Nat /\ n \in Nat
    BY DEF Lists
  <1>2. /\ s \in Seq(A \cup B) /\ Len(s) = m + n
        /\ \A i \in 1 .. m : s[i] = a[i]
        /\ \A i \in m + 1 .. m + n : s[i] = b[i - m]
    BY <1>1
  <1>3. DOMAIN s = 1 .. m + n /\ DOMAIN a = 1 .. m /\ DOMAIN b = 1 .. n
    BY <1>1, <1>2
  <1>4. /\ \A i \in 1 .. m : a[i] \in A
        /\ \A i \in 1 .. n : b[i] \in B
    BY <1>1, ElementOfSeq
  <1>5. /\ \A i, j \in DOMAIN a : a[i] = a[j] => i = j
        /\ \A i, j \in DOMAIN b : b[i] = b[j] => i = j
        /\ \A i \in DOMAIN p : p[i] \in A => \E k \in DOMAIN a : a[k] = p[i]
        /\ \A i \in DOMAIN p : p[i] \in B => \E k \in DOMAIN b : b[k] = p[i]
    BY DEF Lists
  <1> HIDE DEF s, m, n
  <1>6. \A i \in m + 1 .. m + n : i - m \in 1 .. n
    BY <1>1
  <1>7. ASSUME NEW i \in 1 .. m + n
        PROVE  i \in 1 .. m \/ i \in m + 1 .. m + n
    BY <1>1
  <1>8. ASSUME NEW i \in DOMAIN s, NEW j \in DOMAIN s, s[i] = s[j]
        PROVE  i = j
    <2>1. CASE i \in 1 .. m /\ j \in 1 .. m
      BY <1>2, <1>3, <1>5, <1>8, <2>1
    <2>2. CASE i \in 1 .. m /\ j \in m + 1 .. m + n
      <3>1. s[i] \in A /\ s[j] \in B
        BY <1>2, <1>4, <1>6, <2>2
      <3>2. QED
        BY <3>1, <1>8
    <2>3. CASE i \in m + 1 .. m + n /\ j \in 1 .. m
      <3>1. s[i] \in B /\ s[j] \in A
        BY <1>2, <1>4, <1>6, <2>3
      <3>2. QED
        BY <3>1, <1>8
    <2>4. CASE i \in m + 1 .. m + n /\ j \in m + 1 .. m + n
      <3>1. i - m = j - m
        BY <1>2, <1>3, <1>5, <1>6, <1>8, <2>4
      <3>2. QED
        BY <1>1, <2>4, <3>1
    <2>5. QED
      BY <1>3, <1>7, <2>1, <2>2, <2>3, <2>4
  <1>9. ASSUME NEW i \in DOMAIN p, p[i] \in A \cup B
        PROVE  \E k \in DOMAIN s : s[k] = p[i]
    <2>1. CASE p[i] \in A
      <3>1. PICK k \in DOMAIN a : a[k] = p[i]
        BY <1>5, <2>1
      <3>2. k \in 1 .. m /\ k \in 1 .. m + n
        BY <1>1, <1>3
      <3>3. QED
        BY <1>2, <1>3, <3>1, <3>2
    <2>2. CASE p[i] \in B
      <3>1. PICK k \in 1 .. n : b[k] = p[i]
        BY <1>3, <1>5, <2>2
      <3>2. k + m \in m + 1 .. m + n /\ k + m \in 1 .. m + n /\ k + m - m = k
        BY <1>1
      <3>3. s[k + m] = b[k + m - m]
        BY <1>1, <1>2, <3>2
      <3>4. QED
        BY <1>3, <3>1, <3>2, <3>3
    <2>3. QED
      BY <1>9, <2>1, <2>2
  <1>10. QED
    BY <1>2, <1>8, <1>9 DEF Lists, s

\* A level lists its names.
LEMMA LevelLists ==
    ASSUME NEW S, NEW p \in Seq(S), NEW k, NEW d, NEW m, NEW l, NEW s, IsLevel(p, k, d, m, l, s)
    PROVE  Lists(p, NamesAt(k, d, m, l), s) /\ s \in Seq(Name) /\ Len(s) \in Nat
  <1>1. Lists(p, NamesAt(k, d, m, l), s)
    <2>1. CASE l = 0
      <3>1. PICK a, b : IsDrawn(p, DataOf(k), a) /\ IsDrawn(p, MenuOf(k), b) /\ s = a \o b
        BY <2>1 DEF IsLevel
      <3>2. Lists(p, DataOf(k), a) /\ Lists(p, MenuOf(k), b)
        BY <3>1, DrawnLists
      <3>3. Lists(p, DataOf(k) \cup MenuOf(k), s)
        BY <3>1, <3>2, NamesOfLevels, ListsConcat
      <3>4. QED
        BY <2>1, <3>3 DEF NamesAt
    <2>2. CASE l # 0
      BY <2>2, DrawnLists DEF IsLevel
    <2>3. QED
      BY <2>1, <2>2
  <1>2. s \in Seq(Name)
    BY <1>1, NamesOfLevels DEF Lists
  <1>3. QED
    BY <1>1, <1>2

\* It is the same while nothing but undos is added to the history.
LEMMA LevelStays ==
    ASSUME NEW p \in Seq(Name \cup {Undo}), NEW q, q = p \/ q = Append(p, Undo),
           NEW k, NEW d, NEW m, NEW l,
           NEW s, IsLevel(p, k, d, m, l, s), NEW t, IsLevel(q, k, d, m, l, t)
    PROVE  s = t
  <1>1. ASSUME NEW names, Undo \notin names,
               NEW a, IsDrawn(p, names, a), NEW b, IsDrawn(q, names, b)
        PROVE  a = b
    <2>1. Len(p) \in Nat
      OBVIOUS
    <2>2. CASE q = p
      BY <1>1, <2>1, <2>2, DrawnUnique
    <2>3. CASE q = Append(p, Undo)
      BY <1>1, <2>3, DrawnAfterUndo
    <2>4. QED
      BY <2>2, <2>3
  <1>2. CASE l = 0
    <2>1. PICK a, b : IsDrawn(p, DataOf(k), a) /\ IsDrawn(p, MenuOf(k), b) /\ s = a \o b
      BY <1>2 DEF IsLevel
    <2>2. PICK e, f : IsDrawn(q, DataOf(k), e) /\ IsDrawn(q, MenuOf(k), f) /\ t = e \o f
      BY <1>2 DEF IsLevel
    <2>3. a = e /\ b = f
      BY <1>1, <2>1, <2>2, NamesOfLevels
    <2>4. QED
      BY <2>1, <2>2, <2>3
  <1>3. CASE l # 0
    BY <1>1, <1>3, NamesOfLevels DEF IsLevel
  <1>4. QED
    BY <1>2, <1>3

AllThere(p) == \A f \in Func : \E i \in DOMAIN p : p[i] = f

\* With every function in the history, the last level depends on the calls only.
LEMMA MaxLevelStays ==
    ASSUME NEW p, AllThere(p), NEW q, AllThere(q), NEW d,
           NEW m, IsMaxLevel(p, d, m), NEW n, IsMaxLevel(q, d, n)
    PROVE  m = n
  <1>1. \A l : Drew(p, d, l) <=> Drew(q, d, l)
    <2>1. \A l : Drew(p, d, l) <=> CalledOf(d, l) # {}
      BY DEF Drew, CalledOf, AllThere
    <2>2. \A l : Drew(q, d, l) <=> CalledOf(d, l) # {}
      BY DEF Drew, CalledOf, AllThere
    <2>3. QED
      BY <2>1, <2>2
  <1>2. m \in 2 .. MaxDepth + 2 /\ n \in 2 .. MaxDepth + 2
    BY DEF IsMaxLevel
  <1>3. ~ (m < n)
    <2>1. m < n => m \in 2 .. n - 1
      BY <1>2, Constants
    <2>2. QED
      BY <1>1, <2>1 DEF IsMaxLevel
  <1>4. ~ (n < m)
    <2>1. n < m => n \in 2 .. m - 1
      BY <1>2, Constants
    <2>2. QED
      BY <1>1, <2>1 DEF IsMaxLevel
  <1>5. QED
    BY <1>2, <1>3, <1>4, Constants

-----------------------------------------------------------------------------
(* The highlight *)

DataTypes ==
    /\ program \in Seq(Name \cup {Undo})
    /\ kind \in [Name -> Kind]
    /\ highlight_index \in Nat
    /\ edits \in Nat

\* The app does not run while the big picture is shown.
Frozen == shown => developer /\ highlight_level \in 0 .. max_level

BInv == DataTypes /\ AllThere(program) /\ Frozen

LEMMA HasTypes == DataTypes /\ TypeOK => Types
  BY DEF DataTypes, Types, TypeOK

\* The level with the highlight
LEMMA LevelHere ==
    Types /\ highlight_level \in 0 .. max_level =>
        IsLevel(program, kind, depth, max_level, highlight_level, Level(highlight_level))
  BY LevelsAre

LEMMA LevelSize ==
    ASSUME Types, NEW l \in 0 .. max_level
    PROVE  level_size(l) \in Nat
  BY LevelsAre, LevelLists DEF level_size, Types

\* A draw that finds the index in the level finds the highlight.
LEMMA DrawFinds ==
    ASSUME Draw, NEW s, s = Level(highlight_level)', Len(s) > 0 => highlight_index' < Len(s)
    PROVE  OnHighlight'
  BY DEF Draw, OnHighlight, level_size

LEMMA ClampFits ==
    ASSUME NEW i \in Nat, NEW l, level_size(l) \in Nat
    PROVE  /\ Clamped(i, l) \in Nat
           /\ level_size(l) > 0 => Clamped(i, l) < level_size(l)
  BY DEF Clamped

\* Keys that change neither the history nor what the names are
Same == UNCHANGED <<program, kind, depth>>

LEMMA SameMaxLevel ==
    ASSUME Types, Types', AllThere(program), AllThere(program'), UNCHANGED depth
    PROVE  max_level' = max_level /\ max_level \in 2 .. MaxDepth + 2
  <1>1. IsMaxLevel(program, depth, max_level)
    BY MaxLevelIs
  <1>2. IsMaxLevel(program', depth', max_level')
    <2>1. (Types => IsMaxLevel(program, depth, max_level))'
      BY MaxLevelIs, PTL
    <2>2. QED
      BY <2>1
  <1>3. QED
    BY <1>1, <1>2, MaxLevelStays DEF IsMaxLevel

LEMMA SameLevel ==
    ASSUME Types, Types', AllThere(program), AllThere(program'),
           program' = program \/ program' = Append(program, Undo), UNCHANGED <<kind, depth>>,
           highlight_level' \in 0 .. max_level
    PROVE  Level(highlight_level)' = Level(highlight_level')
  <1>1. max_level' = max_level
    BY SameMaxLevel
  <1>2. IsLevel(program, kind, depth, max_level, highlight_level', Level(highlight_level'))
    BY LevelsAre
  <1>3. IsLevel(program', kind', depth', max_level', highlight_level', Level(highlight_level)')
    <2>1. (Types /\ highlight_level \in 0 .. max_level =>
              IsLevel(program, kind, depth, max_level, highlight_level, Level(highlight_level)))'
      BY LevelHere, PTL
    <2>2. QED
      BY <1>1, <2>1
  <1>4. program \in Seq(Name \cup {Undo})
    BY DEF Types
  <1>5. QED
    BY <1>1, <1>2, <1>3, <1>4, LevelStays

LEMMA StayTyped ==
    ASSUME Types, Same
    PROVE  Types'
  BY DEF Types, Same

\* What the arrow keys have in common
LEMMA ArrowFinds ==
    ASSUME Types, AllThere(program), Same, Draw, highlight_level' \in 0 .. max_level,
           level_size(highlight_level') > 0 => highlight_index' < level_size(highlight_level')
    PROVE  OnHighlight'
  <1>1. Types' /\ AllThere(program') /\ program' = program /\ UNCHANGED <<kind, depth>>
    BY StayTyped DEF Same
  <1>2. Level(highlight_level)' = Level(highlight_level')
    BY <1>1, SameLevel
  <1>3. QED
    BY <1>2, DrawFinds DEF level_size

LEMMA HereSize ==
    ASSUME Types
    PROVE  /\ max_level \in Int /\ max_level >= 2
           /\ \A l \in 0 .. max_level : level_size(l) \in Nat
  <1>1. max_level \in 2 .. MaxDepth + 2
    BY MaxLevelIs DEF IsMaxLevel
  <1>2. QED
    BY <1>1, Constants, LevelSize

LEMMA RightFinds ==
    ASSUME BInv, TypeOK, KeyRight
    PROVE  OnHighlight' /\ highlight_index' \in Nat /\ highlight_level' \in 0 .. max_level
  <1>1. Types /\ AllThere(program) /\ Same /\ Draw /\ highlight_level' \in 0 .. max_level
        /\ highlight_index \in Nat /\ highlight_level' = highlight_level
    BY HasTypes DEF BInv, DataTypes, Frozen, KeyRight, Same, graph, threads, metadata
  <1>2. highlight_index' = Clamped(highlight_index + 1, highlight_level)
    BY DEF KeyRight
  <1>3. level_size(highlight_level) \in Nat
    BY <1>1, HereSize
  <1>4. /\ highlight_index' \in Nat
        /\ level_size(highlight_level) > 0 => highlight_index' < level_size(highlight_level)
    <2>1. highlight_index + 1 \in Nat
      BY <1>1
    <2>2. QED
      BY <1>2, <1>3, <2>1, ClampFits
  <1>5. level_size(highlight_level') > 0 => highlight_index' < level_size(highlight_level')
    BY <1>1, <1>4
  <1>6. QED
    BY <1>1, <1>4, <1>5, ArrowFinds

LEMMA UpDownFinds ==
    ASSUME BInv, TypeOK, KeyUp \/ KeyDown
    PROVE  OnHighlight' /\ highlight_index' \in Nat /\ highlight_level' \in 0 .. max_level
  <1>1. Types /\ AllThere(program) /\ Same /\ Draw /\ highlight_index \in Nat
    BY HasTypes DEF BInv, DataTypes, KeyUp, KeyDown, Same, graph, threads, metadata
  <1>2. highlight_level' \in 0 .. max_level
    <2>1. highlight_level \in 0 .. max_level /\ max_level \in Int /\ max_level >= 2
      BY <1>1, HereSize DEF BInv, Frozen, KeyUp, KeyDown
    <2>2. \/ highlight_level' = IF highlight_level = 0 THEN 0 ELSE highlight_level - 1
          \/ highlight_level' = IF highlight_level = max_level THEN max_level ELSE highlight_level + 1
      BY DEF KeyUp, KeyDown
    <2>3. QED
      BY <2>1, <2>2
  <1>3. highlight_index' = Clamped(highlight_index, highlight_level')
    BY DEF KeyUp, KeyDown
  <1>4. level_size(highlight_level') \in Nat
    BY <1>1, <1>2, HereSize
  <1>5. /\ highlight_index' \in Nat
        /\ level_size(highlight_level') > 0 => highlight_index' < level_size(highlight_level')
    BY <1>1, <1>3, <1>4, ClampFits
  <1>6. QED
    BY <1>1, <1>2, <1>5, ArrowFinds

LEMMA KeysAre ==
    ASSUME KeyLeft \/ KeyRight \/ KeyUp \/ KeyDown
    PROVE  shown /\ UNCHANGED <<graph, program, kind, shown, edits>>
  BY DEF KeyLeft, KeyRight, KeyUp, KeyDown

-----------------------------------------------------------------------------
(* The invariant *)

LEMMA GraphHolds == ViewSpec => [](TypeOK /\ LevelsFollowCalls)
  <1>1. [ViewNext]_vars => [Next]_graph
    <2>1. [ViewNext]_vars => Step \/ NewProcess \/ UNCHANGED graph
      BY DEF ViewNext, vars, RunApp, Assign, EnterBigPicture, KeyLeft, KeyRight, KeyUp, KeyDown,
             EditDefinition, RecentChanges, Leave
    <2>2. QED
      BY <2>1 DEF Next
  <1>2. ViewInit => Init
    BY DEF ViewInit
  <1>3. ViewSpec => Spec
    BY <1>1, <1>2, PTL DEF ViewSpec, Spec
  <1>4. QED
    BY <1>3, CallGraphTyped, LevelsFilled, PTL

LEMMA BInit == ViewInit => BInv /\ HighlightInLevel
  <1> SUFFICES ASSUME ViewInit PROVE BInv /\ HighlightInLevel
    OBVIOUS
  <1>1. PICK im \in Images : program = im.program /\ kind = im.kind
    BY DEF ViewInit
  <1>2. shown = FALSE /\ highlight_index = 0 /\ edits = 0
    BY DEF ViewInit
  <1>3. DataTypes
    BY <1>1, <1>2, BigPictureAssumption DEF DataTypes
  <1>4. AllThere(program)
    BY <1>1, BigPictureAssumption DEF AllThere
  <1>6. Frozen /\ HighlightInLevel
    BY <1>2 DEF Frozen, HighlightInLevel
  <1>7. QED
    BY <1>3, <1>4, <1>6 DEF BInv

\* The app steps only outside developer mode.
LEMMA AppOutside ==
    ASSUME BInv, RunApp \/ \E n \in Name, k \in Kind : Assign(n, k)
    PROVE  ~ shown /\ ~ shown' /\ UNCHANGED <<program, view>>
  <1>1. ~ developer
    BY DEF RunApp, Assign, Step, Call, TailCall, Return, Resume,
           Yield, Create, StartApp, DeveloperMode
  <1>2. ~ shown
    BY <1>1 DEF BInv, Frozen
  <1>3. UNCHANGED <<program, view>>
    BY DEF RunApp, Assign
  <1>4. QED
    BY <1>2, <1>3 DEF view

LEMMA AppInv ==
    ASSUME BInv, RunApp \/ \E n \in Name, k \in Kind : Assign(n, k)
    PROVE  BInv' /\ HighlightInLevel'
  <1>1. ~ shown' /\ UNCHANGED <<program, highlight_index, edits>>
    BY AppOutside DEF view
  <1>2. kind' \in [Name -> Kind]
    BY DEF RunApp, Assign, BInv, DataTypes
  <1>3. QED
    BY <1>1, <1>2 DEF BInv, DataTypes, AllThere, Frozen, HighlightInLevel

LEMMA AppendThere ==
    ASSUME NEW S, NEW p \in Seq(S), NEW x, AllThere(p)
    PROVE  AllThere(Append(p, x))
  <1> DEFINE q == Append(p, x)
  <1>1. DOMAIN q = 1 .. Len(p) + 1 /\ DOMAIN p = 1 .. Len(p) /\ Len(p) \in Nat
        /\ \A i \in 1 .. Len(p) : q[i] = p[i]
    OBVIOUS
  <1> HIDE DEF q
  <1>2. \A i \in DOMAIN p : i \in DOMAIN q /\ q[i] = p[i]
    BY <1>1
  <1>3. AllThere(q)
    BY <1>2 DEF AllThere
  <1>4. QED
    BY <1>3 DEF q

\* What edits and ^r do to the invariant
LEMMA HistoryInv ==
    ASSUME BInv, TypeOK, TypeOK', UNCHANGED <<graph, shown, highlight_level, highlight_index>>,
           NEW n \in Name \cup {Undo}, program' = program \/ program' = Append(program, n),
           kind' \in [Name -> Kind], edits' \in Nat
    PROVE  BInv'
  <1>1. DataTypes' /\ AllThere(program')
    <2>1. program \in Seq(Name \cup {Undo}) /\ AllThere(program)
      BY DEF BInv, DataTypes
    <2>2. Append(program, n) \in Seq(Name \cup {Undo}) /\ AllThere(Append(program, n))
      BY <2>1, AppendThere
    <2>3. program' \in Seq(Name \cup {Undo}) /\ AllThere(program')
      BY <2>1, <2>2
    <2>4. QED
      BY <2>3 DEF BInv, DataTypes
  <1>2. Types /\ Types' /\ UNCHANGED <<depth, developer>>
    <2>1. Types
      BY HasTypes DEF BInv
    <2>2. (DataTypes /\ TypeOK => Types)'
      BY HasTypes, PTL
    <2>3. UNCHANGED <<depth, developer>>
      BY DEF graph, threads, metadata
    <2>4. QED
      BY <1>1, <2>1, <2>2, <2>3
  <1>3. max_level' = max_level
    BY <1>1, <1>2, SameMaxLevel DEF BInv
  <1>4. Frozen'
    BY <1>2, <1>3 DEF BInv, Frozen
  <1>5. QED
    BY <1>1, <1>4 DEF BInv

LEMMA EnterInv ==
    ASSUME BInv, TypeOK, EnterBigPicture
    PROVE  BInv' /\ HighlightInLevel'
  <1>1. /\ developer /\ Same /\ Draw /\ highlight_level' = 0 /\ highlight_index' = 0
        /\ UNCHANGED <<graph, edits>>
    BY DEF EnterBigPicture, Same, graph, threads, metadata
  <1>2. Types /\ Types' /\ AllThere(program) /\ AllThere(program')
    BY <1>1, HasTypes, StayTyped DEF BInv, Same
  <1>3. max_level' = max_level /\ max_level \in Int /\ max_level >= 2
    BY <1>1, <1>2, SameMaxLevel, HereSize DEF Same
  <1>4. 0 \in 0 .. max_level
    BY <1>3
  <1>5. OnHighlight'
    <2>1. level_size(highlight_level') > 0 => highlight_index' < level_size(highlight_level')
      BY <1>1
    <2>2. QED
      BY <1>1, <1>2, <1>4, <2>1, ArrowFinds
  <1>6. Frozen'
    BY <1>1, <1>3, <1>4 DEF Frozen, graph, threads, metadata
  <1>7. DataTypes'
    BY <1>1 DEF BInv, DataTypes, Same
  <1>8. QED
    BY <1>2, <1>5, <1>6, <1>7 DEF BInv, HighlightInLevel

LEMMA LeftFinds ==
    ASSUME BInv, TypeOK, HighlightInLevel, KeyLeft
    PROVE  /\ highlight_index' \in Nat /\ highlight_level' \in 0 .. max_level
           /\ edits = 0 => OnHighlight'
  <1>1. Types /\ AllThere(program) /\ Same /\ Draw /\ shown
        /\ highlight_level \in 0 .. max_level /\ highlight_level' = highlight_level
        /\ highlight_index \in Nat
        /\ highlight_index' = IF highlight_index = 0 THEN 0 ELSE highlight_index - 1
    BY HasTypes DEF BInv, DataTypes, Frozen, KeyLeft, Same, graph, threads, metadata
  <1>2. highlight_index' \in Nat /\ highlight_index' <= highlight_index
    BY <1>1
  <1>3. ASSUME edits = 0 PROVE OnHighlight'
    <2>1. level_size(highlight_level) > 0 => highlight_index < level_size(highlight_level)
      BY <1>1, <1>3 DEF HighlightInLevel, OnHighlight
    <2>2. level_size(highlight_level) \in Nat
      BY <1>1, HereSize
    <2>3. level_size(highlight_level') > 0 => highlight_index' < level_size(highlight_level')
      BY <1>1, <1>2, <2>1, <2>2
    <2>4. QED
      BY <1>1, <2>3, ArrowFinds
  <1>4. QED
    BY <1>1, <1>2, <1>3

LEMMA KeysInv ==
    ASSUME BInv, TypeOK, HighlightInLevel, KeyLeft \/ KeyRight \/ KeyUp \/ KeyDown
    PROVE  BInv' /\ HighlightInLevel'
  <1>1. /\ highlight_index' \in Nat /\ highlight_level' \in 0 .. max_level
        /\ edits = 0 => OnHighlight'
    BY LeftFinds, RightFinds, UpDownFinds
  <1>2. UNCHANGED <<graph, program, kind, shown, edits>>
    BY KeysAre
  <1>3. Types /\ Types' /\ AllThere(program) /\ AllThere(program') /\ UNCHANGED <<depth, developer>>
    BY <1>2, HasTypes, StayTyped DEF BInv, Same, graph, threads, metadata
  <1>4. max_level' = max_level
    BY <1>3, SameMaxLevel
  <1>5. Frozen'
    BY <1>1, <1>2, <1>3, <1>4 DEF BInv, Frozen
  <1>6. DataTypes'
    BY <1>1, <1>2 DEF BInv, DataTypes
  <1>7. QED
    BY <1>1, <1>2, <1>3, <1>5, <1>6 DEF BInv, HighlightInLevel

LEMMA EditInv ==
    ASSUME BInv, TypeOK, TypeOK', NEW n \in Name, EditDefinition(n)
    PROVE  BInv' /\ HighlightInLevel'
  <1>1. /\ UNCHANGED <<graph, shown, highlight_level, highlight_index>>
        /\ program' = program \/ program' = Append(program, n)
        /\ edits' = edits + 1 /\ edits \in Nat
    BY DEF EditDefinition, BInv, DataTypes
  <1>2. kind' \in [Name -> Kind]
    BY DEF EditDefinition, BInv, DataTypes
  <1>3. edits' \in Nat /\ edits' # 0
    BY <1>1
  <1>4. QED
    BY <1>1, <1>2, <1>3, HistoryInv DEF HighlightInLevel

LEMMA RecentInv ==
    ASSUME BInv, TypeOK, TypeOK', HighlightInLevel, RecentChanges
    PROVE  BInv' /\ HighlightInLevel'
  <1>1. /\ UNCHANGED <<graph, shown, highlight_level, highlight_index, kind, edits>>
        /\ program' = Append(program, Undo) /\ shown /\ Draw
    BY DEF RecentChanges
  <1>2. BInv'
    <2>1. kind' \in [Name -> Kind] /\ edits' \in Nat
      BY <1>1 DEF BInv, DataTypes
    <2>2. QED
      BY <1>1, <2>1, HistoryInv
  <1>3. Types /\ Types' /\ AllThere(program) /\ AllThere(program') /\ UNCHANGED <<kind, depth>>
    <2>1. (DataTypes /\ TypeOK => Types)'
      BY HasTypes, PTL
    <2>2. QED
      BY <1>1, <1>2, <2>1, HasTypes DEF BInv, graph, threads, metadata
  <1>4. highlight_level' \in 0 .. max_level /\ highlight_level' = highlight_level
    BY <1>1 DEF BInv, Frozen
  <1>5. Level(highlight_level)' = Level(highlight_level')
    BY <1>1, <1>3, <1>4, SameLevel
  <1>6. ASSUME edits' = 0 PROVE OnHighlight'
    <2>1. level_size(highlight_level) > 0 => highlight_index < level_size(highlight_level)
      BY <1>1, <1>6 DEF HighlightInLevel, OnHighlight
    <2>2. QED
      BY <1>1, <1>4, <1>5, <2>1, DrawFinds DEF level_size
  <1>7. QED
    BY <1>2, <1>6 DEF HighlightInLevel

LEMMA LeaveInv ==
    ASSUME Leave
    PROVE  BInv' /\ HighlightInLevel'
  <1>1. PICK im \in Images : program' = im.program /\ kind' = im.kind
    BY DEF Leave
  <1>2. shown' = FALSE /\ highlight_index' = 0 /\ edits' = 0
    BY DEF Leave
  <1>3. DataTypes'
    BY <1>1, <1>2, BigPictureAssumption DEF DataTypes
  <1>4. AllThere(program')
    BY <1>1, BigPictureAssumption DEF AllThere
  <1>6. Frozen' /\ HighlightInLevel'
    BY <1>2 DEF Frozen, HighlightInLevel
  <1>7. QED
    BY <1>3, <1>4, <1>6 DEF BInv

LEMMA StepInv ==
    BInv /\ HighlightInLevel /\ TypeOK /\ TypeOK' /\ [ViewNext]_vars => BInv' /\ HighlightInLevel'
  <1> SUFFICES ASSUME BInv, HighlightInLevel, TypeOK, TypeOK', [ViewNext]_vars
               PROVE  BInv' /\ HighlightInLevel'
    OBVIOUS
  <1>1. CASE RunApp \/ \E n \in Name, k \in Kind : Assign(n, k)
    BY <1>1, AppInv
  <1>2. CASE EnterBigPicture
    BY <1>2, EnterInv
  <1>3. CASE KeyLeft \/ KeyRight \/ KeyUp \/ KeyDown
    BY <1>3, KeysInv
  <1>4. CASE \E n \in Name : EditDefinition(n)
    BY <1>4, EditInv
  <1>5. CASE RecentChanges
    BY <1>5, RecentInv
  <1>6. CASE Leave
    BY <1>6, LeaveInv
  <1>7. CASE UNCHANGED vars
    <2>1. UNCHANGED <<program, kind, depth, developer, shown, highlight_level, highlight_index, highlight, edits>>
      BY <1>7 DEF vars, graph, threads, metadata, view
    <2>2. DataTypes' /\ AllThere(program')
      BY <2>1 DEF BInv, DataTypes, AllThere
    <2>3. Types /\ Types' /\ AllThere(program)
      BY <2>1, HasTypes, StayTyped DEF BInv, Same
    <2>4. max_level' = max_level
      BY <2>1, <2>2, <2>3, SameMaxLevel
    <2>5. Frozen'
      BY <2>1, <2>4 DEF BInv, Frozen
    <2>6. ASSUME shown, edits = 0 PROVE OnHighlight'
      <3>1. highlight_level' \in 0 .. max_level /\ highlight_level' = highlight_level
        BY <2>1, <2>6 DEF BInv, Frozen
      <3>2. Level(highlight_level)' = Level(highlight_level')
        BY <2>1, <2>2, <2>3, <3>1, SameLevel
      <3>3. QED
        BY <2>1, <2>6, <3>1, <3>2 DEF HighlightInLevel, OnHighlight, level_size
    <2>7. QED
      BY <2>1, <2>2, <2>5, <2>6 DEF BInv, HighlightInLevel
  <1>8. QED
    BY <1>1, <1>2, <1>3, <1>4, <1>5, <1>6, <1>7 DEF ViewNext

LEMMA Invariant == ViewSpec => [](BInv /\ HighlightInLevel /\ TypeOK /\ LevelsFollowCalls)
  BY BInit, StepInv, GraphHolds, PTL DEF ViewSpec

\* The name that ^g goes to is one of the level that the arrow keys led to, for
\* any program and history: as long as nothing was edited, also after undos.
THEOREM HighlightIsInLevel == ViewSpec => []HighlightInLevel
  BY Invariant, PTL

\* Whatever was edited, the arrow keys that look at the size of a level find a
\* name in it, if it has one.
THEOREM ArrowsFind == ViewSpec => ArrowsFindHighlight
  <1>1. BInv /\ TypeOK /\ [ViewNext]_vars => [KeyRight \/ KeyUp \/ KeyDown => OnHighlight']_vars
    BY RightFinds, UpDownFinds
  <1>2. QED
    BY <1>1, Invariant, PTL DEF ViewSpec, ArrowsFindHighlight

-----------------------------------------------------------------------------
(* No name twice but those that count twice *)

\* TwoFold, of any kinds and depths
TwoFoldBy(k, d, n) ==
    /\ n \in Doc \cup {Menu} \/ k[n] # "function"
    /\ n \in {f \in Func : d[f] # 0} \/ k[n] = "function"

LEMMA LevelsApart ==
    ASSUME NEW k, NEW d, \A f \in Func : d[f] # 0 => f \in Name, NEW m \in Int, m >= 2,
           NEW l \in 0 .. m, NEW j \in 0 .. m, NEW n, n \in NamesAt(k, d, m, l), n \in NamesAt(k, d, m, j)
    PROVE  l = j \/ (TwoFoldBy(k, d, n) /\ (l <= 1 <=> j > 1))
  <1> DEFINE In(i) ==
               \/ i = 0 /\ n \in DataOf(k) \cup MenuOf(k)
               \/ i = 1 /\ n \in Doc
               \/ i > 1 /\ i < m /\ n \in CalledOf(d, i)
               \/ i = m /\ n \in UnusedOf(k, d)
             above == n \in Doc \cup {Menu} \/ k[n] # "function"
             below == n \in {f \in Func : d[f] # 0} \/ k[n] = "function"
  <1>1. \A i \in 0 .. m : n \in NamesAt(k, d, m, i) => In(i)
    <2>1. \A i \in 0 .. m : i = 0 \/ i = 1 \/ (i > 1 /\ i < m) \/ (i # 0 /\ i # 1 /\ ~ (i < m) /\ i = m)
      OBVIOUS
    <2>2. QED
      BY <2>1 DEF NamesAt
  <1>2. n \in DataOf(k) \cup MenuOf(k) => n \notin Doc /\ above
    BY Constants DEF DataOf, MenuOf
  <1>3. \A i : n \in CalledOf(d, i) => n \in Func /\ d[n] = i
    BY DEF CalledOf
  <1>4. n \in UnusedOf(k, d) => k[n] = "function" /\ n \notin {f \in Func : d[f] # 0}
    BY DEF UnusedOf
  <1>5. In(l) /\ In(j)
    BY <1>1
  <1>6. \A i \in {l, j} : i \in Int /\ (i > 1 => below) /\ (i <= 1 => above)
    <2> SUFFICES ASSUME NEW i \in {l, j} PROVE i \in Int /\ (i > 1 => below) /\ (i <= 1 => above)
      OBVIOUS
    <2>1. i \in Int /\ In(i)
      BY <1>5
    <2>2. CASE i = 0 \/ i = 1
      BY <1>2, <2>1, <2>2 DEF In
    <2>3. CASE i > 1 /\ i < m /\ n \in CalledOf(d, i)
      BY <1>3, <2>1, <2>3
    <2>4. CASE i = m /\ n \in UnusedOf(k, d)
      BY <1>4, <2>1, <2>4
    <2>5. QED
      BY <2>1, <2>2, <2>3, <2>4
  <1>7. CASE l <= 1 /\ j <= 1
    <2>1. (l = 0 \/ l = 1) /\ (j = 0 \/ j = 1)
      BY <1>7
    <2>2. \A i \in {l, j} : (i = 0 => n \notin Doc) /\ (i = 1 => n \in Doc)
      BY <1>2, <1>5, <1>6, <1>7
    <2>3. QED
      BY <2>1, <2>2
  <1>8. CASE l > 1 /\ j > 1
    <2>1. \A i \in {l, j} : (i < m /\ n \in CalledOf(d, i)) \/ (i = m /\ n \in UnusedOf(k, d))
      BY <1>5, <1>6, <1>8
    <2>2. \A i \in {l, j} : n \in CalledOf(d, i) => n \in {f \in Func : d[f] # 0} /\ d[n] = i
      BY <1>3, <1>6, <1>8
    <2>3. CASE n \in UnusedOf(k, d)
      BY <1>4, <2>1, <2>2, <2>3
    <2>4. CASE n \notin UnusedOf(k, d)
      BY <2>1, <2>2, <2>4
    <2>5. QED
      BY <2>3, <2>4
  <1>9. CASE ~ (l <= 1 /\ j <= 1) /\ ~ (l > 1 /\ j > 1)
    <2>1. l <= 1 <=> j > 1
      BY <1>6, <1>9
    <2>2. above /\ below
      BY <1>6, <1>9
    <2>3. QED
      BY <2>1, <2>2 DEF TwoFoldBy
  <1>10. QED
    BY <1>7, <1>8, <1>9

LEMMA InPlaces ==
    ASSUME NEW x
    PROVE  x \in Places <=>
              \E l \in 0 .. max_level : \E k \in DOMAIN Level(l) : x = <<l, k, Level(l)[k]>>
  BY DEF Places

LEMMA AtMostOnce ==
    ASSUME Types, NEW p \in Places, NEW q \in Places, p[3] = q[3]
    PROVE  p = q \/ (TwoFold(p[3]) /\ (p[1] <= 1 <=> q[1] > 1))
  <1>1. max_level \in Int /\ max_level >= 2
    BY HereSize
  <1>2. PICK l \in 0 .. max_level : \E k \in DOMAIN Level(l) : p = <<l, k, Level(l)[k]>>
    BY InPlaces
  <1>3. PICK k \in DOMAIN Level(l) : p = <<l, k, Level(l)[k]>>
    BY <1>2
  <1>4. PICK j \in 0 .. max_level : \E i \in DOMAIN Level(j) : q = <<j, i, Level(j)[i]>>
    BY InPlaces
  <1>5. PICK i \in DOMAIN Level(j) : q = <<j, i, Level(j)[i]>>
    BY <1>4
  <1> DEFINE n == Level(l)[k]
  <1>6. n = Level(j)[i] /\ p[1] = l /\ q[1] = j /\ p[3] = n
    BY <1>3, <1>5
  <1>7. /\ Lists(program, NamesAt(kind, depth, max_level, l), Level(l))
        /\ Lists(program, NamesAt(kind, depth, max_level, j), Level(j))
    BY LevelsAre, LevelLists DEF Types
  <1>8. n \in NamesAt(kind, depth, max_level, l) /\ n \in NamesAt(kind, depth, max_level, j)
    BY <1>6, <1>7 DEF Lists
  <1>9. \A f \in Func : depth[f] # 0 => f \in Name
    BY Constants
  <1>10. l = j \/ (TwoFoldBy(kind, depth, n) /\ (l <= 1 <=> j > 1))
    BY <1>1, <1>8, <1>9, LevelsApart
  <1>11. CASE l = j
    <2>1. k = i
      BY <1>6, <1>7, <1>11 DEF Lists
    <2>2. QED
      BY <1>3, <1>5, <1>11, <2>1
  <1>12. CASE TwoFoldBy(kind, depth, n) /\ (l <= 1 <=> j > 1)
    <2>1. TwoFold(n)
      BY <1>12 DEF TwoFold, TwoFoldBy
    <2>2. QED
      BY <1>6, <1>12, <2>1
  <1>13. QED
    BY <1>10, <1>11, <1>12

\* Levels are filled from the top, so a function that was called has one.
LEMMA CalledHasLevel ==
    ASSUME BInv, TypeOK, LevelsFollowCalls, orderly, \A f \in Func : depth[f] # 1,
           NEW n \in Func, depth[n] # 0
    PROVE  depth[n] > 1 /\ depth[n] < max_level
  <1> DEFINE m == max_level
             T == {l \in Nat : l >= m /\ CalledOf(depth, l) # {}}
  <1>1. Types /\ IsMaxLevel(program, depth, m) /\ AllThere(program)
    BY HasTypes, MaxLevelIs DEF BInv
  <1>2. m \in Int /\ m >= 2 /\ depth \in [Func -> 0 .. MaxDepth + 1]
    BY <1>1, HereSize DEF Types
  <1>3. CalledOf(depth, m) = {}
    BY <1>1 DEF IsMaxLevel, AllThere, Drew, CalledOf
  <1> HIDE DEF m
  <1>4. ASSUME T # {} PROVE FALSE
    <2>1. T \in SUBSET Nat
      OBVIOUS
    <2> HIDE DEF T
    <2>2. PICK x \in T : \A y \in T : x <= y
      BY <1>4, <2>1, LeastElement
    <2>3. x \in Nat /\ x >= m /\ CalledOf(depth, x) # {}
      BY <2>2 DEF T
    <2>4. x # m
      BY <1>3, <2>3
    <2>5. x > 2 /\ x - 1 \in Nat /\ x - 1 >= m /\ ~ (x <= x - 1)
      BY <1>2, <2>3, <2>4
    <2>6. PICK f \in Func : depth[f] = x
      BY <2>3 DEF CalledOf
    <2>7. PICK g \in caller[f] \cap Func : depth[g] = depth[f] - 1
      BY <2>5, <2>6 DEF LevelsFollowCalls
    <2>8. CalledOf(depth, x - 1) # {}
      BY <2>6, <2>7 DEF CalledOf
    <2>9. x - 1 \in T
      BY <2>5, <2>8 DEF T
    <2>10. QED
      BY <2>2, <2>5, <2>9
  <1>5. depth[n] \in Nat /\ depth[n] > 1
    <2>1. depth[n] \in 0 .. MaxDepth + 1 /\ depth[n] # 1
      BY <1>2
    <2>2. QED
      BY <2>1, Constants
  <1>6. CalledOf(depth, depth[n]) # {}
    BY DEF CalledOf
  <1>7. ~ (depth[n] >= m)
    BY <1>4, <1>5, <1>6
  <1>8. QED
    BY <1>2, <1>5, <1>7 DEF m

LEMMA AtLeastOnce ==
    ASSUME BInv, TypeOK, LevelsFollowCalls, orderly, \A f \in Func : depth[f] # 1,
           NEW i \in DOMAIN program, program[i] # Undo
    PROVE  \E p \in Places : p[3] = program[i]
  <1> DEFINE n == program[i]
             m == max_level
  <1>1. Types /\ m \in Int /\ m >= 2
    BY HasTypes, HereSize DEF BInv
  <1>2. n \in Name /\ kind[n] \in Kind
    <2>1. program \in Seq(Name \cup {Undo}) /\ kind \in [Name -> Kind]
      BY <1>1 DEF Types
    <2>2. n \in Name \cup {Undo}
      BY <2>1, ElementOfSeq
    <2>3. QED
      BY <2>1, <2>2
  <1>3. 0 \in 0 .. m /\ 1 \in 0 .. m /\ m \in 0 .. m /\ m # 0 /\ m # 1 /\ ~ (m < m)
    BY <1>1
  <1> HIDE DEF n, m
  <1>4. PICK l \in 0 .. m : n \in NamesAt(kind, depth, m, l)
    <2>1. CASE n \in Doc
      BY <1>3, <2>1 DEF NamesAt
    <2>2. CASE n = Menu \/ (n \notin Doc /\ kind[n] # "function")
      <3>1. n \in DataOf(kind) \cup MenuOf(kind)
        BY <1>2, <2>2, Constants DEF DataOf, MenuOf, Kind
      <3>2. QED
        BY <1>3, <3>1 DEF NamesAt
    <2>3. CASE kind[n] = "function" /\ n \in Func /\ depth[n] # 0
      <3>1. depth[n] > 1 /\ depth[n] < m
        BY <2>3, CalledHasLevel DEF m
      <3>2. depth[n] \in 0 .. m /\ depth[n] # 0 /\ depth[n] # 1
        <4>1. depth[n] \in 0 .. MaxDepth + 1
          BY <1>1, <2>3 DEF Types
        <4>2. QED
          BY <1>1, <3>1, <4>1, Constants
      <3>3. n \in CalledOf(depth, depth[n])
        BY <2>3 DEF CalledOf
      <3>4. n \in NamesAt(kind, depth, m, depth[n])
        BY <3>1, <3>2, <3>3 DEF NamesAt
      <3>5. QED
        BY <3>2, <3>4
    <2>4. CASE kind[n] = "function" /\ ~ (n \in Func /\ depth[n] # 0)
      <3>1. n \in UnusedOf(kind, depth)
        BY <1>2, <2>4 DEF UnusedOf
      <3>2. n \in NamesAt(kind, depth, m, m)
        BY <1>3, <3>1 DEF NamesAt
      <3>3. QED
        BY <1>3, <3>2
    <2>5. QED
      BY <2>1, <2>2, <2>3, <2>4
  <1>5. Lists(program, NamesAt(kind, depth, m, l), Level(l))
    BY <1>1, LevelsAre, LevelLists DEF Types, m
  <1>6. PICK k \in DOMAIN Level(l) : Level(l)[k] = n
    BY <1>4, <1>5 DEF Lists, n
  <1>7. <<l, k, Level(l)[k]>> \in Places
    BY <1>6, InPlaces DEF m
  <1>8. QED
    BY <1>6, <1>7 DEF n

\* Whatever the app assigned and the user edited, a name is drawn once, or once
\* above and once below if it counts as both; and none is left out if every
\* first call came from the level above, so none is beyond the arrow keys.
THEOREM NamesDrawnOnce == ViewSpec => []DrawnOnce
  <1>1. BInv /\ TypeOK /\ LevelsFollowCalls => DrawnOnce
    <2> SUFFICES ASSUME BInv, TypeOK, LevelsFollowCalls PROVE DrawnOnce
      OBVIOUS
    <2>1. \A p, q \in Places :
             p[3] = q[3] => p = q \/ (TwoFold(p[3]) /\ (p[1] <= 1 <=> q[1] > 1))
      BY HasTypes, AtMostOnce DEF BInv
    <2>2. orderly /\ (\A f \in Func : depth[f] # 1) =>
             \A i \in DOMAIN program : program[i] # Undo => \E p \in Places : p[3] = program[i]
      BY AtLeastOnce
    <2>3. QED
      BY <2>1, <2>2 DEF DrawnOnce
  <1>2. QED
    BY <1>1, Invariant, PTL

===============================================================================
