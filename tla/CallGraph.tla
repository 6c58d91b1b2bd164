------------------------------ MODULE CallGraph ------------------------------
(***************************************************************************)
(* What Teliva notes about the functions of an image as they are called,   *)
(* for the big picture and for the list of callers in the editor: how deep *)
(* in the call stack a function was when it was first called, and by whom  *)
(* it was ever called.  A frame is known by the global that held its       *)
(* function when the image was loaded, or not at all.                      *)
(*                                                                         *)
(* Which frame may call which is left open but for Calls; what is done     *)
(* with a call (an error is several returns) does not matter here.         *)
(***************************************************************************)
EXTENDS Integers, Sequences, FiniteSets

CONSTANTS
    Func,        \* the Lua functions of the image that have a global
    Main,
    Test,        \* those that start with "test_"
    Builtin,     \* the other frames that have a global: pcall, check, ...
    Unknown,     \* a frame that has none: local functions, methods, resume()
    Calls,       \* the pairs <<f, g>> where f may call g
    TailCalls,   \* those where the call is "return g()"
    Body,        \* what coroutines may be made of
    Coroutine,
    MainThread,
    MaxDepth     \* bound on the length of a stack

Frame == Func \cup Builtin \cup {Unknown}
Thread == Coroutine \cup {MainThread}

ASSUME CallGraphAssumption ==
    /\ Main \in Func \ Test
    /\ Test \subseteq Func
    /\ Func \cap Builtin = {} /\ Unknown \notin Func \cup Builtin
    /\ Calls \subseteq Frame \X Frame
    /\ TailCalls \subseteq Calls \cap (Frame \X Func)
    /\ Body \subseteq Frame
    /\ MainThread \notin Coroutine
    /\ MaxDepth \in Nat /\ MaxDepth >= 2

VARIABLES
    phase,      \* "tests" or "app"
    developer,  \* developer_mode() has been called, and does not return
    stacks,     \* the frames of each thread, above base_ci
    active,     \* the threads that run or wait for one they resumed
    depth,      \* __teliva_call_graph_depth, 0 for nil
    caller,     \* __teliva_caller
    orderly     \* history: every first call came from the level above

metadata == <<depth, caller, orderly>>
threads == <<stacks, active>>
graph == <<phase, developer, threads, metadata>>

TypeOK ==
    /\ phase \in {"tests", "app"}
    /\ developer \in BOOLEAN
    /\ stacks \in [Thread -> Seq(Frame)]
    /\ active \in Seq(Thread)
    /\ depth \in [Func -> 0 .. MaxDepth + 1]
    /\ caller \in [Func -> SUBSET (Func \cup Builtin)]
    /\ orderly \in BOOLEAN

running == active[Len(active)]
stack == stacks[running]
ci == stack[Len(stack)]   \* the frame that runs

\* pmain(), a C function, is the only frame of the main thread.
AtBase == running = MainThread /\ Len(stack) = 1

-----------------------------------------------------------------------------
\* f is called in a frame at level d, from a frame of g.
SaveCallGraphDepth(f, d) ==
    depth' = IF depth[f] = 0 THEN [depth EXCEPT ![f] = d] ELSE depth

\* Mutant: a caller without a name is saved too.
SaveAnyCaller(f, d, g) ==
    caller' = IF d <= 1 THEN caller ELSE [caller EXCEPT ![f] = @ \cup {g}]

SaveCaller(f, d, g) ==
    caller' = IF d <= 1 THEN caller
              ELSE IF g # Unknown THEN [caller EXCEPT ![f] = @ \cup {g}]
              ELSE IF d = 3 THEN [caller EXCEPT ![f] = @ \cup {Main}]
              ELSE caller

OnLevelAbove(d, g) == d = 2 \/ (g \in Func /\ depth[g] = d - 1)

\* Mutant: the name of the frame below the caller is taken.
RecordCallersCaller(f, d, g) ==
    IF f \notin Func THEN UNCHANGED metadata
    ELSE /\ SaveCallGraphDepth(f, d)
         /\ SaveCaller(f, d, IF d > 2 THEN stack[d - 2] ELSE Unknown)
         /\ orderly' = (orderly /\ (depth[f] = 0 => OnLevelAbove(d, g)))

\* record_metadata_about_function_call()
RecordMetadata(f, d, g) ==
    IF f \notin Func THEN UNCHANGED metadata
    ELSE /\ SaveCallGraphDepth(f, d)
         /\ SaveCaller(f, d, g)
         /\ orderly' = (orderly /\ (depth[f] = 0 => OnLevelAbove(d, g)))

-----------------------------------------------------------------------------
NothingRecorded == [f \in Func |-> 0]
NoCallers == [f \in Func |-> {}]

\* load_image() up to run_tests(); evaluating the definitions records nothing,
\* as no function has a name yet.
Init ==
    /\ phase = "tests"
    /\ developer = FALSE
    /\ stacks = [t \in Thread |-> IF t = MainThread THEN <<Unknown>> ELSE <<>>]
    /\ active = <<MainThread>>
    /\ depth = NothingRecorded
    /\ caller = NoCallers
    /\ orderly = TRUE

MayCall(f) == IF AtBase THEN phase = "tests" /\ f \in Test ELSE <<ci, f>> \in Calls

Call(f) ==
    /\ ~ developer
    /\ MayCall(f)
    /\ Len(stack) < MaxDepth
    /\ stacks' = [stacks EXCEPT ![running] = Append(@, f)]
    /\ RecordMetadata(f, Len(stack) + 1, ci)
    /\ UNCHANGED <<phase, developer, active>>

\* luaD_precall() makes a new frame, which then takes the place of the caller's.
TailCall(f) ==
    /\ ~ developer
    /\ ~ AtBase
    /\ <<ci, f>> \in TailCalls
    /\ stacks' = [stacks EXCEPT ![running][Len(stack)] = f]
    /\ RecordMetadata(f, Len(stack) + 1, ci)
    /\ UNCHANGED <<phase, developer, active>>

\* A coroutine ends with its last frame.
Return ==
    /\ ~ developer
    /\ ~ AtBase
    /\ stacks' = [stacks EXCEPT ![running] = SubSeq(@, 1, Len(@) - 1)]
    /\ active' = IF Len(stack) = 1 THEN SubSeq(active, 1, Len(active) - 1) ELSE active
    /\ UNCHANGED <<phase, developer, metadata>>

\* coroutine.resume() of a new coroutine, which has a stack of its own
Create(c, f) ==
    /\ ~ developer
    /\ ~ AtBase /\ ci = Unknown
    /\ stacks[c] = <<>>
    /\ f \in Body
    /\ stacks' = [stacks EXCEPT ![c] = <<f>>]
    /\ active' = Append(active, c)
    /\ RecordMetadata(f, 1, Unknown)
    /\ UNCHANGED <<phase, developer>>

Resume(c) ==
    /\ ~ developer
    /\ ~ AtBase /\ ci = Unknown
    /\ stacks[c] # <<>>
    /\ c \notin {active[i] : i \in DOMAIN active}
    /\ active' = Append(active, c)
    /\ UNCHANGED <<phase, developer, stacks, metadata>>

Yield ==
    /\ ~ developer
    /\ running # MainThread
    /\ active' = SubSeq(active, 1, Len(active) - 1)
    /\ UNCHANGED <<phase, developer, stacks, metadata>>

\* Mutant: what was recorded in the tests stays.
StartAppAfterTests ==
    /\ ~ developer
    /\ phase = "tests" /\ AtBase
    /\ phase' = "app"
    /\ stacks' = [stacks EXCEPT ![MainThread] = Append(@, Main)]
    /\ UNCHANGED <<developer, active, metadata>>

\* The rest of load_image(), and the call of main()
StartApp ==
    /\ ~ developer
    /\ phase = "tests" /\ AtBase
    /\ phase' = "app"
    /\ depth' = [NothingRecorded EXCEPT ![Main] = 2]
    /\ caller' = NoCallers
    /\ orderly' = TRUE
    /\ stacks' = [stacks EXCEPT ![MainThread] = Append(@, Main)]
    /\ UNCHANGED <<developer, active>>

\* ^u while anything runs, a test that failed, or an error in the app
DeveloperMode ==
    /\ ~ developer
    /\ developer' = TRUE
    /\ UNCHANGED <<phase, threads, metadata>>

\* execv() at the end of developer_mode(), or the process ends before and the
\* image is run again.
NewProcess ==
    /\ phase' = "tests"
    /\ developer' = FALSE
    /\ stacks' = [t \in Thread |-> IF t = MainThread THEN <<Unknown>> ELSE <<>>]
    /\ active' = <<MainThread>>
    /\ depth' = NothingRecorded
    /\ caller' = NoCallers
    /\ orderly' = TRUE

Step ==
    \/ \E f \in Frame : Call(f) \/ TailCall(f)
    \/ Return
    \/ \E c \in Coroutine : Resume(c) \/ Yield \/ \E f \in Frame : Create(c, f)
    \/ StartApp
    \/ DeveloperMode

Next == Step \/ NewProcess

Spec == Init /\ [][Next]_graph

-----------------------------------------------------------------------------
(* Properties *)

\* The least set with S that tail calls do not lead out of
Closed(S) == \A call \in TailCalls : call[1] \in S => call[2] \in S

TailClosure(S) == {f \in Frame : \A T \in SUBSET Frame : S \subseteq T /\ Closed(T) => f \in T}

\* The frames that the text of the program allows at each level of a stack:
\* pmain() and the bodies of coroutines at the bottom, the roots above pmain().
Callees(S) == {f \in Frame : \E g \in S : <<g, f>> \in Calls}

AllowedAt(roots) ==
    LET at[n \in 1 .. MaxDepth] ==
          IF n = 1 THEN TailClosure(Body)
          ELSE TailClosure(Callees(at[n - 1]) \cup (IF n = 2 THEN roots ELSE {}))
    IN  at

Roots == IF phase = "tests" THEN Test ELSE {Main}

\* The big picture shows a function at a level where the program can call it:
\* below main() by as many calls as the level says (or in a coroutine), never
\* where a test called it, with recursion, tail calls, coroutines that outlive
\* the call that made them and errors in between.
DepthIsCallChain ==
    LET at == AllowedAt(Roots)
    IN  \A f \in Func : depth[f] # 0 =>
            \/ depth[f] = 1 /\ f \in Body
            \/ depth[f] = 2 /\ f \in Roots
            \/ depth[f] > 1 /\ f \in Callees(at[depth[f] - 1])

\* "It shows main up top, functions that main calls below, functions called by
\* those functions next" (tour.md): so it does, and each function has a caller on
\* the level above, provided that the first call of each came from a function
\* that was where it was first called itself.  With it, no level is empty
\* between others.
LevelsFollowCalls ==
    orderly => \A f \in Func : depth[f] > 2 =>
                  \E g \in caller[f] \cap Func : depth[g] = depth[f] - 1
=============================================================================
