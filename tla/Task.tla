-------------------------------- MODULE Task ---------------------------------
(***************************************************************************)
(* The coroutines and channels of task.lua.  A task runs until it blocks   *)
(* in chanalt() or ends; the scheduler resumes the runnable tasks from a   *)
(* stack, and the main thread may use channels too, but not block.  What a *)
(* task computes between its calls is left open: it may call anything.     *)
(* send(), recv(), nbsend() and nbrecv() are chanalt() with a single alt.  *)
(*                                                                         *)
(* An alt is known by its task and its place in the task's alt_array.  A   *)
(* task either builds a new alt_array for each call, as send() and recv()  *)
(* do, or passes its last one again (Reuse).  What a Set keeps about an    *)
(* alt whose table is gone can no longer be looked up, and is forgotten.   *)
(***************************************************************************)
EXTENDS Integers, Sequences, FiniteSets

CONSTANTS
    Task,         \* the coroutines
    Main,         \* the main thread
    Channel,
    Size,         \* the size of a channel's buffer, 0 for a rendezvous
    AltArray,     \* the alt_arrays passed to chanalt(): sequences of [c, op]
    MaxAlts,      \* their greatest length
    Reuse,        \* may an alt_array be passed again?
    MaxSends,     \* bound on the number of calls that offer a message
    NoMessage

Op == {"RECV", "SEND", "NOP"}

ASSUME TaskAssumption ==
    /\ Main \notin Task
    /\ Size \in [Channel -> Nat]
    /\ MaxSends \in Nat /\ MaxAlts \in Nat
    /\ NoMessage \notin Nat
    /\ Reuse \in BOOLEAN
    /\ \A arr \in AltArray : arr \in Seq([c : Channel, op : Op]) /\ Len(arr) <= MaxAlts

VARIABLES
    tasks_runnable,   \* the stack of the scheduler
    running,          \* the coroutine that runs, or Main
    scheduling,       \* Main is in scheduler()
    status,           \* of each coroutine
    alt_array,        \* the last one each task blocked on, while it is in use
    resolved,         \* its field: the alt that another task executed, 0 for nil
    buf,              \* c._buf
    alts,             \* c._recv_alts and c._send_alts
    sends,            \* the number of messages so far; the name of the last one
    out               \* history: what was received from each channel, in order

sched == <<tasks_runnable, running, scheduling, status>>
arrays == <<alt_array, resolved>>
vars == <<sched, arrays, buf, alts, sends, out>>

Thread == Task \cup {Main}
Message == 1 .. MaxSends
Alt == Task \X (1 .. MaxAlts)

Runnable == {tasks_runnable[i] : i \in DOMAIN tasks_runnable}

\* A task that waits in chanalt() for another one
Blocked(t) == status[t] = "alive" /\ t # running /\ t \notin Runnable

Buffer(c) ==
    [b : [0 .. Size[c] -> Message \cup {NoMessage}], l : 0 .. Size[c], r : 0 .. Size[c]]

TypeOK ==
    /\ tasks_runnable \in Seq(Task)
    /\ running \in Thread
    /\ scheduling \in BOOLEAN
    /\ status \in [Task -> {"new", "alive", "dead"}]
    /\ alt_array \in [Task -> Seq([c : Channel, op : Op, p : Message \cup {NoMessage}])]
    /\ resolved \in [Task -> 0 .. MaxAlts]
    /\ DOMAIN buf = Channel /\ \A c \in Channel : buf[c] \in Buffer(c)
    /\ alts \in [Channel -> [{"RECV", "SEND"} -> [a : [Alt -> Nat], l : Seq(Alt)]]]
    /\ sends \in 0 .. MaxSends
    /\ out \in [Channel -> Seq(Message)]

-----------------------------------------------------------------------------
(* Set: l lists the members, and a has the place of each in l *)

NewSet == [a |-> [v \in Alt |-> 0], l |-> <<>>]

Add(s, v) ==
    IF s.a[v] = 0
    THEN [a |-> [s.a EXCEPT ![v] = Len(s.l) + 1], l |-> Append(s.l, v)]
    ELSE s

\* Mutant: the last member takes the place of v, and a does not say so.
RemoveUnindexed(s, v) ==
    LET last == s.l[Len(s.l)]
    IN  [a |-> s.a, l |-> SubSeq([s.l EXCEPT ![s.a[v]] = last], 1, Len(s.l) - 1)]

\* v keeps its place in a: where a[v] is meant, the code clears a[i], and i is
\* a number.
Remove(s, v) ==
    LET last == s.l[Len(s.l)]
    IN  [a |-> [s.a EXCEPT ![last] = s.a[v]],
         l |-> SubSeq([s.l EXCEPT ![s.a[v]] = last], 1, Len(s.l) - 1)]

Forget(s, t) == [s EXCEPT !.a = [v \in Alt |-> IF v[1] = t THEN 0 ELSE @[v]]]

-----------------------------------------------------------------------------
(* CircularBuffer *)

NewBuffer(size) == [b |-> [i \in 0 .. size |-> NoMessage], l |-> 0, r |-> 0]

Slots(c) == Size[c] + 1
BufLen(c) == (buf[c].r - buf[c].l) % Slots(c)

Pop(q, c) == [q EXCEPT !.l = (@ + 1) % Slots(c)]

\* Mutant: the index runs past the last slot.
PushUnwrapped(q, c, m) == [q EXCEPT !.b[q.r] = m, !.r = @ + 1]

Push(q, c, m) == [q EXCEPT !.b[q.r] = m, !.r = (@ + 1) % Slots(c)]

-----------------------------------------------------------------------------
(* chanalt() *)

Other(op) == IF op = "SEND" THEN "RECV" ELSE "SEND"

\* Mutant: the last slot of a buffer is not used.
AltCanExecBelowFull(alt) ==
    IF Size[alt.c] = 0
    THEN alt.op # "NOP" /\ alts[alt.c][Other(alt.op)].l # <<>>
    ELSE \/ alt.op = "SEND" /\ BufLen(alt.c) + 1 < Size[alt.c]
         \/ alt.op = "RECV" /\ BufLen(alt.c) > 0

AltCanExec(alt) ==
    IF Size[alt.c] = 0
    THEN alt.op # "NOP" /\ alts[alt.c][Other(alt.op)].l # <<>>
    ELSE \/ alt.op = "SEND" /\ BufLen(alt.c) < Size[alt.c]
         \/ alt.op = "RECV" /\ BufLen(alt.c) > 0

AltAllDequeue(t) ==
    LET arr == alt_array[t]
        after[n \in 0 .. Len(arr)] ==
          IF n = 0 THEN alts
          ELSE IF arr[n].op = "NOP" THEN after[n - 1]
          ELSE [after[n - 1] EXCEPT ![arr[n].c][arr[n].op] = Remove(@, <<t, n>>)]
    IN  after[Len(arr)]

AltAllEnqueue(t, arr, old) ==
    LET after[n \in 0 .. Len(arr)] ==
          IF n = 0 THEN old
          ELSE IF arr[n].op = "NOP" THEN after[n - 1]
          ELSE [after[n - 1] EXCEPT ![arr[n].c][arr[n].op] = Add(@, <<t, n>>)]
    IN  after[Len(arr)]

\* Mutant: what was sent directly is put into the buffer as well.
AltCopyTwice(c, receives, sent) ==
    LET direct == receives /\ sent # NoMessage /\ BufLen(c) = 0
        popped == IF receives /\ ~ direct THEN Pop(buf[c], c) ELSE buf[c]
    IN  /\ buf' = [buf EXCEPT ![c] = IF sent = NoMessage THEN popped
                                     ELSE Push(popped, c, sent)]
        /\ out' = IF ~ receives THEN out
                  ELSE [out EXCEPT ![c] =
                           Append(@, IF direct THEN sent ELSE buf[c].b[buf[c].l])]

\* altcopy(): with a receiver, a sender, or both.  The receiver's
\* alt_array.value is the end of out[c].
AltCopy(c, receives, sent) ==
    LET direct == receives /\ sent # NoMessage /\ BufLen(c) = 0
        popped == IF receives /\ ~ direct THEN Pop(buf[c], c) ELSE buf[c]
    IN  /\ buf' = [buf EXCEPT ![c] = IF sent = NoMessage \/ direct THEN popped
                                     ELSE Push(popped, c, sent)]
        /\ out' = IF ~ receives THEN out
                  ELSE [out EXCEPT ![c] =
                           Append(@, IF direct THEN sent ELSE buf[c].b[buf[c].l])]

\* An alt_array as the call passes it: what it sends is the next message.
WithMessage(arr) ==
    [i \in DOMAIN arr |->
        [c |-> arr[i].c, op |-> arr[i].op,
         p |-> IF arr[i].op = "SEND" THEN sends + 1 ELSE NoMessage]]

\* chanalt() called by t: the alt_array is new, or the one t passed before.
Call(t, arr, again) ==
    /\ running = t
    /\ t = Main => ~ scheduling
    /\ IF again THEN arr # <<>> /\ arr = WithMessage(alt_array[t])
                ELSE \E a \in AltArray : arr = WithMessage(a)
    /\ sends' = IF \E i \in DOMAIN arr : arr[i].op = "SEND" THEN sends + 1 ELSE sends
    /\ sends' <= MaxSends

\* altexec() without a partner: only a buffer is used.
AltExecAlone(t, arr, i) ==
    /\ alts[arr[i].c][Other(arr[i].op)].l = <<>>
    /\ AltCopy(arr[i].c, arr[i].op = "RECV", arr[i].p)
    /\ UNCHANGED <<sched, arrays, alts>>

\* altexec() with a partner chosen at random: the n-th alt of u
AltExecWith(t, arr, i, u, n) ==
    LET p == {arr[i].p, alt_array[u][n].p} \ {NoMessage}
    IN  /\ AltCopy(arr[i].c, TRUE, CHOOSE m \in p : TRUE)
        /\ alts' = AltAllDequeue(u)
        /\ resolved' = [resolved EXCEPT ![u] = n]
        /\ tasks_runnable' = Append(tasks_runnable, u)
        /\ UNCHANGED <<running, scheduling, status, alt_array>>

AltExec(t, arr, again) ==
    /\ Call(t, arr, again)
    /\ \E i \in DOMAIN arr :
          /\ AltCanExec(arr[i])
          /\ LET waiting == alts[arr[i].c][Other(arr[i].op)].l
             IN  \/ AltExecAlone(t, arr, i)
                 \/ \E k \in DOMAIN waiting :
                        AltExecWith(t, arr, i, waiting[k][1], waiting[k][2])

\* No alt can be executed: a task may wait.  Without canblock, chanalt()
\* returns nil and leaves everything as it was.
AltBlock(t, arr, again) ==
    /\ Call(t, arr, again)
    /\ t # Main
    /\ \A i \in DOMAIN arr : ~ AltCanExec(arr[i])
    /\ alt_array' = [alt_array EXCEPT ![t] = arr]
    /\ resolved' = [resolved EXCEPT ![t] = 0]
    /\ LET old == [c \in Channel |-> [op \in {"RECV", "SEND"} |->
                      IF again THEN alts[c][op] ELSE Forget(alts[c][op], t)]]
       IN  alts' = AltAllEnqueue(t, arr, old)
    /\ running' = Main
    /\ UNCHANGED <<tasks_runnable, scheduling, status, buf, out>>

-----------------------------------------------------------------------------
(* The scheduler *)

Init ==
    /\ tasks_runnable = <<>>
    /\ running = Main
    /\ scheduling = FALSE
    /\ status = [t \in Task |-> "new"]
    /\ alt_array = [t \in Task |-> <<>>]
    /\ resolved = [t \in Task |-> 0]
    /\ buf = [c \in Channel |-> NewBuffer(Size[c])]
    /\ alts = [c \in Channel |-> [op \in {"RECV", "SEND"} |-> NewSet]]
    /\ sends = 0
    /\ out = [c \in Channel |-> <<>>]

Spawn(t) ==
    /\ running = Main => ~ scheduling
    /\ status[t] = "new"
    /\ status' = [status EXCEPT ![t] = "alive"]
    /\ tasks_runnable' = Append(tasks_runnable, t)
    /\ UNCHANGED <<running, scheduling, arrays, buf, alts, sends, out>>

\* The main thread runs a coroutine that it created itself.
CoroutineResume(t) ==
    /\ running = Main
    /\ ~ scheduling
    /\ status[t] = "new"
    /\ status' = [status EXCEPT ![t] = "alive"]
    /\ running' = t
    /\ UNCHANGED <<tasks_runnable, scheduling, arrays, buf, alts, sends, out>>

StartScheduler ==
    /\ running = Main
    /\ ~ scheduling
    /\ scheduling' = TRUE
    /\ UNCHANGED <<tasks_runnable, running, status, arrays, buf, alts, sends, out>>

\* Mutant: the task stays on the stack.
ResumeTop(keep) ==
    /\ running = Main
    /\ scheduling
    /\ tasks_runnable # <<>>
    /\ LET t == tasks_runnable[Len(tasks_runnable)]
       IN  /\ running' = t
           /\ alt_array' = [alt_array EXCEPT ![t] = <<>>]
           /\ resolved' = [resolved EXCEPT ![t] = 0]
    /\ UNCHANGED <<tasks_runnable, scheduling, status, buf, alts, sends, out>>

\* A task that returns from chanalt() drops its alt_array, unless it keeps it to
\* pass it again.
ResumeTask(keep) ==
    /\ running = Main
    /\ scheduling
    /\ tasks_runnable # <<>>
    /\ LET t == tasks_runnable[Len(tasks_runnable)]
       IN  /\ running' = t
           /\ IF keep THEN UNCHANGED <<arrays, alts>>
              ELSE /\ alt_array' = [alt_array EXCEPT ![t] = <<>>]
                   /\ resolved' = [resolved EXCEPT ![t] = 0]
                   /\ alts' = [c \in Channel |-> [op \in {"RECV", "SEND"} |->
                                  Forget(alts[c][op], t)]]
    /\ tasks_runnable' = SubSeq(tasks_runnable, 1, Len(tasks_runnable) - 1)
    /\ UNCHANGED <<scheduling, status, buf, sends, out>>

SchedulerReturns ==
    /\ running = Main
    /\ scheduling
    /\ tasks_runnable = <<>>
    /\ scheduling' = FALSE
    /\ UNCHANGED <<tasks_runnable, running, status, arrays, buf, alts, sends, out>>

\* The running task ends, or raises an error: the scheduler passes that on, and
\* leaves the tasks that are runnable to its next call.
End(fails) ==
    /\ running # Main
    /\ status' = [status EXCEPT ![running] = "dead"]
    /\ running' = Main
    /\ scheduling' = (scheduling /\ ~ fails)
    /\ UNCHANGED <<tasks_runnable, arrays, buf, alts, sends, out>>

Again == IF Reuse THEN BOOLEAN ELSE {FALSE}

Calls(t) ==
    \E again \in IF t = Main THEN {FALSE} ELSE Again :
        \E arr \in {WithMessage(a) : a \in AltArray} \cup
                   (IF again THEN {WithMessage(alt_array[t])} ELSE {}) :
            AltExec(t, arr, again) \/ AltBlock(t, arr, again)

Next ==
    \/ Calls(running)
    \/ \E t \in Task : Spawn(t)
    \/ \E t \in Task : CoroutineResume(t)
    \/ StartScheduler
    \/ \E keep \in Again : ResumeTask(keep)
    \/ SchedulerReturns
    \/ \E fails \in BOOLEAN : End(fails)

Spec == Init /\ [][Next]_vars

-----------------------------------------------------------------------------
(* Properties *)

\* What a buffer holds, oldest first.
Contents(c) == [k \in 1 .. BufLen(c) |-> buf[c].b[(buf[c].l + k - 1) % Slots(c)]]

stream == [c \in Channel |-> out[c] \o Contents(c)]

S == INSTANCE Streams

\* Messages leave each channel in the order they went in, none lost, repeated
\* or invented, and never more than its size behind: with senders waiting at a
\* full buffer, receivers at an empty one, and direct copies past it.
StreamsInOrder == S!Spec

\* "This will block current coroutine until it's possible to receive from
\* channel_1 or send to channel_2": no task waits for what could be done now,
\* through a buffer or with another task that waits.
NoMissedMatch ==
    \A t \in Task : Blocked(t) =>
        \A i \in DOMAIN alt_array[t] :
            LET alt == alt_array[t][i]
            IN  /\ alt.op = "SEND" => BufLen(alt.c) = Size[alt.c]
                /\ alt.op = "RECV" => BufLen(alt.c) = 0
                /\ alt.op # "NOP" =>
                      \A u \in Task \ {t} : Blocked(u) =>
                          \A j \in DOMAIN alt_array[u] :
                              alt_array[u][j].c = alt.c =>
                                  alt_array[u][j].op # Other(alt.op)

\* The Sets of a channel list the alts of the tasks that wait, each once and
\* where a says, however often members are removed from the middle.
SetsListBlocked ==
    \A c \in Channel, op \in {"RECV", "SEND"} :
        LET s == alts[c][op]
        IN  /\ {s.l[k] : k \in DOMAIN s.l} =
                  {v \in Alt : /\ Blocked(v[1])
                               /\ v[2] \in DOMAIN alt_array[v[1]]
                               /\ alt_array[v[1]][v[2]].c = c
                               /\ alt_array[v[1]][v[2]].op = op}
            /\ \A k \in DOMAIN s.l : s.a[s.l[k]] = k

\* A task is woken once, by one of its alts, however many could be executed:
\* it is on the stack once, is not running, and has not ended.
WokenOnce ==
    /\ \A i, j \in DOMAIN tasks_runnable : tasks_runnable[i] = tasks_runnable[j] => i = j
    /\ \A t \in Runnable :
          /\ status[t] = "alive"
          /\ t # running
          /\ alt_array[t] # <<>> => resolved[t] \in DOMAIN alt_array[t]
    /\ \A t \in Task : Blocked(t) => resolved[t] = 0
=============================================================================
