------------------------------ MODULE TaskProofs ------------------------------
(***************************************************************************)
(* The channels of task.lua for any tasks, channels, sizes and alt_arrays, *)
(* as long as no alt_array is passed twice (Reuse; MCTaskReuse shows what  *)
(* happens otherwise): no task waits for what could be done, a task is     *)
(* woken once, and messages stay in order.                                 *)
(***************************************************************************)
EXTENDS Task, SequenceTheorems, WellFoundedInduction, TLAPS

-----------------------------------------------------------------------------
(* Sets *)

Members(s) == {s.l[k] : k \in DOMAIN s.l}

\* a has the place of every member in l.
Indexed(s) ==
    /\ s \in [a : [Alt -> Nat], l : Seq(Alt)]
    /\ \A k \in DOMAIN s.l : s.a[s.l[k]] = k

LEMMA AddMember ==
    ASSUME NEW s, Indexed(s), NEW v \in Alt, s.a[v] = 0
    PROVE  /\ Indexed(Add(s, v))
           /\ Members(Add(s, v)) = Members(s) \cup {v}
           /\ \A w \in Alt : w # v => Add(s, v).a[w] = s.a[w]
  <1> DEFINE n == Len(s.l)
  <1>1. s.l \in Seq(Alt) /\ s.a \in [Alt -> Nat] /\ n \in Nat /\ DOMAIN s.l = 1 .. n
    BY DEF Indexed
  <1>2. Add(s, v).a = [s.a EXCEPT ![v] = n + 1] /\ Add(s, v).l = Append(s.l, v)
    BY DEF Add
  <1>3. ASSUME NEW k \in 1 .. n PROVE s.l[k] # v
    <2>1. s.a[s.l[k]] = k /\ k # 0
      BY <1>1 DEF Indexed
    <2>2. QED
      BY <2>1
  <1>4. /\ Append(s.l, v) \in Seq(Alt) /\ DOMAIN Append(s.l, v) = 1 .. n + 1
        /\ \A k \in 1 .. n : Append(s.l, v)[k] = s.l[k]
        /\ Append(s.l, v)[n + 1] = v
    BY <1>1
  <1>5. Add(s, v) \in [a : [Alt -> Nat], l : Seq(Alt)]
    BY <1>1, <1>4 DEF Add
  <1>6. \A k \in 1 .. n + 1 : Add(s, v).a[Append(s.l, v)[k]] = k
    <2> TAKE k \in 1 .. n + 1
    <2>1. CASE k = n + 1
      BY <2>1, <1>1, <1>2, <1>4
    <2>2. CASE k \in 1 .. n
      <3>1. Append(s.l, v)[k] = s.l[k] /\ s.l[k] # v /\ s.l[k] \in Alt
        BY <2>2, <1>1, <1>3, <1>4
      <3>2. QED
        BY <2>2, <3>1, <1>1, <1>2 DEF Indexed
    <2>3. QED
      BY <2>1, <2>2, <1>1
  <1>7. Indexed(Add(s, v))
    BY <1>2, <1>4, <1>5, <1>6 DEF Indexed
  <1>8. Members(Add(s, v)) = Members(s) \cup {v}
    <2>1. Members(Add(s, v)) = {Append(s.l, v)[k] : k \in 1 .. n + 1}
      BY <1>2, <1>4 DEF Members
    <2>2. Members(s) = {s.l[k] : k \in 1 .. n}
      BY <1>1 DEF Members
    <2>3. 1 .. n + 1 = (1 .. n) \cup {n + 1}
      BY <1>1
    <2>4. QED
      BY <2>1, <2>2, <2>3, <1>4
  <1>9. \A w \in Alt : w # v => Add(s, v).a[w] = s.a[w]
    BY <1>1, <1>2
  <1>10. QED
    BY <1>7, <1>8, <1>9

LEMMA RemoveMember ==
    ASSUME NEW s, Indexed(s), NEW v \in Members(s)
    PROVE  /\ Indexed(Remove(s, v))
           /\ Members(Remove(s, v)) = Members(s) \ {v}
  <1> DEFINE n == Len(s.l)
             i == s.a[v]
             last == s.l[n]
             r == Remove(s, v)
  <1>1. s.l \in Seq(Alt) /\ s.a \in [Alt -> Nat] /\ n \in Nat /\ DOMAIN s.l = 1 .. n
    BY DEF Indexed
  <1>2. i \in 1 .. n /\ s.l[i] = v
    BY <1>1 DEF Indexed, Members
  <1>3. \A j, k \in 1 .. n : s.l[j] = s.l[k] => j = k
    BY <1>1 DEF Indexed
  <1>4. last \in Alt /\ v \in Alt /\ n \in 1 .. n
    BY <1>1, <1>2
  <1>5. r.a = [s.a EXCEPT ![last] = i] /\ r.l = SubSeq([s.l EXCEPT ![i] = last], 1, n - 1)
    BY DEF Remove
  <1>6. /\ r.l \in Seq(Alt) /\ DOMAIN r.l = 1 .. n - 1
        /\ \A k \in 1 .. n - 1 : r.l[k] = IF k = i THEN last ELSE s.l[k]
    <2>1. [s.l EXCEPT ![i] = last] \in Seq(Alt) /\ Len([s.l EXCEPT ![i] = last]) = n
      BY <1>1, <1>2, <1>4
    <2>2. ASSUME NEW e \in Seq(Alt), Len(e) = n
          PROVE  /\ SubSeq(e, 1, n - 1) \in Seq(Alt) /\ DOMAIN SubSeq(e, 1, n - 1) = 1 .. n - 1
                 /\ \A k \in 1 .. n - 1 : SubSeq(e, 1, n - 1)[k] = e[k]
      BY <1>4, <2>2
    <2>3. \A k \in 1 .. n - 1 : [s.l EXCEPT ![i] = last][k] = IF k = i THEN last ELSE s.l[k]
      BY <1>1
    <2>4. QED
      BY <1>5, <2>1, <2>2, <2>3
  <1>7. r \in [a : [Alt -> Nat], l : Seq(Alt)]
    BY <1>1, <1>2, <1>4, <1>5, <1>6 DEF Remove
  <1>8. \A k \in 1 .. n - 1 : r.a[r.l[k]] = k
    <2> TAKE k \in 1 .. n - 1
    <2>1. CASE k = i
      BY <2>1, <1>1, <1>4, <1>5, <1>6
    <2>2. CASE k # i
      <3>1. k \in 1 .. n /\ k # n /\ r.l[k] = s.l[k]
        BY <2>2, <1>1, <1>6
      <3>2. s.l[k] # last /\ s.l[k] \in Alt
        BY <3>1, <1>1, <1>3, <1>4
      <3>3. s.a[s.l[k]] = k
        BY <3>1, <1>1 DEF Indexed
      <3>4. QED
        BY <3>1, <3>2, <3>3, <1>1, <1>4, <1>5
    <2>3. QED
      BY <2>1, <2>2
  <1>9. Indexed(r)
    <2> HIDE DEF r
    <2>1. QED
      BY <1>6, <1>7, <1>8 DEF Indexed
  <1>10. Members(r) = Members(s) \ {v}
    <2>1. Members(r) = {r.l[k] : k \in 1 .. n - 1} /\ Members(s) = {s.l[k] : k \in 1 .. n}
      BY <1>1, <1>6 DEF Members
    <2> HIDE DEF r
    <2>2. ASSUME NEW k \in 1 .. n - 1 PROVE r.l[k] \in Members(s) \ {v}
      <3>1. CASE k = i
        <4>1. r.l[k] = s.l[n]
          BY <3>1, <1>6
        <4>a. n # i
          BY <3>1, <1>1
        <4>2. s.l[n] # s.l[i]
          BY <4>a, <1>2, <1>3, <1>4
        <4>3. QED
          BY <4>1, <4>2, <1>2, <1>4, <2>1
      <3>2. CASE k # i
        <4>1. r.l[k] = s.l[k] /\ k \in 1 .. n
          BY <3>2, <1>1, <1>6
        <4>2. s.l[k] # s.l[i]
          BY <4>1, <3>2, <1>2, <1>3
        <4>3. QED
          BY <4>1, <4>2, <1>2, <2>1
      <3>3. QED
        BY <3>1, <3>2
    <2>3. ASSUME NEW k \in 1 .. n, s.l[k] # v PROVE s.l[k] \in Members(r)
      <3>1. k # i
        BY <2>3, <1>2
      <3>2. CASE k = n
        <4>1. i \in 1 .. n - 1
          BY <3>1, <3>2, <1>1, <1>2
        <4>2. r.l[i] = s.l[k]
          BY <4>1, <3>2, <1>6
        <4>3. QED
          BY <4>1, <4>2, <2>1
      <3>3. CASE k # n
        <4>1. k \in 1 .. n - 1
          BY <3>3, <1>1
        <4>2. r.l[k] = s.l[k]
          BY <4>1, <3>1, <1>6
        <4>3. QED
          BY <4>1, <4>2, <2>1
      <3>4. QED
        BY <3>2, <3>3
    <2>4. QED
      BY <2>1, <2>2, <2>3
  <1>11. QED
    BY <1>9, <1>10

\* A task that is not a member leaves nothing behind.
LEMMA ForgetTask ==
    ASSUME NEW s, Indexed(s), NEW t \in Task, \A v \in Members(s) : v[1] # t
    PROVE  /\ Indexed(Forget(s, t))
           /\ Members(Forget(s, t)) = Members(s)
           /\ \A v \in Alt : v[1] = t => Forget(s, t).a[v] = 0
  <1>1. s \in [a : [Alt -> Nat], l : Seq(Alt)]
    BY DEF Indexed
  <1>2. /\ Forget(s, t).l = s.l
        /\ Forget(s, t).a = [v \in Alt |-> IF v[1] = t THEN 0 ELSE s.a[v]]
        /\ Forget(s, t) \in [a : [Alt -> Nat], l : Seq(Alt)]
    BY <1>1 DEF Forget
  <1>3. \A k \in DOMAIN s.l : s.l[k] \in Alt /\ s.l[k][1] # t
    BY <1>1 DEF Members
  <1>4. QED
    BY <1>1, <1>2, <1>3 DEF Indexed, Members

-----------------------------------------------------------------------------
(* CircularBuffer *)

\* What the buffer q of a channel c holds, oldest first.
Held(q, c) == [k \in 1 .. ((q.r - q.l) % Slots(c)) |-> q.b[(q.l + k - 1) % Slots(c)]]

\* The indices without remainders: the next slot, the slots from l up to r, and
\* the k-th slot from l.
After(i, n) == IF i + 1 < n THEN i + 1 ELSE 0
Gap(l, r, n) == IF l <= r THEN r - l ELSE r - l + n
At(l, k, n) == IF l + k - 1 < n THEN l + k - 1 ELSE l + k - 1 - n

LEMMA Remainder ==
    ASSUME NEW n \in Nat \ {0}, NEW x \in 0 .. n - 1
    PROVE  x % n = x /\ (x + n) % n = x /\ (x - n) % n = x
  OBVIOUS

LEMMA AtIs ==
    ASSUME NEW n \in Nat \ {0}, NEW l \in 0 .. n - 1, NEW k \in 1 .. n
    PROVE  (l + k - 1) % n = At(l, k, n) /\ At(l, k, n) \in 0 .. n - 1
  <1>1. CASE l + k - 1 < n
    BY <1>1, Remainder DEF At
  <1>2. CASE ~ (l + k - 1 < n)
    <2>1. l + k - 1 - n \in 0 .. n - 1 /\ (l + k - 1 - n) + n = l + k - 1
      BY <1>2
    <2>2. QED
      BY <2>1, <1>2, Remainder DEF At
  <1>3. QED
    BY <1>1, <1>2

LEMMA GapIs ==
    ASSUME NEW n \in Nat \ {0}, NEW l \in 0 .. n - 1, NEW r \in 0 .. n - 1
    PROVE  (r - l) % n = Gap(l, r, n) /\ Gap(l, r, n) \in 0 .. n - 1
  <1>1. CASE l <= r
    BY <1>1, Remainder DEF Gap
  <1>2. CASE ~ (l <= r)
    <2>1. r - l + n \in 0 .. n - 1 /\ (r - l + n) - n = r - l
      BY <1>2
    <2>2. QED
      BY <2>1, <1>2, Remainder DEF Gap
  <1>3. QED
    BY <1>1, <1>2

LEMMA AfterIs ==
    ASSUME NEW n \in Nat \ {0}, NEW i \in 0 .. n - 1
    PROVE  (i + 1) % n = After(i, n) /\ After(i, n) \in 0 .. n - 1
  <1>1. CASE i + 1 < n
    BY <1>1, Remainder DEF After
  <1>2. CASE ~ (i + 1 < n)
    <2>1. 0 \in 0 .. n - 1 /\ i + 1 = 0 + n
      BY <1>2
    <2>2. QED
      BY <2>1, <1>2, Remainder DEF After
  <1>3. QED
    BY <1>1, <1>2

LEMMA GapBefore ==
    ASSUME NEW n \in Nat \ {0}, NEW l \in 0 .. n - 1, NEW r \in 0 .. n - 1, Gap(l, r, n) # 0
    PROVE  Gap(After(l, n), r, n) = Gap(l, r, n) - 1
  BY DEF After, Gap

LEMMA GapAfter ==
    ASSUME NEW n \in Nat \ {0}, NEW l \in 0 .. n - 1, NEW r \in 0 .. n - 1, Gap(l, r, n) < n - 1
    PROVE  Gap(l, After(r, n), n) = Gap(l, r, n) + 1
  BY DEF After, Gap

LEMMA AtNext ==
    ASSUME NEW n \in Nat \ {0}, NEW l \in 0 .. n - 1, NEW k \in 1 .. n - 1
    PROVE  At(After(l, n), k, n) = At(l, k + 1, n)
  BY DEF After, At

LEMMA AtFirst ==
    ASSUME NEW n \in Nat \ {0}, NEW l \in 0 .. n - 1
    PROVE  At(l, 1, n) = l
  BY DEF At

LEMMA AtEnd ==
    ASSUME NEW n \in Nat \ {0}, NEW l \in 0 .. n - 1, NEW r \in 0 .. n - 1
    PROVE  /\ At(l, Gap(l, r, n) + 1, n) = r
           /\ \A k \in 1 .. Gap(l, r, n) : At(l, k, n) # r
  BY DEF Gap, At

\* Held without remainders.
LEMMA HeldIs ==
    ASSUME NEW c \in Channel, NEW q \in Buffer(c)
    PROVE  /\ Slots(c) = Size[c] + 1 /\ Size[c] \in Nat /\ Slots(c) \in Nat \ {0}
           /\ q.l \in 0 .. Slots(c) - 1 /\ q.r \in 0 .. Slots(c) - 1
           /\ q.b \in [0 .. Slots(c) - 1 -> Message \cup {NoMessage}]
           /\ (q.r - q.l) % Slots(c) = Gap(q.l, q.r, Slots(c))
           /\ Gap(q.l, q.r, Slots(c)) \in 0 .. Size[c]
           /\ Held(q, c) = [k \in 1 .. Gap(q.l, q.r, Slots(c)) |-> q.b[At(q.l, k, Slots(c))]]
           /\ Held(q, c) \in Seq(Message \cup {NoMessage})
           /\ Len(Held(q, c)) = Gap(q.l, q.r, Slots(c))
  <1> DEFINE n == Slots(c)
             len == Gap(q.l, q.r, n)
  <1>1. n = Size[c] + 1 /\ Size[c] \in Nat /\ n \in Nat \ {0}
    BY TaskAssumption DEF Slots
  <1>2. /\ q.l \in 0 .. n - 1 /\ q.r \in 0 .. n - 1
        /\ q.b \in [0 .. n - 1 -> Message \cup {NoMessage}]
    BY <1>1 DEF Buffer
  <1> HIDE DEF n
  <1>3. (q.r - q.l) % n = len /\ len \in 0 .. n - 1
    BY <1>1, <1>2, GapIs
  <1> HIDE DEF len
  <1>4. Held(q, c) = [k \in 1 .. len |-> q.b[(q.l + k - 1) % n]]
    BY <1>3 DEF Held, n
  <1>5. ASSUME NEW k \in 1 .. len
        PROVE  (q.l + k - 1) % n = At(q.l, k, n)
    <2>1. k \in 1 .. n
      BY <1>1, <1>3
    <2>2. QED
      BY <2>1, <1>1, <1>2, AtIs
  <1>6. Held(q, c) = [k \in 1 .. len |-> q.b[At(q.l, k, n)]]
    BY <1>4, <1>5
  <1>7. \A k \in 1 .. len : q.b[At(q.l, k, n)] \in Message \cup {NoMessage}
    <2> TAKE k \in 1 .. len
    <2>1. k \in 1 .. n
      BY <1>1, <1>3
    <2>2. At(q.l, k, n) \in 0 .. n - 1
      BY <2>1, <1>1, <1>2, AtIs
    <2>3. QED
      BY <2>2, <1>2
  <1>8. Held(q, c) \in Seq(Message \cup {NoMessage}) /\ Len(Held(q, c)) = len
    BY <1>1, <1>3, <1>6, <1>7
  <1>9. QED
    BY <1>1, <1>2, <1>3, <1>6, <1>8 DEF n, len

LEMMA PopHeld ==
    ASSUME NEW c \in Channel, NEW q \in Buffer(c), Held(q, c) # <<>>
    PROVE  /\ Pop(q, c) \in Buffer(c)
           /\ Head(Held(q, c)) = q.b[q.l]
           /\ Held(Pop(q, c), c) = Tail(Held(q, c))
  <1> DEFINE n == Slots(c)
             p == Pop(q, c)
             len == Gap(q.l, q.r, n)
  <1>1. /\ n = Size[c] + 1 /\ Size[c] \in Nat /\ n \in Nat \ {0}
        /\ q.l \in 0 .. n - 1 /\ q.r \in 0 .. n - 1
        /\ len \in 0 .. Size[c] /\ Len(Held(q, c)) = len
        /\ Held(q, c) = [k \in 1 .. len |-> q.b[At(q.l, k, n)]]
        /\ Held(q, c) \in Seq(Message \cup {NoMessage})
    BY HeldIs
  <1>2. p.b = q.b /\ p.r = q.r /\ p.l = After(q.l, n) /\ p \in Buffer(c)
    <2>1. (q.l + 1) % n = After(q.l, n) /\ After(q.l, n) \in 0 .. n - 1
      BY <1>1, AfterIs
    <2>2. After(q.l, n) \in 0 .. Size[c]
      <3> HIDE DEF n
      <3>1. QED
        BY <2>1, <1>1
    <2>3. QED
      BY <2>1, <2>2 DEF Pop, Buffer
  <1>3. Held(p, c) = [k \in 1 .. Gap(p.l, p.r, n) |-> p.b[At(p.l, k, n)]]
    BY <1>2, HeldIs
  <1> HIDE DEF n, p, len
  <1>4. len \in 1 .. n - 1
    BY <1>1
  <1>5. Gap(p.l, p.r, n) = len - 1 /\ \A k \in 1 .. len - 1 : At(p.l, k, n) = At(q.l, k + 1, n)
    <2>1. Gap(After(q.l, n), q.r, n) = len - 1
      BY <1>1, <1>4, GapBefore DEF len
    <2>2. \A k \in 1 .. n - 1 : At(After(q.l, n), k, n) = At(q.l, k + 1, n)
      BY <1>1, AtNext
    <2>3. QED
      BY <2>1, <2>2, <1>1, <1>2, <1>4
  <1>6. Head(Held(q, c)) = q.b[q.l]
    <2>1. At(q.l, 1, n) = q.l /\ 1 \in 1 .. len
      BY <1>1, <1>4, AtFirst
    <2>2. QED
      BY <2>1, <1>1
  <1>7. Tail(Held(q, c)) = [k \in 1 .. len - 1 |-> q.b[At(q.l, k + 1, n)]]
    <2>1. Tail(Held(q, c)) = [k \in 1 .. len - 1 |-> Held(q, c)[k + 1]]
      BY <1>1, <1>4
    <2>2. \A k \in 1 .. len - 1 : Held(q, c)[k + 1] = q.b[At(q.l, k + 1, n)]
      BY <1>1, <1>4
    <2>3. QED
      BY <2>1, <2>2
  <1>8. Held(p, c) = Tail(Held(q, c))
    BY <1>2, <1>3, <1>5, <1>7
  <1>9. QED
    BY <1>2, <1>6, <1>8 DEF p

LEMMA PushHeld ==
    ASSUME NEW c \in Channel, NEW q \in Buffer(c), Len(Held(q, c)) < Size[c],
           NEW m \in Message
    PROVE  /\ Push(q, c, m) \in Buffer(c)
           /\ Held(Push(q, c, m), c) = Append(Held(q, c), m)
  <1> DEFINE n == Slots(c)
             p == Push(q, c, m)
             len == Gap(q.l, q.r, n)
  <1>1. /\ n = Size[c] + 1 /\ Size[c] \in Nat /\ n \in Nat \ {0}
        /\ q.l \in 0 .. n - 1 /\ q.r \in 0 .. n - 1
        /\ q.b \in [0 .. n - 1 -> Message \cup {NoMessage}]
        /\ len \in 0 .. Size[c] /\ Len(Held(q, c)) = len
        /\ Held(q, c) = [k \in 1 .. len |-> q.b[At(q.l, k, n)]]
        /\ Held(q, c) \in Seq(Message \cup {NoMessage})
    BY HeldIs
  <1>2. /\ p.b = [q.b EXCEPT ![q.r] = m] /\ p.l = q.l /\ p.r = After(q.r, n)
        /\ p \in Buffer(c)
    <2>1. (q.r + 1) % n = After(q.r, n) /\ After(q.r, n) \in 0 .. n - 1
      BY <1>1, AfterIs
    <2>2. After(q.r, n) \in 0 .. Size[c]
      <3> HIDE DEF n
      <3>1. QED
        BY <2>1, <1>1
    <2>3. QED
      BY <2>1, <2>2 DEF Push, Buffer
  <1>3. Held(p, c) = [k \in 1 .. Gap(p.l, p.r, n) |-> p.b[At(p.l, k, n)]]
    BY <1>2, HeldIs
  <1>0. Held(p, c) \in Seq(Message \cup {NoMessage}) /\ Len(Held(p, c)) = Gap(p.l, p.r, n)
    BY <1>2, HeldIs
  <1> HIDE DEF n, p, len
  <1>4. len < n - 1 /\ len \in Nat
    BY <1>1
  <1>5. /\ Gap(p.l, p.r, n) = len + 1 /\ At(q.l, len + 1, n) = q.r
        /\ \A k \in 1 .. len : At(q.l, k, n) # q.r /\ At(q.l, k, n) \in 0 .. n - 1
    <2>1. Gap(q.l, After(q.r, n), n) = len + 1
      BY <1>1, <1>4, GapAfter DEF len
    <2>2. At(q.l, len + 1, n) = q.r /\ \A k \in 1 .. len : At(q.l, k, n) # q.r
      BY <1>1, AtEnd DEF len
    <2>3. \A k \in 1 .. n : At(q.l, k, n) \in 0 .. n - 1
      BY <1>1, AtIs
    <2>4. QED
      BY <2>1, <2>2, <2>3, <1>1, <1>2, <1>4
  <1>6. /\ Append(Held(q, c), m) \in Seq(Message \cup {NoMessage})
        /\ Len(Append(Held(q, c), m)) = len + 1
        /\ Append(Held(q, c), m)[len + 1] = m
        /\ \A k \in 1 .. len : Append(Held(q, c), m)[k] = Held(q, c)[k]
    BY <1>1
  <1>7. ASSUME NEW k \in 1 .. len + 1
        PROVE  Held(p, c)[k] = Append(Held(q, c), m)[k]
    <2>1. Held(p, c)[k] = p.b[At(q.l, k, n)]
      BY <1>2, <1>3, <1>5
    <2>2. CASE k = len + 1
      BY <2>1, <2>2, <1>1, <1>2, <1>5, <1>6
    <2>3. CASE k # len + 1
      <3>1. k \in 1 .. len
        BY <2>3, <1>4
      <3>2. p.b[At(q.l, k, n)] = q.b[At(q.l, k, n)]
        BY <3>1, <1>1, <1>2, <1>5
      <3>3. QED
        BY <2>1, <3>1, <3>2, <1>1, <1>6
    <2>4. QED
      BY <2>2, <2>3
  <1>8. Held(p, c) = Append(Held(q, c), m)
    BY <1>0, <1>5, <1>6, <1>7, SeqEqual
  <1>9. QED
    BY <1>2, <1>8 DEF p

-----------------------------------------------------------------------------
(* altalldequeue() and the loop of chanalt() that enqueues: what they do   *)
(* for the n-th alt, and all of them.                                      *)

LEMMA LeastElement ==
    ASSUME NEW T \in SUBSET Nat, T # {}
    PROVE  \E x \in T : \A y \in T : x <= y
  <1> DEFINE R == {ss \in Nat \X Nat : ss[1] < ss[2]}
  <1>1. IsWellFoundedOn(R, Nat)
    BY NatLessThanWellFounded DEF OpToRel
  <1>2. \A x, y \in Nat : <<y, x>> \in R <=> y < x
    OBVIOUS
  <1> HIDE DEF R
  <1>3. PICK x \in T : \A y \in T : ~ (<<y, x>> \in R)
    BY <1>1, WFMin
  <1>4. ASSUME NEW y \in T PROVE x <= y
    <2>1. ~ (y < x)
      BY <1>2, <1>3, Zenon
    <2>2. x \in Nat /\ y \in Nat
      OBVIOUS
    <2>3. QED
      BY <2>1, <2>2
  <1>5. QED
    BY <1>4

Stepped(t, arr, n, a, adding) ==
    IF arr[n].op = "NOP" THEN a
    ELSE IF adding THEN [a EXCEPT ![arr[n].c][arr[n].op] = Add(@, <<t, n>>)]
    ELSE [a EXCEPT ![arr[n].c][arr[n].op] = Remove(@, <<t, n>>)]

IsLoop(t, arr, adding, first, m, f) ==
    f = [n \in 0 .. m |-> IF n = 0 THEN first ELSE Stepped(t, arr, n, f[n - 1], adding)]

LEMMA LoopExists ==
    ASSUME NEW t, NEW arr, NEW adding \in BOOLEAN, NEW first, NEW m \in Nat
    PROVE  \E f : IsLoop(t, arr, adding, first, m, f)
  <1> DEFINE T == {k \in Nat : ~ \E f : IsLoop(t, arr, adding, first, k, f)}
  <1>1. SUFFICES ASSUME T # {} PROVE FALSE
    OBVIOUS
  <1>2. T \in SUBSET Nat
    OBVIOUS
  <1> HIDE DEF T
  <1>3. PICK k \in T : \A y \in T : k <= y
    BY <1>1, <1>2, LeastElement
  <1>4. k \in Nat /\ ~ \E f : IsLoop(t, arr, adding, first, k, f)
    BY <1>3 DEF T
  <1>5. CASE k = 0
    <2>1. IsLoop(t, arr, adding, first, 0, [n \in 0 .. 0 |-> first])
      BY DEF IsLoop
    <2>2. QED
      BY <1>4, <1>5, <2>1
  <1>6. CASE k # 0
    <2>1. k - 1 \in Nat /\ k - 1 \notin T
      <3>1. k - 1 \in Nat /\ ~ (k <= k - 1)
        BY <1>4, <1>6
      <3>2. QED
        BY <3>1, <1>3
    <2>2. PICK f : IsLoop(t, arr, adding, first, k - 1, f)
      BY <2>1 DEF T
    <2> DEFINE g == [n \in 0 .. k |-> IF n = k THEN Stepped(t, arr, k, f[k - 1], adding) ELSE f[n]]
    <2>3. \A n \in 0 .. k - 1 : f[n] = IF n = 0 THEN first ELSE Stepped(t, arr, n, f[n - 1], adding)
      BY <2>2 DEF IsLoop
    <2>4. ASSUME NEW n \in 0 .. k
          PROVE  g[n] = IF n = 0 THEN first ELSE Stepped(t, arr, n, g[n - 1], adding)
      <3>1. CASE n = 0
        BY <3>1, <2>3, <1>4, <1>6
      <3>2. CASE n # 0
        <4>1. g[n - 1] = f[n - 1] /\ n - 1 \in 0 .. k - 1
          BY <3>2, <1>4
        <4>2. CASE n = k
          BY <4>1, <4>2, <3>2
        <4>3. CASE n # k
          <5>1. n \in 0 .. k - 1 /\ g[n] = f[n]
            BY <4>3, <1>4
          <5>2. QED
            BY <5>1, <4>1, <2>3, <3>2
        <4>4. QED
          BY <4>2, <4>3
      <3>3. QED
        BY <3>1, <3>2
    <2>5. IsLoop(t, arr, adding, first, k, g)
      <3>1. g = [n \in 0 .. k |-> g[n]]
        OBVIOUS
      <3> HIDE DEF g
      <3>2. QED
        BY <3>1, <2>4 DEF IsLoop
    <2>6. QED
      BY <2>5, <1>4
  <1>7. QED
    BY <1>5, <1>6

LEMMA DequeueIsLoop ==
    ASSUME NEW t, Len(alt_array[t]) \in Nat
    PROVE  \E f : /\ IsLoop(t, alt_array[t], FALSE, alts, Len(alt_array[t]), f)
                  /\ AltAllDequeue(t) = f[Len(alt_array[t])]
  <1> DEFINE arr == alt_array[t]
             g == CHOOSE f : f = [n \in 0 .. Len(arr) |->
                     IF n = 0 THEN alts
                     ELSE IF arr[n].op = "NOP" THEN f[n - 1]
                     ELSE [f[n - 1] EXCEPT ![arr[n].c][arr[n].op] = Remove(@, <<t, n>>)]]
  <1>1. PICK f : IsLoop(t, arr, FALSE, alts, Len(arr), f)
    BY LoopExists
  <1>2. f = [n \in 0 .. Len(arr) |->
               IF n = 0 THEN alts
               ELSE IF arr[n].op = "NOP" THEN f[n - 1]
               ELSE [f[n - 1] EXCEPT ![arr[n].c][arr[n].op] = Remove(@, <<t, n>>)]]
    BY <1>1 DEF IsLoop, Stepped
  <1>3. g = [n \in 0 .. Len(arr) |->
               IF n = 0 THEN alts
               ELSE IF arr[n].op = "NOP" THEN g[n - 1]
               ELSE [g[n - 1] EXCEPT ![arr[n].c][arr[n].op] = Remove(@, <<t, n>>)]]
    BY <1>2
  <1>4. AltAllDequeue(t) = g[Len(arr)]
    BY DEF AltAllDequeue
  <1> HIDE DEF g
  <1>5. IsLoop(t, arr, FALSE, alts, Len(arr), g)
    BY <1>3 DEF IsLoop, Stepped
  <1>6. QED
    BY <1>4, <1>5

LEMMA EnqueueIsLoop ==
    ASSUME NEW t, NEW arr, NEW old, Len(arr) \in Nat
    PROVE  \E f : /\ IsLoop(t, arr, TRUE, old, Len(arr), f)
                  /\ AltAllEnqueue(t, arr, old) = f[Len(arr)]
  <1> DEFINE g == CHOOSE f : f = [n \in 0 .. Len(arr) |->
                     IF n = 0 THEN old
                     ELSE IF arr[n].op = "NOP" THEN f[n - 1]
                     ELSE [f[n - 1] EXCEPT ![arr[n].c][arr[n].op] = Add(@, <<t, n>>)]]
  <1>1. PICK f : IsLoop(t, arr, TRUE, old, Len(arr), f)
    BY LoopExists
  <1>2. f = [n \in 0 .. Len(arr) |->
               IF n = 0 THEN old
               ELSE IF arr[n].op = "NOP" THEN f[n - 1]
               ELSE [f[n - 1] EXCEPT ![arr[n].c][arr[n].op] = Add(@, <<t, n>>)]]
    BY <1>1 DEF IsLoop, Stepped
  <1>3. g = [n \in 0 .. Len(arr) |->
               IF n = 0 THEN old
               ELSE IF arr[n].op = "NOP" THEN g[n - 1]
               ELSE [g[n - 1] EXCEPT ![arr[n].c][arr[n].op] = Add(@, <<t, n>>)]]
    BY <1>2
  <1>4. AltAllEnqueue(t, arr, old) = g[Len(arr)]
    BY DEF AltAllEnqueue
  <1> HIDE DEF g
  <1>5. IsLoop(t, arr, TRUE, old, Len(arr), g)
    BY <1>3 DEF IsLoop, Stepped
  <1>6. QED
    BY <1>4, <1>5

Ops == {"RECV", "SEND"}

AllIndexed(a) ==
    /\ a \in [Channel -> [Ops -> [a : [Alt -> Nat], l : Seq(Alt)]]]
    /\ \A c \in Channel, op \in Ops : Indexed(a[c][op])

\* The n-th alt of arr is one for the Set of c and op.
ForSet(arr, n, c, op) == arr[n].c = c /\ arr[n].op = op

Shape == Seq([c : Channel, op : Op, p : Message \cup {NoMessage}])

LEMMA OneSetChanges ==
    ASSUME NEW a, AllIndexed(a), NEW c \in Channel, NEW op \in Ops, NEW s, Indexed(s)
    PROVE  /\ AllIndexed([a EXCEPT ![c][op] = s])
           /\ \A d \in Channel, o \in Ops :
                 [a EXCEPT ![c][op] = s][d][o] = IF d = c /\ o = op THEN s ELSE a[d][o]
  <1> DEFINE b == [a EXCEPT ![c][op] = s]
  <1>1. s \in [a : [Alt -> Nat], l : Seq(Alt)]
    BY DEF Indexed
  <1>2. \A d \in Channel, o \in Ops : b[d][o] = IF d = c /\ o = op THEN s ELSE a[d][o]
    BY DEF AllIndexed
  <1>3. b \in [Channel -> [Ops -> [a : [Alt -> Nat], l : Seq(Alt)]]]
    BY <1>1 DEF AllIndexed
  <1>4. QED
    BY <1>2, <1>3 DEF AllIndexed

\* The n-th alt of t is where chanalt() has put it, and is nowhere.
Listed(a, t, arr, n) ==
    \A c \in Channel, op \in Ops : <<t, n>> \in Members(a[c][op]) <=> ForSet(arr, n, c, op)
Unlisted(a, t, n) == \A c \in Channel, op \in Ops : a[c][op].a[<<t, n>>] = 0

\* b is a without the n-th alt of t, or with it.
Without(a, b, t, n) ==
    /\ AllIndexed(b)
    /\ \A c \in Channel, op \in Ops : Members(b[c][op]) = Members(a[c][op]) \ {<<t, n>>}
With(a, b, t, arr, n) ==
    /\ AllIndexed(b)
    /\ \A c \in Channel, op \in Ops :
          /\ Members(b[c][op])
                = Members(a[c][op]) \cup (IF ForSet(arr, n, c, op) THEN {<<t, n>>} ELSE {})
          /\ \A w \in Alt : w # <<t, n>> => b[c][op].a[w] = a[c][op].a[w]

LEMMA DequeueOne ==
    ASSUME NEW a, AllIndexed(a), NEW t \in Task, NEW arr \in Shape, Len(arr) <= MaxAlts,
           NEW n \in 1 .. Len(arr), Listed(a, t, arr, n)
    PROVE  Without(a, Stepped(t, arr, n, a, FALSE), t, n)
  <1>1. arr[n].c \in Channel /\ arr[n].op \in Op
    <2>1. arr[n] \in [c : Channel, op : Op, p : Message \cup {NoMessage}]
      BY ElementOfSeq DEF Shape
    <2>2. QED
      BY <2>1
  <1>2. CASE arr[n].op = "NOP"
    <2>1. \A c \in Channel, op \in Ops : <<t, n>> \notin Members(a[c][op])
      BY <1>2 DEF Listed, ForSet, Ops
    <2>2. Stepped(t, arr, n, a, FALSE) = a
      BY <1>2 DEF Stepped
    <2>3. QED
      BY <2>1, <2>2 DEF Without
  <1>3. CASE arr[n].op # "NOP"
    <2> DEFINE d == arr[n].c
               o == arr[n].op
               s == a[d][o]
    <2>1. d \in Channel /\ o \in Ops
      BY <1>1, <1>3 DEF Op, Ops
    <2>2. Indexed(s) /\ <<t, n>> \in Members(s)
      BY <2>1 DEF AllIndexed, Listed, ForSet
    <2>3. Indexed(Remove(s, <<t, n>>)) /\ Members(Remove(s, <<t, n>>)) = Members(s) \ {<<t, n>>}
      BY <2>2, RemoveMember
    <2>4. Stepped(t, arr, n, a, FALSE) = [a EXCEPT ![d][o] = Remove(s, <<t, n>>)]
      BY <1>3, <2>1 DEF Stepped, AllIndexed
    <2> DEFINE r == Remove(s, <<t, n>>)
    <2> HIDE DEF d, o, s
    <2>5. /\ AllIndexed(Stepped(t, arr, n, a, FALSE))
          /\ \A c \in Channel, op \in Ops :
               Stepped(t, arr, n, a, FALSE)[c][op] = IF c = d /\ op = o THEN r ELSE a[c][op]
      <3>1. Indexed(r) /\ Stepped(t, arr, n, a, FALSE) = [a EXCEPT ![d][o] = r]
        BY <2>3, <2>4
      <3> HIDE DEF r
      <3>2. /\ AllIndexed([a EXCEPT ![d][o] = r])
            /\ \A c \in Channel, op \in Ops :
                 [a EXCEPT ![d][o] = r][c][op] = IF c = d /\ op = o THEN r ELSE a[c][op]
        BY <3>1, <2>1, OneSetChanges
      <3>3. QED
        BY <3>1, <3>2
    <2>6. ASSUME NEW c \in Channel, NEW op \in Ops
          PROVE  Members(Stepped(t, arr, n, a, FALSE)[c][op]) = Members(a[c][op]) \ {<<t, n>>}
      <3>1. CASE c = d /\ op = o
        BY <3>1, <2>3, <2>5 DEF s
      <3>2. CASE ~ (c = d /\ op = o)
        <4>1. <<t, n>> \notin Members(a[c][op])
          BY <3>2 DEF Listed, ForSet, d, o
        <4>2. QED
          BY <3>2, <4>1, <2>5
      <3>3. QED
        BY <3>1, <3>2
    <2>7. QED
      BY <2>5, <2>6 DEF Without
  <1>4. QED
    BY <1>2, <1>3

LEMMA EnqueueOne ==
    ASSUME NEW a, AllIndexed(a), NEW t \in Task, NEW arr \in Shape, Len(arr) <= MaxAlts,
           NEW n \in 1 .. Len(arr), Unlisted(a, t, n)
    PROVE  With(a, Stepped(t, arr, n, a, TRUE), t, arr, n)
  <1>1. arr[n].c \in Channel /\ arr[n].op \in Op
    <2>1. arr[n] \in [c : Channel, op : Op, p : Message \cup {NoMessage}]
      BY ElementOfSeq DEF Shape
    <2>2. QED
      BY <2>1
  <1>2. CASE arr[n].op = "NOP"
    BY <1>2 DEF Stepped, ForSet, Ops, With
  <1>3. CASE arr[n].op # "NOP"
    <2> DEFINE d == arr[n].c
               o == arr[n].op
               s == a[d][o]
    <2>0. <<t, n>> \in Alt
      BY TaskAssumption DEF Alt, Shape
    <2>1. d \in Channel /\ o \in Ops
      BY <1>1, <1>3 DEF Op, Ops
    <2>2. Indexed(s) /\ s.a[<<t, n>>] = 0
      BY <2>1 DEF AllIndexed, Unlisted
    <2>3. /\ Indexed(Add(s, <<t, n>>)) /\ Members(Add(s, <<t, n>>)) = Members(s) \cup {<<t, n>>}
          /\ \A w \in Alt : w # <<t, n>> => Add(s, <<t, n>>).a[w] = s.a[w]
      BY <2>0, <2>2, AddMember
    <2>4. Stepped(t, arr, n, a, TRUE) = [a EXCEPT ![d][o] = Add(s, <<t, n>>)]
      BY <1>3, <2>1 DEF Stepped, AllIndexed
    <2> DEFINE r == Add(s, <<t, n>>)
    <2> HIDE DEF d, o, s
    <2>5. /\ AllIndexed(Stepped(t, arr, n, a, TRUE))
          /\ \A c \in Channel, op \in Ops :
               Stepped(t, arr, n, a, TRUE)[c][op] = IF c = d /\ op = o THEN r ELSE a[c][op]
      <3>1. Indexed(r) /\ Stepped(t, arr, n, a, TRUE) = [a EXCEPT ![d][o] = r]
        BY <2>3, <2>4
      <3> HIDE DEF r
      <3>2. /\ AllIndexed([a EXCEPT ![d][o] = r])
            /\ \A c \in Channel, op \in Ops :
                 [a EXCEPT ![d][o] = r][c][op] = IF c = d /\ op = o THEN r ELSE a[c][op]
        BY <3>1, <2>1, OneSetChanges
      <3>3. QED
        BY <3>1, <3>2
    <2>6. ASSUME NEW c \in Channel, NEW op \in Ops
          PROVE  /\ Members(Stepped(t, arr, n, a, TRUE)[c][op])
                       = Members(a[c][op]) \cup (IF ForSet(arr, n, c, op) THEN {<<t, n>>} ELSE {})
                 /\ \A w \in Alt : w # <<t, n>> =>
                       Stepped(t, arr, n, a, TRUE)[c][op].a[w] = a[c][op].a[w]
      <3>1. CASE c = d /\ op = o
        BY <3>1, <2>3, <2>5 DEF s, ForSet, d, o
      <3>2. CASE ~ (c = d /\ op = o)
        <4>1. ~ ForSet(arr, n, c, op)
          BY <3>2 DEF ForSet, d, o
        <4>2. QED
          BY <3>2, <4>1, <2>5
      <3>3. QED
        BY <3>1, <3>2
    <2>7. QED
      BY <2>5, <2>6 DEF With
  <1>4. QED
    BY <1>2, <1>3

LEMMA DequeueAll ==
    ASSUME AllIndexed(alts), NEW t \in Task, alt_array[t] \in Shape, Len(alt_array[t]) <= MaxAlts,
           \A n \in 1 .. Len(alt_array[t]) : Listed(alts, t, alt_array[t], n)
    PROVE  /\ AllIndexed(AltAllDequeue(t))
           /\ \A c \in Channel, op \in Ops :
                 Members(AltAllDequeue(t)[c][op])
                   = Members(alts[c][op]) \ {<<t, n>> : n \in 1 .. Len(alt_array[t])}
  <1> DEFINE arr == alt_array[t]
             N == Len(arr)
  <1>1. N \in Nat /\ arr \in Shape
    BY DEF Shape
  <1>2. PICK f : IsLoop(t, arr, FALSE, alts, N, f) /\ AltAllDequeue(t) = f[N]
    BY <1>1, DequeueIsLoop
  <1>3. f[0] = alts /\ \A n \in 1 .. N : f[n] = Stepped(t, arr, n, f[n - 1], FALSE)
    BY <1>1, <1>2 DEF IsLoop
  <1> HIDE DEF arr, N
  <1> DEFINE Done(m) == /\ AllIndexed(f[m])
                        /\ \A c \in Channel, op \in Ops :
                             Members(f[m][c][op]) = Members(alts[c][op]) \ {<<t, n>> : n \in 1 .. m}
             T == {m \in 0 .. N : ~ Done(m)}
  <1>4. SUFFICES ASSUME T # {} PROVE FALSE
    <2>1. N \in 0 .. N
      BY <1>1
    <2>2. QED
      BY <1>2, <2>1 DEF arr, N
  <1>5. T \in SUBSET Nat
    OBVIOUS
  <1> HIDE DEF T
  <1>6. PICK m \in T : \A y \in T : m <= y
    BY <1>4, <1>5, LeastElement
  <1>7. m \in 0 .. N /\ ~ Done(m)
    BY <1>6 DEF T
  <1>8. m # 0
    <2>1. Done(0)
      BY <1>3
    <2>2. QED
      BY <2>1, <1>7
  <1>9. m - 1 \in 0 .. N /\ m \in 1 .. N /\ ~ (m <= m - 1)
    BY <1>1, <1>7, <1>8
  <1>10. Done(m - 1)
    BY <1>6, <1>9 DEF T
  <1>11. Listed(f[m - 1], t, arr, m)
    <2>1. <<t, m>> \notin {<<t, n>> : n \in 1 .. m - 1}
      BY <1>9
    <2>2. Listed(alts, t, arr, m)
      BY <1>9 DEF arr, N
    <2>3. QED
      BY <2>1, <2>2, <1>10 DEF Listed
  <1>12. Without(f[m - 1], f[m], t, m)
    <2>1. Len(arr) <= MaxAlts /\ m \in 1 .. Len(arr) /\ AllIndexed(f[m - 1])
      BY <1>9, <1>10 DEF arr, N
    <2>2. f[m] = Stepped(t, arr, m, f[m - 1], FALSE)
      BY <1>3, <1>9
    <2>3. ASSUME NEW k \in 1 .. Len(arr), Listed(f[k - 1], t, arr, k), AllIndexed(f[k - 1])
          PROVE  Without(f[k - 1], Stepped(t, arr, k, f[k - 1], FALSE), t, k)
      BY <2>1, <2>3, <1>1, DequeueOne
    <2>4. QED
      BY <2>1, <2>2, <2>3, <1>11
  <1>13. {<<t, n>> : n \in 1 .. m} = {<<t, n>> : n \in 1 .. m - 1} \cup {<<t, m>>}
    BY <1>9
  <1>14. Done(m)
    <2>1. ASSUME NEW c \in Channel, NEW op \in Ops
          PROVE  Members(f[m][c][op]) = Members(alts[c][op]) \ {<<t, n>> : n \in 1 .. m}
      <3>1. Members(f[m - 1][c][op]) = Members(alts[c][op]) \ {<<t, n>> : n \in 1 .. m - 1}
        BY <1>10
      <3>2. Members(f[m][c][op]) = Members(f[m - 1][c][op]) \ {<<t, m>>}
        BY <1>12 DEF Without
      <3>3. QED
        BY <3>1, <3>2, <1>13
    <2>2. QED
      BY <2>1, <1>12 DEF Without
  <1>15. QED
    BY <1>7, <1>14

LEMMA EnqueueAll ==
    ASSUME NEW old, AllIndexed(old), NEW t \in Task, NEW arr \in Shape, Len(arr) <= MaxAlts,
           \A n \in 1 .. Len(arr) : Unlisted(old, t, n)
    PROVE  /\ AllIndexed(AltAllEnqueue(t, arr, old))
           /\ \A c \in Channel, op \in Ops :
                 Members(AltAllEnqueue(t, arr, old)[c][op])
                   = Members(old[c][op]) \cup {<<t, n>> : n \in {k \in 1 .. Len(arr) : ForSet(arr, k, c, op)}}
  <1> DEFINE N == Len(arr)
  <1>1. N \in Nat
    BY DEF Shape
  <1>2. PICK f : IsLoop(t, arr, TRUE, old, N, f) /\ AltAllEnqueue(t, arr, old) = f[N]
    BY <1>1, EnqueueIsLoop
  <1>3. f[0] = old /\ \A n \in 1 .. N : f[n] = Stepped(t, arr, n, f[n - 1], TRUE)
    BY <1>1, <1>2 DEF IsLoop
  <1> DEFINE Done(m) == /\ AllIndexed(f[m])
                        /\ \A c \in Channel, op \in Ops :
                             Members(f[m][c][op]) = Members(old[c][op]) \cup
                                   {<<t, n>> : n \in {k \in 1 .. m : ForSet(arr, k, c, op)}}
                        /\ \A n \in m + 1 .. N : Unlisted(f[m], t, n)
             T == {m \in 0 .. N : ~ Done(m)}
  <1>4. SUFFICES ASSUME T # {} PROVE FALSE
    <2>1. N \in 0 .. N
      BY <1>1
    <2>2. QED
      BY <1>2, <2>1
  <1>5. T \in SUBSET Nat
    OBVIOUS
  <1> HIDE DEF T
  <1>6. PICK m \in T : \A y \in T : m <= y
    BY <1>4, <1>5, LeastElement
  <1>7. m \in 0 .. N /\ ~ Done(m)
    BY <1>6 DEF T
  <1>8. m # 0
    <2>1. Done(0)
      BY <1>1, <1>3
    <2>2. QED
      BY <2>1, <1>7
  <1>9. m - 1 \in 0 .. N /\ m \in 1 .. N /\ ~ (m <= m - 1) /\ (m - 1) + 1 = m
    BY <1>1, <1>7, <1>8
  <1>10. Done(m - 1)
    <2> HIDE DEF Done
    <2>1. QED
      BY <1>6, <1>9 DEF T
  <1>11. \A n \in m .. N : Unlisted(f[m - 1], t, n)
    BY <1>9, <1>10
  <1>12. With(f[m - 1], f[m], t, arr, m)
    <2>1. m \in 1 .. Len(arr) /\ m \in m .. N /\ AllIndexed(f[m - 1])
      BY <1>1, <1>9, <1>10
    <2>2. Unlisted(f[m - 1], t, m)
      BY <2>1, <1>11
    <2>3. f[m] = Stepped(t, arr, m, f[m - 1], TRUE)
      BY <1>3, <1>9
    <2>4. ASSUME NEW k \in 1 .. Len(arr), Unlisted(f[k - 1], t, k), AllIndexed(f[k - 1])
          PROVE  With(f[k - 1], Stepped(t, arr, k, f[k - 1], TRUE), t, arr, k)
      BY <2>4, EnqueueOne
    <2>5. QED
      BY <2>1, <2>2, <2>3, <2>4
  <1>13. ASSUME NEW n \in m + 1 .. N
         PROVE  Unlisted(f[m], t, n)
    <2>1. n \in m .. N /\ <<t, n>> \in Alt /\ <<t, n>> # <<t, m>>
      BY <1>1, <1>9, TaskAssumption DEF Alt
    <2>2. \A c \in Channel, op \in Ops : f[m][c][op].a[<<t, n>>] = f[m - 1][c][op].a[<<t, n>>]
      BY <2>1, <1>12 DEF With
    <2>3. QED
      BY <2>1, <2>2, <1>11 DEF Unlisted
  <1>14. ASSUME NEW c \in Channel, NEW op \in Ops
         PROVE  Members(f[m][c][op])
                  = Members(old[c][op]) \cup {<<t, n>> : n \in {k \in 1 .. m : ForSet(arr, k, c, op)}}
    <2>1. {k \in 1 .. m : ForSet(arr, k, c, op)}
            = {k \in 1 .. m - 1 : ForSet(arr, k, c, op)} \cup (IF ForSet(arr, m, c, op) THEN {m} ELSE {})
      BY <1>9
    <2>2. Members(f[m][c][op]) = Members(f[m - 1][c][op]) \cup (IF ForSet(arr, m, c, op) THEN {<<t, m>>} ELSE {})
      BY <1>12 DEF With
    <2>3. Members(f[m - 1][c][op])
            = Members(old[c][op]) \cup {<<t, n>> : n \in {k \in 1 .. m - 1 : ForSet(arr, k, c, op)}}
      BY <1>10
    <2>4. QED
      BY <2>1, <2>2, <2>3
  <1>15. Done(m)
    <2>1. AllIndexed(f[m])
      BY <1>12 DEF With
    <2>2. QED
      BY <2>1, <1>13, <1>14
  <1>16. QED
    BY <1>7, <1>15
-----------------------------------------------------------------------------
(* The inductive invariant.  That the Sets list the waiting alts is what   *)
(* makes a call see every partner, and with the arrays' shape it is what   *)
(* NoMissedMatch and WokenOnce need to be inductive.                       *)

\* The alts for op on c of the tasks that wait
Waiting(c, op) ==
    {v \in Alt : /\ Blocked(v[1])
                 /\ v[2] \in DOMAIN alt_array[v[1]]
                 /\ ForSet(alt_array[v[1]], v[2], c, op)}

\* SetsListBlocked, in the terms of the lemmas about Sets
Listing ==
    /\ AllIndexed(alts)
    /\ \A c \in Channel, op \in Ops : Members(alts[c][op]) = Waiting(c, op)

\* An alt_array offers a message where it sends, and only there; a coroutine
\* that has not started has none, and one that runs has started.
Arrays ==
    /\ \A t \in Task :
          /\ Len(alt_array[t]) <= MaxAlts
          /\ \A i \in DOMAIN alt_array[t] :
                alt_array[t][i].op = "SEND" <=> alt_array[t][i].p # NoMessage
          /\ status[t] = "new" => alt_array[t] = <<>>
    /\ running # Main => status[running] = "alive"

\* Only messages are between l and r.
Filled == \A c \in Channel : Held(buf[c], c) \in Seq(Message)

Inv == TypeOK /\ Arrays /\ WokenOnce /\ Listing /\ NoMissedMatch /\ Filled

\* The messages in the streams have been offered; those that waiting senders
\* offer are in no stream, and two senders never offer the same.
Messages ==
    /\ S!Sent \subseteq 1 .. sends
    /\ \A t \in Task : Blocked(t) =>
          \A i \in DOMAIN alt_array[t] :
              alt_array[t][i].op = "SEND" =>
                  /\ alt_array[t][i].p \in (1 .. sends) \ S!Sent
                  /\ \A u \in Task \ {t} : Blocked(u) =>
                        \A j \in DOMAIN alt_array[u] : alt_array[u][j].p # alt_array[t][i].p

LEMMA ListingIs ==
    ASSUME TypeOK
    PROVE  Listing <=> SetsListBlocked
  <1>1. alts \in [Channel -> [Ops -> [a : [Alt -> Nat], l : Seq(Alt)]]]
    BY DEF TypeOK, Ops
  <1>2. ASSUME NEW c \in Channel, NEW op \in Ops
        PROVE  alts[c][op] \in [a : [Alt -> Nat], l : Seq(Alt)]
    BY <1>1
  <1>3. AllIndexed(alts) <=>
          \A c \in Channel, op \in Ops :
              \A k \in DOMAIN alts[c][op].l : alts[c][op].a[alts[c][op].l[k]] = k
    BY <1>1, <1>2 DEF AllIndexed, Indexed
  <1>4. ASSUME NEW c, NEW op
        PROVE  Waiting(c, op) = {v \in Alt : /\ Blocked(v[1])
                                            /\ v[2] \in DOMAIN alt_array[v[1]]
                                            /\ alt_array[v[1]][v[2]].c = c
                                            /\ alt_array[v[1]][v[2]].op = op}
    BY DEF Waiting, ForSet
  <1>5. SetsListBlocked <=>
          \A c \in Channel, op \in Ops :
              /\ Members(alts[c][op]) = Waiting(c, op)
              /\ \A k \in DOMAIN alts[c][op].l : alts[c][op].a[alts[c][op].l[k]] = k
    BY Zenon DEF SetsListBlocked, Members, Ops, Waiting, ForSet
  <1>6. QED
    BY <1>3, <1>5, Zenon DEF Listing

LEMMA BufferLength ==
    ASSUME NEW c \in Channel, buf[c] \in Buffer(c)
    PROVE  /\ BufLen(c) \in 0 .. Size[c] /\ Size[c] \in Nat
           /\ BufLen(c) = Len(Held(buf[c], c))
           /\ BufLen(c) = 0 <=> Held(buf[c], c) = <<>>
  <1>1. /\ BufLen(c) = Gap(buf[c].l, buf[c].r, Slots(c))
        /\ Gap(buf[c].l, buf[c].r, Slots(c)) \in 0 .. Size[c] /\ Size[c] \in Nat
        /\ Len(Held(buf[c], c)) = Gap(buf[c].l, buf[c].r, Slots(c))
        /\ Held(buf[c], c) \in Seq(Message \cup {NoMessage})
    BY HeldIs DEF BufLen
  <1>2. QED
    BY <1>1

\* A call passes a new alt_array, whose sends offer a new message.
LEMMA CallIs ==
    ASSUME TypeOK, NEW t, NEW arr, Call(t, arr, FALSE)
    PROVE  /\ arr \in Shape /\ Len(arr) <= MaxAlts
           /\ sends' \in 0 .. MaxSends /\ sends <= sends'
           /\ \A i \in DOMAIN arr :
                 /\ arr[i].c \in Channel /\ arr[i].op \in Op
                 /\ arr[i].op = "SEND" => arr[i].p = sends + 1 /\ sends' = sends + 1
                 /\ arr[i].op # "SEND" => arr[i].p = NoMessage
                 /\ arr[i].op = "SEND" <=> arr[i].p # NoMessage
  <1>1. PICK a \in AltArray : arr = WithMessage(a)
    BY DEF Call
  <1> DEFINE R == [c : Channel, op : Op]
  <1>2. a \in Seq(R) /\ Len(a) \in Nat /\ Len(a) <= MaxAlts
    <2>1. \A aa \in AltArray : aa \in Seq(R) /\ Len(aa) <= MaxAlts
      BY TaskAssumption, Zenon
    <2> HIDE DEF R
    <2>2. QED
      BY <2>1
  <1>3. sends \in Nat /\ MaxSends \in Nat /\ sends <= MaxSends /\ NoMessage \notin Nat
    BY TaskAssumption DEF TypeOK
  <1>4. /\ sends' = IF \E i \in DOMAIN arr : arr[i].op = "SEND" THEN sends + 1 ELSE sends
        /\ sends' <= MaxSends
    BY DEF Call
  <1>5. sends' \in 0 .. MaxSends /\ sends <= sends'
    BY <1>3, <1>4
  <1>6. DOMAIN a = 1 .. Len(a) /\ \A i \in 1 .. Len(a) : a[i] \in R
    <2> HIDE DEF R
    <2>1. QED
      BY <1>2
  <1>7. /\ DOMAIN arr = 1 .. Len(a)
        /\ \A i \in 1 .. Len(a) :
              arr[i] = [c |-> a[i].c, op |-> a[i].op,
                        p |-> IF a[i].op = "SEND" THEN sends + 1 ELSE NoMessage]
    BY <1>1, <1>6 DEF WithMessage
  <1>8. ASSUME NEW i \in 1 .. Len(a)
        PROVE  /\ arr[i].c \in Channel /\ arr[i].op \in Op
               /\ arr[i].op = "SEND" => arr[i].p = sends + 1 /\ sends' = sends + 1
               /\ arr[i].op # "SEND" => arr[i].p = NoMessage
               /\ arr[i] \in [c : Channel, op : Op, p : Message \cup {NoMessage}]
    <2>1. a[i].c \in Channel /\ a[i].op \in Op
      BY <1>6
    <2>2. arr[i].c = a[i].c /\ arr[i].op = a[i].op
      BY <1>7
    <2>3. CASE a[i].op = "SEND"
      <3>1. arr[i].p = sends + 1
        BY <2>3, <1>7
      <3>2. sends' = sends + 1 /\ sends + 1 \in Message
        BY <2>2, <2>3, <1>3, <1>4, <1>7 DEF Message
      <3>3. QED
        BY <2>1, <2>2, <2>3, <3>1, <3>2, <1>7
    <2>4. CASE a[i].op # "SEND"
      BY <2>1, <2>2, <2>4, <1>7
    <2>5. QED
      BY <2>3, <2>4
  <1>9. arr \in Shape /\ Len(arr) = Len(a)
    <2>1. arr = [i \in 1 .. Len(a) |-> arr[i]]
      BY <1>1, <1>6, <1>7 DEF WithMessage
    <2>2. QED
      BY <2>1, <1>2, <1>7, <1>8 DEF Shape
  <1>10. sends + 1 # NoMessage
    BY <1>3
  <1>11. QED
    BY <1>2, <1>5, <1>7, <1>8, <1>9, <1>10

\* The same tasks wait, with the same alts.
Still ==
    /\ \A t \in Task : Blocked(t)' <=> Blocked(t)
    /\ \A t \in Task : Blocked(t) => alt_array'[t] = alt_array[t]

\* The same but for one that is woken, or one that waits now
Wakes(u) == \A v \in Task : Blocked(v)' <=> Blocked(v) /\ v # u
Joins(t) == \A u \in Task : Blocked(u)' <=> Blocked(u) \/ u = t

LEMMA StillListed ==
    ASSUME Listing, Still, AllIndexed(alts'),
           \A c \in Channel, op \in Ops : Members(alts'[c][op]) = Members(alts[c][op])
    PROVE  Listing'
  <1>1. ASSUME NEW c \in Channel, NEW op \in Ops PROVE Waiting(c, op)' = Waiting(c, op)
    <2>1. ASSUME NEW v \in Alt
          PROVE  (Blocked(v[1])' /\ v[2] \in DOMAIN alt_array'[v[1]] /\ ForSet(alt_array'[v[1]], v[2], c, op))
                 <=> (Blocked(v[1]) /\ v[2] \in DOMAIN alt_array[v[1]] /\ ForSet(alt_array[v[1]], v[2], c, op))
      <3>1. v[1] \in Task
        BY DEF Alt
      <3>2. QED
        BY <3>1 DEF Still
    <2>2. QED
      BY <2>1 DEF Waiting
  <1>2. QED
    BY <1>1 DEF Listing

LEMMA StillUnmatched ==
    ASSUME NoMissedMatch, Still, buf' = buf
    PROVE  NoMissedMatch'
  <1>1. \A c : BufLen(c)' = BufLen(c)
    BY DEF BufLen
  <1>2. QED
    BY <1>1 DEF NoMissedMatch, Still

LEMMA StillInv ==
    ASSUME Inv, TypeOK', Arrays', WokenOnce', Still, UNCHANGED <<buf, alts>>
    PROVE  Inv'
  <1>1. Listing'
    BY StillListed DEF Inv, Listing
  <1>2. NoMissedMatch'
    BY StillUnmatched DEF Inv
  <1>3. Filled'
    BY DEF Inv, Filled
  <1>4. QED
    BY <1>1, <1>2, <1>3 DEF Inv

\* The stack of the scheduler: who is on it, and that nobody is twice
On(q) == {q[i] : i \in DOMAIN q}
Once(q) == \A i, j \in DOMAIN q : q[i] = q[j] => i = j

LEMMA PushRunnable ==
    ASSUME NEW q \in Seq(Task), Once(q), NEW t \in Task, t \notin On(q)
    PROVE  Append(q, t) \in Seq(Task) /\ On(Append(q, t)) = On(q) \cup {t} /\ Once(Append(q, t))
  <1> DEFINE n == Len(q)
             p == Append(q, t)
  <1>1. /\ n \in Nat /\ DOMAIN q = 1 .. n /\ p \in Seq(Task)
        /\ DOMAIN p = 1 .. n + 1 /\ p[n + 1] = t /\ \A i \in 1 .. n : p[i] = q[i]
    OBVIOUS
  <1> HIDE DEF n, p
  <1>2. On(p) = On(q) \cup {t}
    <2>1. 1 .. n + 1 = (1 .. n) \cup {n + 1}
      BY <1>1
    <2>2. QED
      BY <2>1, <1>1 DEF On
  <1>3. Once(p)
    BY <1>1 DEF Once, On
  <1>4. QED
    BY <1>1, <1>2, <1>3 DEF p

LEMMA PopRunnable ==
    ASSUME NEW q \in Seq(Task), Once(q), q # <<>>
    PROVE  /\ q[Len(q)] \in Task /\ q[Len(q)] \in On(q)
           /\ SubSeq(q, 1, Len(q) - 1) \in Seq(Task)
           /\ On(SubSeq(q, 1, Len(q) - 1)) = On(q) \ {q[Len(q)]}
           /\ Once(SubSeq(q, 1, Len(q) - 1))
  <1> DEFINE n == Len(q)
             p == SubSeq(q, 1, n - 1)
  <1>1. /\ n \in Nat /\ n # 0 /\ n - 1 \in Nat /\ DOMAIN q = 1 .. n /\ p \in Seq(Task)
        /\ DOMAIN p = 1 .. n - 1 /\ \A i \in 1 .. n - 1 : p[i] = q[i]
    OBVIOUS
  <1>2. q[n] \in Task /\ q[n] \in On(q)
    BY <1>1 DEF On
  <1> HIDE DEF n, p
  <1>3. On(p) = On(q) \ {q[n]}
    <2>1. 1 .. n = (1 .. n - 1) \cup {n} /\ n \notin 1 .. n - 1
      BY <1>1
    <2>2. QED
      BY <2>1, <1>1 DEF On, Once
  <1>4. Once(p)
    BY <1>1 DEF Once
  <1>5. QED
    BY <1>1, <1>2, <1>3, <1>4 DEF n, p

\* WokenOnce, in these terms
LEMMA WokenOnceIs ==
    WokenOnce <=>
        /\ Once(tasks_runnable)
        /\ \A t \in On(tasks_runnable) :
              /\ status[t] = "alive"
              /\ t # running
              /\ alt_array[t] # <<>> => resolved[t] \in DOMAIN alt_array[t]
        /\ \A t \in Task : Blocked(t) => resolved[t] = 0
  BY DEF WokenOnce, Once, On, Runnable

LEMMA WokenOnceNext ==
    WokenOnce' <=>
        /\ Once(tasks_runnable')
        /\ \A t \in On(tasks_runnable') :
              /\ status'[t] = "alive"
              /\ t # running'
              /\ alt_array'[t] # <<>> => resolved'[t] \in DOMAIN alt_array'[t]
        /\ \A t \in Task : Blocked(t)' => resolved'[t] = 0
  BY DEF WokenOnce, Once, On, Runnable

LEMMA BlockedIs ==
    ASSUME NEW t
    PROVE  /\ Blocked(t) <=> status[t] = "alive" /\ t # running /\ t \notin On(tasks_runnable)
           /\ Blocked(t)' <=> status'[t] = "alive" /\ t # running' /\ t \notin On(tasks_runnable')
  BY DEF Blocked, Runnable, On

LEMMA InitInv ==
    ASSUME Init
    PROVE  Inv
  <1>1. TypeOK
    <2>1. NewSet \in [a : [Alt -> Nat], l : Seq(Alt)]
      BY DEF NewSet
    <2>2. \A c \in Channel : NewBuffer(Size[c]) \in Buffer(c)
      BY TaskAssumption DEF NewBuffer, Buffer
    <2>3. /\ alts \in [Channel -> [{"RECV", "SEND"} -> [a : [Alt -> Nat], l : Seq(Alt)]]]
          /\ DOMAIN buf = Channel /\ \A c \in Channel : buf[c] \in Buffer(c)
      BY <2>1, <2>2 DEF Init
    <2>4. /\ alt_array \in [Task -> Seq([c : Channel, op : Op, p : Message \cup {NoMessage}])]
          /\ resolved \in [Task -> 0 .. MaxAlts]
      BY TaskAssumption DEF Init
    <2>5. /\ tasks_runnable \in Seq(Task) /\ running \in Thread /\ scheduling \in BOOLEAN
          /\ status \in [Task -> {"new", "alive", "dead"}]
          /\ sends \in 0 .. MaxSends /\ out \in [Channel -> Seq(Message)]
      <3>1. MaxSends \in Nat
        BY TaskAssumption
      <3>2. tasks_runnable \in Seq(Task) /\ out \in [Channel -> Seq(Message)]
        BY DEF Init
      <3>3. status \in [Task -> {"new", "alive", "dead"}]
        BY DEF Init
      <3>4. running \in Thread /\ scheduling \in BOOLEAN
        BY DEF Init, Thread
      <3>5. sends \in 0 .. MaxSends
        BY <3>1 DEF Init
      <3>6. QED
        BY <3>2, <3>3, <3>4, <3>5
    <2>6. QED
      BY <2>3, <2>4, <2>5 DEF TypeOK
  <1>2. \A t \in Task : ~ Blocked(t) /\ status[t] = "new"
    BY DEF Init, Blocked
  <1>3. Arrays
    BY TaskAssumption DEF Init, Arrays
  <1>4. WokenOnce
    BY <1>2, WokenOnceIs DEF Init, Once, On
  <1>5. Listing
    <2>1. AllIndexed(alts) /\ \A c \in Channel, op \in Ops : Members(alts[c][op]) = {}
      <3>1. Indexed(NewSet) /\ Members(NewSet) = {}
        BY DEF NewSet, Indexed, Members
      <3>2. alts = [c \in Channel |-> [op \in Ops |-> NewSet]]
        BY DEF Init, Ops
      <3>3. QED
        BY <3>1, <3>2 DEF AllIndexed, Indexed
    <2>2. \A c \in Channel, op \in Ops : Waiting(c, op) = {}
      BY <1>2 DEF Waiting, Alt
    <2>3. QED
      BY <2>1, <2>2 DEF Listing
  <1>6. NoMissedMatch
    BY <1>2 DEF NoMissedMatch
  <1>7. Filled
    <2>1. ASSUME NEW c \in Channel PROVE Held(NewBuffer(Size[c]), c) = <<>>
      <3>1. Size[c] \in Nat
        BY TaskAssumption
      <3>2. (0 - 0) % Slots(c) = 0
        BY <3>1, Remainder DEF Slots
      <3>3. QED
        BY <3>2 DEF NewBuffer, Held
    <2>2. <<>> \in Seq(Message)
      OBVIOUS
    <2>3. ASSUME NEW c \in Channel PROVE Held(buf[c], c) = <<>>
      <3>1. buf[c] = NewBuffer(Size[c])
        BY DEF Init
      <3>2. QED
        BY <2>1, <3>1
    <2>4. QED
      BY <2>2, <2>3 DEF Filled
  <1>8. QED
    BY <1>1, <1>3, <1>4, <1>5, <1>6, <1>7 DEF Inv

-----------------------------------------------------------------------------
(* The scheduler keeps it: the same tasks wait. *)

LEMMA SpawnInv ==
    ASSUME Inv, NEW t \in Task, Spawn(t)
    PROVE  Inv' /\ Still
  <1> DEFINE q == tasks_runnable
  <1>1. /\ status[t] = "new" /\ status' = [status EXCEPT ![t] = "alive"]
        /\ q' = Append(q, t) /\ UNCHANGED <<running, scheduling, alt_array, resolved>>
        /\ UNCHANGED <<buf, alts, sends, out>>
    BY DEF Spawn, arrays
  <1>2. q \in Seq(Task) /\ Once(q) /\ t \notin On(q) /\ t # running
    BY <1>1, WokenOnceIs, TaskAssumption DEF Inv, TypeOK, Arrays
  <1>3. q' \in Seq(Task) /\ On(q') = On(q) \cup {t} /\ Once(q')
    BY <1>1, <1>2, PushRunnable
  <1>4. TypeOK'
    BY <1>1, <1>3 DEF Inv, TypeOK
  <1>5. status \in [Task -> {"new", "alive", "dead"}]
    BY DEF Inv, TypeOK
  <1> HIDE DEF q
  <1>6. Arrays'
    BY <1>1, <1>5 DEF Inv, Arrays
  <1>7. Still
    BY <1>1, <1>2, <1>3, <1>5, BlockedIs DEF Still, q
  <1>8. WokenOnce'
    <2>1. ASSUME NEW u \in On(q')
          PROVE  status'[u] = "alive" /\ u # running' /\ (alt_array'[u] # <<>> => resolved'[u] \in DOMAIN alt_array'[u])
      BY <1>1, <1>2, <1>3, <1>5, WokenOnceIs DEF Inv, Arrays, q
    <2>2. ASSUME NEW u \in Task, Blocked(u)' PROVE resolved'[u] = 0
      BY <2>2, <1>1, <1>7, WokenOnceIs DEF Inv, Still
    <2>3. QED
      BY <2>1, <2>2, <1>3, WokenOnceNext DEF q
  <1>9. QED
    BY <1>1, <1>4, <1>6, <1>7, <1>8, StillInv

LEMMA CoroutineResumeInv ==
    ASSUME Inv, NEW t \in Task, CoroutineResume(t)
    PROVE  Inv' /\ Still
  <1>1. /\ running = Main /\ status[t] = "new" /\ status' = [status EXCEPT ![t] = "alive"]
        /\ running' = t /\ UNCHANGED <<tasks_runnable, scheduling, alt_array, resolved>>
        /\ UNCHANGED <<buf, alts, sends, out>>
    BY DEF CoroutineResume, arrays
  <1>2. t # Main /\ t \notin On(tasks_runnable) /\ status \in [Task -> {"new", "alive", "dead"}]
    BY <1>1, WokenOnceIs, TaskAssumption DEF Inv, TypeOK
  <1>3. TypeOK'
    BY <1>1 DEF Inv, TypeOK, Thread
  <1>4. Arrays'
    BY <1>1, <1>2 DEF Inv, Arrays
  <1>5. Still
    BY <1>1, <1>2, BlockedIs, TaskAssumption DEF Still
  <1>6. WokenOnce'
    BY <1>1, <1>2, <1>5, WokenOnceIs, WokenOnceNext DEF Inv, Still
  <1>7. QED
    BY <1>1, <1>3, <1>4, <1>5, <1>6, StillInv

LEMMA SchedulerInv ==
    ASSUME Inv, StartScheduler \/ SchedulerReturns
    PROVE  Inv' /\ Still
  <1>1. /\ scheduling' \in BOOLEAN
        /\ UNCHANGED <<tasks_runnable, running, status, alt_array, resolved, buf, alts, sends, out>>
    BY DEF StartScheduler, SchedulerReturns, arrays
  <1>2. TypeOK'
    BY <1>1 DEF Inv, TypeOK
  <1>3. Arrays'
    BY <1>1 DEF Inv, Arrays
  <1>4. Still
    BY <1>1, BlockedIs DEF Still
  <1>5. WokenOnce'
    BY <1>1, <1>4, WokenOnceIs, WokenOnceNext DEF Inv, Still
  <1>6. QED
    BY <1>1, <1>2, <1>3, <1>4, <1>5, StillInv

LEMMA EndInv ==
    ASSUME Inv, NEW fails \in BOOLEAN, End(fails)
    PROVE  Inv' /\ Still
  <1>1. /\ running # Main /\ status' = [status EXCEPT ![running] = "dead"]
        /\ running' = Main /\ scheduling' \in BOOLEAN
        /\ UNCHANGED <<tasks_runnable, alt_array, resolved, buf, alts, sends, out>>
    BY DEF End, arrays
  <1>2. /\ running \in Task /\ running \notin On(tasks_runnable)
        /\ status \in [Task -> {"new", "alive", "dead"}] /\ tasks_runnable \in Seq(Task)
    BY <1>1, WokenOnceIs DEF Inv, TypeOK, Thread
  <1>3. On(tasks_runnable) \subseteq Task
    BY <1>2 DEF On
  <1>4. TypeOK'
    BY <1>1, <1>2 DEF Inv, TypeOK, Thread
  <1>5. Arrays'
    BY <1>1, <1>2 DEF Inv, Arrays
  <1>6. Still
    BY <1>1, <1>2, BlockedIs, TaskAssumption DEF Still
  <1>7. WokenOnce'
    <2>1. ASSUME NEW u \in On(tasks_runnable)
          PROVE  /\ status'[u] = "alive" /\ u # running'
                 /\ alt_array'[u] # <<>> => resolved'[u] \in DOMAIN alt_array'[u]
      BY <1>1, <1>2, <1>3, WokenOnceIs, TaskAssumption DEF Inv
    <2>2. \A u \in Task : Blocked(u)' => resolved'[u] = 0
      BY <1>1, <1>6, WokenOnceIs DEF Inv, Still
    <2>3. QED
      BY <2>1, <2>2, <1>1, WokenOnceIs, WokenOnceNext DEF Inv
  <1>8. QED
    BY <1>1, <1>4, <1>5, <1>6, <1>7, StillInv

LEMMA ForgetAll ==
    ASSUME AllIndexed(alts), NEW t \in Task,
           \A c \in Channel, op \in Ops : \A v \in Members(alts[c][op]) : v[1] # t
    PROVE  LET a == [c \in Channel |-> [op \in {"RECV", "SEND"} |-> Forget(alts[c][op], t)]]
           IN  /\ AllIndexed(a)
               /\ \A c \in Channel, op \in Ops :
                     /\ Members(a[c][op]) = Members(alts[c][op])
                     /\ \A v \in Alt : v[1] = t => a[c][op].a[v] = 0
  <1> DEFINE a == [c \in Channel |-> [op \in Ops |-> Forget(alts[c][op], t)]]
  <1>1. ASSUME NEW c \in Channel, NEW op \in Ops
        PROVE  /\ Indexed(a[c][op]) /\ Members(a[c][op]) = Members(alts[c][op])
               /\ \A v \in Alt : v[1] = t => a[c][op].a[v] = 0
    <2>1. Indexed(alts[c][op])
      BY DEF AllIndexed
    <2>2. a[c][op] = Forget(alts[c][op], t)
      OBVIOUS
    <2>3. QED
      BY <2>1, <2>2, ForgetTask
  <1>2. a \in [Channel -> [Ops -> [a : [Alt -> Nat], l : Seq(Alt)]]]
    BY <1>1 DEF Indexed
  <1>3. AllIndexed(a)
    BY <1>1, <1>2 DEF AllIndexed
  <1>4. QED
    BY <1>1, <1>3 DEF Ops

LEMMA ResumeTaskInv ==
    ASSUME Inv, ResumeTask(FALSE)
    PROVE  Inv' /\ Still
  <1> DEFINE t == tasks_runnable[Len(tasks_runnable)]
             q == SubSeq(tasks_runnable, 1, Len(tasks_runnable) - 1)
  <1>1. /\ running = Main /\ running' = t /\ tasks_runnable # <<>> /\ tasks_runnable' = q
        /\ alt_array' = [alt_array EXCEPT ![t] = <<>>]
        /\ resolved' = [resolved EXCEPT ![t] = 0]
        /\ alts' = [c \in Channel |-> [op \in {"RECV", "SEND"} |-> Forget(alts[c][op], t)]]
        /\ UNCHANGED <<scheduling, status, buf, sends, out>>
    BY DEF ResumeTask
  <1>2. /\ t \in Task /\ t \in On(tasks_runnable)
        /\ q \in Seq(Task) /\ On(q) = On(tasks_runnable) \ {t} /\ Once(q)
    BY <1>1, WokenOnceIs, PopRunnable DEF Inv, TypeOK
  <1> HIDE DEF t, q
  <1>3. /\ status \in [Task -> {"new", "alive", "dead"}]
        /\ alt_array \in [Task -> Shape] /\ resolved \in [Task -> 0 .. MaxAlts]
        /\ status[t] = "alive" /\ t # Main
    BY <1>2, WokenOnceIs, TaskAssumption DEF Inv, TypeOK, Shape
  <1>4. <<>> \in Shape /\ Len(<<>>) = 0 /\ MaxAlts \in Nat
    BY TaskAssumption DEF Shape
  <1>5. Still
    BY <1>1, <1>2, <1>3, BlockedIs, TaskAssumption DEF Still
  <1>6. \A c \in Channel, op \in Ops : \A v \in Members(alts[c][op]) : v[1] # t
    BY <1>2, BlockedIs DEF Inv, Listing, Waiting
  <1>7. /\ AllIndexed(alts')
        /\ \A c \in Channel, op \in Ops : Members(alts'[c][op]) = Members(alts[c][op])
    BY <1>1, <1>2, <1>6, ForgetAll DEF Inv, Listing
  <1>8. TypeOK'
    <2>1. alts' \in [Channel -> [{"RECV", "SEND"} -> [a : [Alt -> Nat], l : Seq(Alt)]]]
      BY <1>7 DEF AllIndexed, Ops
    <2>2. alt_array' \in [Task -> Shape] /\ resolved' \in [Task -> 0 .. MaxAlts]
      BY <1>1, <1>2, <1>3, <1>4
    <2>3. QED
      BY <2>1, <2>2, <1>1, <1>2 DEF Inv, TypeOK, Thread, Shape
  <1>9. Arrays'
    BY <1>1, <1>2, <1>3, <1>4 DEF Inv, Arrays
  <1>10. WokenOnce'
    <2>1. ASSUME NEW u \in On(q)
          PROVE  /\ status'[u] = "alive" /\ u # running'
                 /\ alt_array'[u] # <<>> => resolved'[u] \in DOMAIN alt_array'[u]
      BY <1>1, <1>2, <1>3, WokenOnceIs DEF Inv
    <2>2. \A u \in Task : Blocked(u)' => resolved'[u] = 0
      <3>1. ASSUME NEW u \in Task, Blocked(u)' PROVE resolved'[u] = 0
        <4>1. Blocked(u) /\ resolved[u] = 0
          BY <3>1, <1>5, WokenOnceIs DEF Inv, Still
        <4>2. QED
          BY <4>1, <1>1, <1>3
      <3>2. QED
        BY <3>1
    <2>3. QED
      BY <2>1, <2>2, <1>1, <1>2, WokenOnceNext
  <1>11. Listing'
    BY <1>5, <1>7, StillListed DEF Inv
  <1>12. NoMissedMatch'
    BY <1>1, <1>5, StillUnmatched DEF Inv
  <1>13. Filled'
    BY <1>1 DEF Inv, Filled
  <1>14. QED
    BY <1>5, <1>8, <1>9, <1>10, <1>11, <1>12, <1>13 DEF Inv

-----------------------------------------------------------------------------
(* altcopy(): afterwards the buffer of c holds h, and o has been received  *)

Moves(c, h, o) ==
    /\ DOMAIN buf' = Channel /\ buf'[c] \in Buffer(c)
    /\ Held(buf'[c], c) = h /\ h \in Seq(Message)
    /\ \A d \in Channel \ {c} : buf'[d] = buf[d]
    /\ out' = [out EXCEPT ![c] = o] /\ o \in Seq(Message)

LEMMA ReceiveAlone ==
    ASSUME TypeOK, Filled, NEW c \in Channel, Held(buf[c], c) # <<>>,
           AltCopy(c, TRUE, NoMessage)
    PROVE  Moves(c, Tail(Held(buf[c], c)), Append(out[c], Head(Held(buf[c], c))))
  <1> DEFINE h == Held(buf[c], c)
  <1>1. /\ buf' = [buf EXCEPT ![c] = Pop(buf[c], c)]
        /\ out' = [out EXCEPT ![c] = Append(@, buf[c].b[buf[c].l])]
    BY DEF AltCopy
  <1>2. /\ buf[c] \in Buffer(c) /\ DOMAIN buf = Channel
        /\ out \in [Channel -> Seq(Message)] /\ h \in Seq(Message)
    BY DEF TypeOK, Filled
  <1>3. Pop(buf[c], c) \in Buffer(c) /\ Head(h) = buf[c].b[buf[c].l] /\ Held(Pop(buf[c], c), c) = Tail(h)
    BY <1>2, PopHeld
  <1> HIDE DEF h
  <1>4. Head(h) \in Message /\ Tail(h) \in Seq(Message)
    BY <1>2 DEF h
  <1>5. Append(out[c], Head(h)) \in Seq(Message)
    BY <1>2, <1>4
  <1>6. QED
    BY <1>1, <1>2, <1>3, <1>4, <1>5 DEF Moves, h

LEMMA SendAlone ==
    ASSUME TypeOK, Filled, NEW c \in Channel, NEW m \in Message,
           Len(Held(buf[c], c)) < Size[c], AltCopy(c, FALSE, m)
    PROVE  Moves(c, Append(Held(buf[c], c), m), out[c])
  <1> DEFINE h == Held(buf[c], c)
  <1>1. m # NoMessage
    BY TaskAssumption DEF Message
  <1>2. buf' = [buf EXCEPT ![c] = Push(buf[c], c, m)] /\ out' = out
    BY <1>1 DEF AltCopy
  <1>3. /\ buf[c] \in Buffer(c) /\ DOMAIN buf = Channel
        /\ out \in [Channel -> Seq(Message)] /\ h \in Seq(Message)
    BY DEF TypeOK, Filled
  <1>4. Push(buf[c], c, m) \in Buffer(c) /\ Held(Push(buf[c], c, m), c) = Append(h, m)
    BY <1>3, PushHeld
  <1> HIDE DEF h
  <1>5. Append(h, m) \in Seq(Message) /\ out = [out EXCEPT ![c] = out[c]]
    BY <1>3
  <1>6. QED
    BY <1>2, <1>3, <1>4, <1>5 DEF Moves, h

LEMMA CopyDirectly ==
    ASSUME TypeOK, Filled, NEW c \in Channel, NEW m \in Message,
           Held(buf[c], c) = <<>>, AltCopy(c, TRUE, m)
    PROVE  Moves(c, <<>>, Append(out[c], m))
  <1>1. m # NoMessage
    BY TaskAssumption DEF Message
  <1>2. /\ buf[c] \in Buffer(c) /\ DOMAIN buf = Channel
        /\ out \in [Channel -> Seq(Message)]
    BY DEF TypeOK
  <1>3. BufLen(c) = 0
    BY <1>2, BufferLength
  <1>4. buf' = [buf EXCEPT ![c] = buf[c]] /\ out' = [out EXCEPT ![c] = Append(@, m)]
    BY <1>1, <1>3 DEF AltCopy
  <1>5. DOMAIN buf' = Channel /\ \A d \in Channel : buf'[d] = buf[d]
    BY <1>2, <1>4
  <1>6. Append(out[c], m) \in Seq(Message) /\ <<>> \in Seq(Message)
    BY <1>2
  <1>7. QED
    BY <1>2, <1>4, <1>5, <1>6 DEF Moves

LEMMA PassOn ==
    ASSUME TypeOK, Filled, NEW c \in Channel, NEW m \in Message,
           Held(buf[c], c) # <<>>, AltCopy(c, TRUE, m)
    PROVE  Moves(c, Append(Tail(Held(buf[c], c)), m), Append(out[c], Head(Held(buf[c], c))))
  <1> DEFINE h == Held(buf[c], c)
             p == Pop(buf[c], c)
  <1>1. m # NoMessage
    BY TaskAssumption DEF Message
  <1>2. /\ buf[c] \in Buffer(c) /\ DOMAIN buf = Channel
        /\ out \in [Channel -> Seq(Message)] /\ h \in Seq(Message)
    BY DEF TypeOK, Filled
  <1>3. BufLen(c) # 0 /\ BufLen(c) = Len(h) /\ Len(h) <= Size[c] /\ Len(h) \in Nat /\ Size[c] \in Nat
    BY <1>2, BufferLength
  <1>4. /\ buf' = [buf EXCEPT ![c] = Push(p, c, m)]
        /\ out' = [out EXCEPT ![c] = Append(@, buf[c].b[buf[c].l])]
    BY <1>1, <1>3 DEF AltCopy
  <1>5. p \in Buffer(c) /\ Head(h) = buf[c].b[buf[c].l] /\ Held(p, c) = Tail(h)
    BY <1>2, PopHeld
  <1> HIDE DEF h, p
  <1>6. /\ Head(h) \in Message /\ Tail(h) \in Seq(Message) /\ Len(Tail(h)) = Len(h) - 1
        /\ Append(Tail(h), m) \in Seq(Message)
    BY <1>2 DEF h
  <1>7. Len(Held(p, c)) < Size[c]
    BY <1>3, <1>5, <1>6
  <1>8. Push(p, c, m) \in Buffer(c) /\ Held(Push(p, c, m), c) = Append(Tail(h), m)
    BY <1>5, <1>7, PushHeld
  <1>9. Append(out[c], Head(h)) \in Seq(Message)
    BY <1>2, <1>6
  <1>10. QED
    BY <1>2, <1>4, <1>5, <1>6, <1>8, <1>9 DEF Moves, h

LEMMA MovesKeepsTypes ==
    ASSUME TypeOK, Filled, NEW c \in Channel, NEW h, NEW o, Moves(c, h, o)
    PROVE  /\ Filled' /\ out' \in [Channel -> Seq(Message)]
           /\ DOMAIN buf' = Channel /\ \A d \in Channel : buf'[d] \in Buffer(d)
           /\ \A d \in Channel : BufLen(d)' = IF d = c THEN Len(h) ELSE BufLen(d)
  <1>1. ASSUME NEW d \in Channel
        PROVE  /\ Held(buf'[d], d) \in Seq(Message) /\ buf'[d] \in Buffer(d)
               /\ BufLen(d)' = IF d = c THEN Len(h) ELSE BufLen(d)
    <2>1. CASE d = c
      <3>1. /\ Held(buf'[d], d) = h /\ h \in Seq(Message) /\ buf'[d] \in Buffer(d)
        BY <2>1 DEF Moves
      <3>2. BufLen(d)' = (buf'[d].r - buf'[d].l) % Slots(d)
        BY DEF BufLen
      <3>3. /\ Len(Held(buf'[d], d)) = Gap(buf'[d].l, buf'[d].r, Slots(d))
            /\ (buf'[d].r - buf'[d].l) % Slots(d) = Gap(buf'[d].l, buf'[d].r, Slots(d))
        BY <3>1, HeldIs
      <3>4. QED
        BY <2>1, <3>1, <3>2, <3>3
    <2>2. CASE d # c
      BY <2>2 DEF Moves, Filled, TypeOK, BufLen
    <2>3. QED
      BY <2>1, <2>2
  <1>2. QED
    BY <1>1 DEF Moves, Filled, TypeOK

-----------------------------------------------------------------------------
(* chanalt() keeps it.  A caller sees, in the Sets and in the buffer, all  *)
(* that the waiting tasks could do.                                        *)

LEMMA AltsAre ==
    ASSUME Inv, NEW u \in Task, NEW j \in DOMAIN alt_array[u]
    PROVE  /\ alt_array[u][j].c \in Channel /\ alt_array[u][j].op \in Op
           /\ alt_array[u][j].p \in Message \cup {NoMessage}
           /\ alt_array[u][j].op = "SEND" <=> alt_array[u][j].p # NoMessage
           /\ j \in 1 .. MaxAlts /\ <<u, j>> \in Alt
  <1>1. alt_array[u] \in Shape /\ Len(alt_array[u]) <= MaxAlts
    BY DEF Inv, TypeOK, Arrays, Shape
  <1> DEFINE R == [c : Channel, op : Op, p : Message \cup {NoMessage}]
  <1>2. alt_array[u][j] \in R
    <2>1. alt_array[u] \in Seq(R) /\ j \in 1 .. Len(alt_array[u])
      BY <1>1 DEF Shape
    <2> HIDE DEF R
    <2>2. QED
      BY <2>1, ElementOfSeq
  <1>3. j \in 1 .. MaxAlts
    <2>1. MaxAlts \in Nat
      BY TaskAssumption
    <2>2. QED
      BY <1>1, <2>1 DEF Shape
  <1>4. alt_array[u][j].op = "SEND" <=> alt_array[u][j].p # NoMessage
    BY DEF Inv, Arrays
  <1>5. QED
    BY <1>2, <1>3, <1>4 DEF Alt

LEMMA NotWaiting ==
    ASSUME Inv, NEW c \in Channel, NEW op \in Ops, alts[c][op].l = <<>>,
           NEW u \in Task, Blocked(u), NEW j \in DOMAIN alt_array[u]
    PROVE  ~ ForSet(alt_array[u], j, c, op)
  <1>1. Waiting(c, op) = {}
    <2>1. Members(alts[c][op]) = {}
      BY DEF Members
    <2>2. QED
      BY <2>1 DEF Inv, Listing
  <1>2. <<u, j>> \in Alt
    BY AltsAre
  <1>3. QED
    BY <1>1, <1>2 DEF Waiting

\* The n-th alt of u waits for op on c.
Waits(u, n, c, op) ==
    /\ u \in Task /\ Blocked(u) /\ n \in DOMAIN alt_array[u]
    /\ alt_array[u][n].c = c /\ alt_array[u][n].op = op

LEMMA IsWaiting ==
    ASSUME Inv, NEW c \in Channel, NEW op \in Ops, NEW k \in DOMAIN alts[c][op].l
    PROVE  Waits(alts[c][op].l[k][1], alts[c][op].l[k][2], c, op)
  <1>1. alts[c][op].l[k] \in Waiting(c, op)
    BY DEF Inv, Listing, Members
  <1>2. QED
    BY <1>1 DEF Waiting, Alt, ForSet, Waits

LEMMA Unmatched ==
    ASSUME Inv, NEW u \in Task, Blocked(u), NEW j \in DOMAIN alt_array[u]
    PROVE  /\ alt_array[u][j].op = "SEND" => BufLen(alt_array[u][j].c) = Size[alt_array[u][j].c]
           /\ alt_array[u][j].op = "RECV" => BufLen(alt_array[u][j].c) = 0
  BY DEF Inv, NoMissedMatch

LEMMA ExecutableIs ==
    ASSUME Inv, NEW t, NEW arr, Call(t, arr, FALSE), NEW i \in DOMAIN arr, AltCanExec(arr[i])
    PROVE  /\ arr[i].c \in Channel /\ arr[i].op \in Ops /\ Other(arr[i].op) \in Ops
           /\ buf[arr[i].c] \in Buffer(arr[i].c)
           /\ arr[i].op = "RECV" => arr[i].p = NoMessage
           /\ arr[i].op = "SEND" =>
                 arr[i].p = sends + 1 /\ sends' = sends + 1 /\ arr[i].p \in Message
  <1>1. arr[i].c \in Channel /\ arr[i].op \in Op
    BY CallIs DEF Inv
  <1>2. arr[i].op # "NOP"
    BY DEF AltCanExec
  <1>3. /\ arr[i].op = "RECV" => arr[i].p = NoMessage
        /\ arr[i].op = "SEND" => arr[i].p = sends + 1 /\ sends' = sends + 1
    BY CallIs DEF Inv
  <1>4. sends \in Nat /\ MaxSends \in Nat /\ sends' \in 0 .. MaxSends
    <2>1. sends' \in 0 .. MaxSends
      BY CallIs DEF Inv
    <2>2. MaxSends \in Nat /\ sends \in 0 .. MaxSends
      BY TaskAssumption DEF Inv, TypeOK
    <2>3. QED
      BY <2>1, <2>2
  <1>5. arr[i].op = "SEND" => arr[i].p \in Message
    BY <1>3, <1>4 DEF Message
  <1>6. QED
    BY <1>1, <1>2, <1>3, <1>5 DEF Op, Ops, Other, Inv, TypeOK

LEMMA ThroughBuffer ==
    ASSUME NEW alt, AltCanExec(alt), ~ (Size[alt.c] = 0)
    PROVE  \/ alt.op = "SEND" /\ BufLen(alt.c) < Size[alt.c]
           \/ alt.op = "RECV" /\ BufLen(alt.c) > 0
  BY Zenon DEF AltCanExec

\* What a call does alone through the buffer of c
ThroughBufferOf(c) ==
    \/ /\ Held(buf[c], c) # <<>>
       /\ Moves(c, Tail(Held(buf[c], c)), Append(out[c], Head(Held(buf[c], c))))
    \/ /\ sends + 1 \in Message /\ sends' = sends + 1
       /\ Moves(c, Append(Held(buf[c], c), sends + 1), out[c])
NobodyWaitsFor(c) ==
    \A u \in Task : Blocked(u) =>
        \A j \in DOMAIN alt_array[u] :
            alt_array[u][j].c = c => alt_array[u][j].op = "NOP"

LEMMA AloneMoves ==
    ASSUME Inv, NEW t, NEW arr, Call(t, arr, FALSE), NEW i \in DOMAIN arr,
           AltCanExec(arr[i]), AltExecAlone(t, arr, i)
    PROVE  ThroughBufferOf(arr[i].c) /\ NobodyWaitsFor(arr[i].c)
  <1> DEFINE c == arr[i].c
             h == Held(buf[c], c)
  <1>1. /\ c \in Channel /\ arr[i].op \in Ops /\ buf[c] \in Buffer(c)
        /\ arr[i].op = "RECV" => arr[i].p = NoMessage
        /\ arr[i].op = "SEND" => arr[i].p = sends + 1 /\ sends' = sends + 1 /\ arr[i].p \in Message
    BY ExecutableIs
  <1>2. alts[c][Other(arr[i].op)].l = <<>> /\ AltCopy(c, arr[i].op = "RECV", arr[i].p)
    BY DEF AltExecAlone
  <1>3. /\ BufLen(c) \in 0 .. Size[c] /\ Size[c] \in Nat /\ BufLen(c) = Len(h)
        /\ BufLen(c) = 0 <=> h = <<>>
    BY <1>1, BufferLength
  <1>0. ~ (Size[arr[i].c] = 0)
    BY <1>2 DEF AltCanExec
  <1>4. \/ arr[i].op = "SEND" /\ BufLen(arr[i].c) < Size[arr[i].c]
        \/ arr[i].op = "RECV" /\ BufLen(arr[i].c) > 0
    BY <1>0, ThroughBuffer, Zenon
  <1> HIDE DEF c, h
  <1>5. CASE arr[i].op = "RECV"
    <2>1. h # <<>> /\ AltCopy(c, TRUE, NoMessage) /\ BufLen(c) # 0
      <3>1. h # <<>> /\ BufLen(c) # 0
        BY <1>3, <1>4, <1>5 DEF c
      <3>2. (arr[i].op = "RECV") = TRUE
        BY <1>5
      <3>3. AltCopy(c, TRUE, NoMessage)
        BY <3>2, <1>1, <1>2, <1>5
      <3>4. QED
        BY <3>1, <3>3
    <2>2. Moves(c, Tail(h), Append(out[c], Head(h)))
      BY <2>1, <1>1, ReceiveAlone DEF Inv, h
    <2>3. ASSUME NEW u \in Task, Blocked(u), NEW j \in DOMAIN alt_array[u], alt_array[u][j].c = c
          PROVE  alt_array[u][j].op = "NOP"
      <3>1. alt_array[u][j].op # "SEND"
        <4>1. Other(arr[i].op) = "SEND" /\ "SEND" \in Ops
          BY <1>5 DEF Other, Ops
        <4>2. QED
          BY <4>1, <2>3, <1>1, <1>2, NotWaiting DEF ForSet
      <3>2. alt_array[u][j].op # "RECV"
        BY <2>1, <2>3, Unmatched
      <3>3. QED
        BY <3>1, <3>2, <2>3, AltsAre DEF Op
    <2>4. QED
      BY <2>1, <2>2, <2>3 DEF c, h, ThroughBufferOf, NobodyWaitsFor
  <1>6. CASE arr[i].op = "SEND"
    <2>1. /\ Len(h) < Size[c] /\ BufLen(c) # Size[c] /\ AltCopy(c, FALSE, sends + 1)
          /\ sends + 1 \in Message /\ sends' = sends + 1
      <3>1. Len(h) < Size[c] /\ BufLen(c) # Size[c]
        BY <1>3, <1>4, <1>6 DEF c
      <3>2. (arr[i].op = "RECV") = FALSE
        BY <1>6
      <3>3. AltCopy(c, FALSE, sends + 1)
        BY <3>2, <1>1, <1>2, <1>6
      <3>4. QED
        BY <3>1, <3>3, <1>1, <1>6
    <2>2. Moves(c, Append(h, sends + 1), out[c])
      BY <2>1, <1>1, SendAlone DEF Inv, h
    <2>3. ASSUME NEW u \in Task, Blocked(u), NEW j \in DOMAIN alt_array[u], alt_array[u][j].c = c
          PROVE  alt_array[u][j].op = "NOP"
      <3>1. alt_array[u][j].op # "RECV"
        <4>1. Other(arr[i].op) = "RECV" /\ "RECV" \in Ops
          BY <1>6 DEF Other, Ops
        <4>2. QED
          BY <4>1, <2>3, <1>1, <1>2, NotWaiting DEF ForSet
      <3>2. alt_array[u][j].op # "SEND"
        BY <2>1, <2>3, Unmatched
      <3>3. QED
        BY <3>1, <3>2, <2>3, AltsAre DEF Op
    <2>4. QED
      BY <2>1, <2>2, <2>3 DEF c, h, ThroughBufferOf, NobodyWaitsFor
  <1>7. QED
    BY <1>1, <1>5, <1>6 DEF Ops

LEMMA WithMoves ==
    ASSUME Inv, NEW t, NEW arr, Call(t, arr, FALSE), NEW i \in DOMAIN arr,
           AltCanExec(arr[i]), NEW u \in Task, Blocked(u), NEW n \in DOMAIN alt_array[u],
           alt_array[u][n].c = arr[i].c, alt_array[u][n].op = Other(arr[i].op),
           AltExecWith(t, arr, i, u, n)
    PROVE  LET c == arr[i].c
               h == Held(buf[c], c)
           IN  \E m \in Message :
                  /\ \/ m = sends + 1 /\ sends' = sends + 1
                     \/ alt_array[u][n].op = "SEND" /\ m = alt_array[u][n].p
                  /\ \/ h = <<>> /\ Moves(c, <<>>, Append(out[c], m))
                     \/ h # <<>> /\ Moves(c, Append(Tail(h), m), Append(out[c], Head(h)))
  <1> DEFINE c == arr[i].c
             h == Held(buf[c], c)
             p == {arr[i].p, alt_array[u][n].p} \ {NoMessage}
  <1>1. /\ c \in Channel /\ arr[i].op \in Ops /\ buf[c] \in Buffer(c)
        /\ arr[i].op = "RECV" => arr[i].p = NoMessage
        /\ arr[i].op = "SEND" => arr[i].p = sends + 1 /\ sends' = sends + 1 /\ arr[i].p \in Message
    BY ExecutableIs
  <1>2. AltCopy(c, TRUE, CHOOSE m \in p : TRUE)
    BY DEF AltExecWith
  <1>3. /\ alt_array[u][n].p \in Message \cup {NoMessage}
        /\ alt_array[u][n].op = "SEND" <=> alt_array[u][n].p # NoMessage
    BY AltsAre
  <1>4. NoMessage \notin Message
    BY TaskAssumption DEF Message
  <1>5. ASSUME NEW m \in Message, p = {m},
               \/ m = sends + 1 /\ sends' = sends + 1
               \/ alt_array[u][n].op = "SEND" /\ m = alt_array[u][n].p
        PROVE  \E mm \in Message :
                  /\ \/ mm = sends + 1 /\ sends' = sends + 1
                     \/ alt_array[u][n].op = "SEND" /\ mm = alt_array[u][n].p
                  /\ \/ h = <<>> /\ Moves(c, <<>>, Append(out[c], mm))
                     \/ h # <<>> /\ Moves(c, Append(Tail(h), mm), Append(out[c], Head(h)))
    <2>1. (CHOOSE mm \in p : TRUE) = m
      BY <1>5
    <2>2. AltCopy(c, TRUE, m)
      BY <2>1, <1>2
    <2>3. h = <<>> => Moves(c, <<>>, Append(out[c], m))
      BY <2>2, <1>1, CopyDirectly DEF Inv
    <2>4. h # <<>> => Moves(c, Append(Tail(h), m), Append(out[c], Head(h)))
      BY <2>2, <1>1, PassOn DEF Inv
    <2> HIDE DEF c, h, p
    <2>5. QED
      BY <2>3, <2>4, <1>5
  <1>6. CASE arr[i].op = "SEND"
    <2>1. alt_array[u][n].p = NoMessage
      BY <1>3, <1>6 DEF Other
    <2>2. p = {arr[i].p}
      BY <2>1, <1>1, <1>4, <1>6
    <2>3. QED
      BY <2>2, <1>1, <1>5, <1>6
  <1>7. CASE arr[i].op = "RECV"
    <2>1. alt_array[u][n].op = "SEND" /\ alt_array[u][n].p \in Message
      BY <1>3, <1>7 DEF Other
    <2>2. p = {alt_array[u][n].p}
      BY <2>1, <1>1, <1>4, <1>7
    <2>3. QED
      BY <2>1, <2>2, <1>5
  <1>8. QED
    BY <1>1, <1>6, <1>7 DEF Ops

\* NoMissedMatch, in two parts: no buffer would do, and no partner
Idle(u, j) ==
    /\ alt_array[u][j].op = "SEND" => BufLen(alt_array[u][j].c) = Size[alt_array[u][j].c]
    /\ alt_array[u][j].op = "RECV" => BufLen(alt_array[u][j].c) = 0
Unpaired(u, j) ==
    alt_array[u][j].op # "NOP" =>
        \A v \in Task \ {u} : Blocked(v) =>
            \A k \in DOMAIN alt_array[v] :
                alt_array[v][k].c = alt_array[u][j].c =>
                    alt_array[v][k].op # Other(alt_array[u][j].op)

LEMMA NoMissedMatchIs ==
    NoMissedMatch <=>
        \A u \in Task : Blocked(u) =>
            \A j \in DOMAIN alt_array[u] : Idle(u, j) /\ Unpaired(u, j)
  BY DEF NoMissedMatch, Idle, Unpaired

LEMMA NoMissedMatchNext ==
    NoMissedMatch' <=>
        \A u \in Task : Blocked(u)' =>
            \A j \in DOMAIN alt_array'[u] : Idle(u, j)' /\ Unpaired(u, j)'
  BY DEF NoMissedMatch, Idle, Unpaired

LEMMA AltExecAloneInv ==
    ASSUME Inv, NEW t, NEW arr, Call(t, arr, FALSE), NEW i \in DOMAIN arr,
           AltCanExec(arr[i]), AltExecAlone(t, arr, i)
    PROVE  Inv' /\ Still
  <1> DEFINE c == arr[i].c
  <1>1. UNCHANGED <<tasks_runnable, running, scheduling, status, alt_array, resolved, alts>>
    BY DEF AltExecAlone, sched, arrays
  <1>2. c \in Channel /\ sends' \in 0 .. MaxSends
    BY ExecutableIs, CallIs DEF Inv
  <1>3. ThroughBufferOf(c) /\ NobodyWaitsFor(c)
    BY AloneMoves
  <1> HIDE DEF c
  <1>4. /\ Filled' /\ out' \in [Channel -> Seq(Message)]
        /\ DOMAIN buf' = Channel /\ \A d \in Channel : buf'[d] \in Buffer(d)
        /\ \A d \in Channel : d # c => BufLen(d)' = BufLen(d)
    BY <1>2, <1>3, MovesKeepsTypes DEF Inv, ThroughBufferOf
  <1>5. Still
    BY <1>1, BlockedIs DEF Still
  <1>6. TypeOK'
    BY <1>1, <1>2, <1>4 DEF Inv, TypeOK
  <1>7. Arrays'
    BY <1>1 DEF Inv, Arrays
  <1>8. WokenOnce'
    BY <1>1, <1>5, WokenOnceIs, WokenOnceNext DEF Inv, Still
  <1>9. Listing'
    BY <1>1, <1>5, StillListed DEF Inv, Listing
  <1>10. NoMissedMatch'
    <2>1. ASSUME NEW u \in Task, Blocked(u)', NEW j \in DOMAIN alt_array'[u]
          PROVE  Idle(u, j)' /\ Unpaired(u, j)'
      <3>1. Blocked(u) /\ alt_array' = alt_array /\ j \in DOMAIN alt_array[u]
        BY <1>1, <1>5, <2>1 DEF Still
      <3>2. alt_array[u][j].c \in Channel /\ alt_array[u][j].op \in Op
        BY <3>1, AltsAre
      <3>3. Idle(u, j) /\ Unpaired(u, j)
        BY <3>1, NoMissedMatchIs DEF Inv
      <3>4. alt_array[u][j].op # "NOP" => BufLen(alt_array[u][j].c)' = BufLen(alt_array[u][j].c)
        BY <3>1, <3>2, <1>3, <1>4 DEF NobodyWaitsFor
      <3>5. Idle(u, j)'
        BY <3>1, <3>3, <3>4 DEF Idle
      <3>6. Unpaired(u, j)'
        BY <3>1, <3>3, <1>5 DEF Unpaired, Still
      <3>7. QED
        BY <3>5, <3>6
    <2>2. QED
      BY <2>1, NoMissedMatchNext
  <1>11. QED
    BY <1>4, <1>5, <1>6, <1>7, <1>8, <1>9, <1>10 DEF Inv

\* The partner is woken: the others wait as before, and as the buffer of c is
\* as full as before, they still have nothing to do.
LEMMA AltExecWithInv ==
    ASSUME Inv, NEW t, NEW arr, Call(t, arr, FALSE), NEW i \in DOMAIN arr,
           AltCanExec(arr[i]), NEW u \in Task, Blocked(u), NEW n \in DOMAIN alt_array[u],
           alt_array[u][n].c = arr[i].c, alt_array[u][n].op = Other(arr[i].op),
           AltExecWith(t, arr, i, u, n)
    PROVE  Inv' /\ Wakes(u)
  <1> DEFINE c == arr[i].c
             h == Held(buf[c], c)
             q == tasks_runnable
  <1>1. /\ alts' = AltAllDequeue(u) /\ resolved' = [resolved EXCEPT ![u] = n]
        /\ q' = Append(q, u)
        /\ UNCHANGED <<running, scheduling, status, alt_array>>
    BY DEF AltExecWith
  <1>2. c \in Channel /\ sends' \in 0 .. MaxSends /\ buf[c] \in Buffer(c)
    BY ExecutableIs, CallIs DEF Inv
  <1>3. \E m \in Message : \/ h = <<>> /\ Moves(c, <<>>, Append(out[c], m))
                           \/ h # <<>> /\ Moves(c, Append(Tail(h), m), Append(out[c], Head(h)))
    BY WithMoves
  <1>4. h \in Seq(Message) /\ BufLen(c) = Len(h)
    BY <1>2, BufferLength DEF Inv, Filled
  <1> HIDE DEF c, h
  <1>5. \E hh, o : Moves(c, hh, o) /\ Len(hh) = Len(h)
    <2>1. ASSUME NEW m \in Message PROVE h # <<>> => Len(Append(Tail(h), m)) = Len(h)
      BY <1>4
    <2>2. PICK m \in Message : \/ h = <<>> /\ Moves(c, <<>>, Append(out[c], m))
                               \/ h # <<>> /\ Moves(c, Append(Tail(h), m), Append(out[c], Head(h)))
      BY <1>3
    <2>3. CASE h = <<>>
      BY <2>2, <2>3
    <2>4. CASE h # <<>>
      <3>1. Moves(c, Append(Tail(h), m), Append(out[c], Head(h))) /\ Len(Append(Tail(h), m)) = Len(h)
        BY <2>1, <2>2, <2>4
      <3>2. QED
        BY <3>1
    <2>5. QED
      BY <2>3, <2>4
  <1>6. /\ Filled' /\ out' \in [Channel -> Seq(Message)]
        /\ DOMAIN buf' = Channel /\ \A d \in Channel : buf'[d] \in Buffer(d)
        /\ \A d \in Channel : BufLen(d)' = BufLen(d)
    BY <1>2, <1>4, <1>5, MovesKeepsTypes DEF Inv
  <1>7. /\ status[u] = "alive" /\ u # running /\ u \notin On(q)
        /\ q \in Seq(Task) /\ Once(q)
    BY BlockedIs, WokenOnceIs DEF Inv, TypeOK
  <1>8. q' \in Seq(Task) /\ On(q') = On(q) \cup {u} /\ Once(q')
    BY <1>1, <1>7, PushRunnable
  <1> HIDE DEF q
  <1>9. \A v \in Task : Blocked(v)' <=> Blocked(v) /\ v # u
    BY <1>1, <1>8, BlockedIs DEF q
  <1>10. /\ AllIndexed(alts')
         /\ \A d \in Channel, op \in Ops :
               Members(alts'[d][op])
                 = Members(alts[d][op]) \ {<<u, k>> : k \in 1 .. Len(alt_array[u])}
    <2>1. alt_array[u] \in Shape /\ Len(alt_array[u]) <= MaxAlts /\ AllIndexed(alts)
      BY DEF Inv, TypeOK, Arrays, Listing, Shape
    <2>2. ASSUME NEW k \in 1 .. Len(alt_array[u]) PROVE Listed(alts, u, alt_array[u], k)
      <3>1. k \in DOMAIN alt_array[u]
        BY <2>1 DEF Shape
      <3>2. <<u, k>> \in Alt
        BY <3>1, AltsAre
      <3>3. \A d \in Channel, op \in Ops : <<u, k>> \in Waiting(d, op) <=> ForSet(alt_array[u], k, d, op)
        BY <3>1, <3>2 DEF Waiting
      <3>4. QED
        BY <3>3 DEF Inv, Listing, Listed
    <2>3. QED
      BY <1>1, <2>1, <2>2, DequeueAll
  <1>11. TypeOK'
    <2>1. alts' \in [Channel -> [{"RECV", "SEND"} -> [a : [Alt -> Nat], l : Seq(Alt)]]]
      BY <1>10 DEF AllIndexed, Ops
    <2>2. resolved' \in [Task -> 0 .. MaxAlts]
      <3>1. n \in 0 .. MaxAlts
        <4>1. n \in 1 .. MaxAlts
          BY AltsAre
        <4>2. QED
          BY <4>1
      <3>2. resolved \in [Task -> 0 .. MaxAlts]
        BY DEF Inv, TypeOK
      <3>3. QED
        BY <1>1, <3>1, <3>2
    <2>3. QED
      BY <2>1, <2>2, <1>1, <1>2, <1>6, <1>8 DEF Inv, TypeOK, q
  <1>12. Arrays'
    BY <1>1 DEF Inv, Arrays
  <1>13. resolved'[u] = n /\ \A v \in Task : v # u => resolved'[v] = resolved[v]
    BY <1>1 DEF Inv, TypeOK
  <1>14. WokenOnce'
    <2>1. ASSUME NEW v \in On(q')
          PROVE  /\ status'[v] = "alive" /\ v # running'
                 /\ alt_array'[v] # <<>> => resolved'[v] \in DOMAIN alt_array'[v]
      <3>1. CASE v = u
        BY <3>1, <1>1, <1>7, <1>13
      <3>2. CASE v # u
        <4>1. v \in On(q) /\ On(q) \subseteq Task
          <5>1. v \in On(q)
            BY <3>2, <1>8
          <5>2. On(q) \subseteq Task
            BY <1>7 DEF On
          <5>3. QED
            BY <5>1, <5>2
        <4>2. QED
          BY <3>2, <4>1, <1>1, <1>13, WokenOnceIs DEF Inv, q
      <3>3. QED
        BY <3>1, <3>2
    <2>2. \A v \in Task : Blocked(v)' => resolved'[v] = 0
      BY <1>9, <1>13, WokenOnceIs DEF Inv
    <2>3. QED
      BY <2>1, <2>2, <1>8, WokenOnceNext DEF q
  <1>15. Listing'
    <2>1. ASSUME NEW d \in Channel, NEW op \in Ops
          PROVE  Waiting(d, op)' = Waiting(d, op) \ {<<u, k>> : k \in 1 .. Len(alt_array[u])}
      <3>1. DOMAIN alt_array[u] = 1 .. Len(alt_array[u])
        BY DEF Inv, TypeOK
      <3>2. ASSUME NEW v \in Alt
            PROVE  v \in Waiting(d, op)' <=>
                      v \in Waiting(d, op) /\ v \notin {<<u, k>> : k \in 1 .. Len(alt_array[u])}
        <4>1. v[1] \in Task /\ v = <<v[1], v[2]>>
          BY DEF Alt
        <4>2. v \in Waiting(d, op)' <=>
                 Blocked(v[1])' /\ v[2] \in DOMAIN alt_array[v[1]] /\ ForSet(alt_array[v[1]], v[2], d, op)
          BY <1>1 DEF Waiting
        <4>3. v \in Waiting(d, op) <=>
                 Blocked(v[1]) /\ v[2] \in DOMAIN alt_array[v[1]] /\ ForSet(alt_array[v[1]], v[2], d, op)
          BY DEF Waiting
        <4>4. CASE v[1] = u
          BY <4>1, <4>2, <4>3, <4>4, <3>1, <1>9
        <4>5. CASE v[1] # u
          <5>1. v \notin {<<u, k>> : k \in 1 .. Len(alt_array[u])}
            BY <4>5
          <5>2. QED
            BY <4>1, <4>2, <4>3, <4>5, <5>1, <1>9
        <4>6. QED
          BY <4>4, <4>5
      <3>3. Waiting(d, op)' \subseteq Alt /\ Waiting(d, op) \subseteq Alt
        BY DEF Waiting
      <3>4. QED
        BY <3>2, <3>3
    <2>2. QED
      <3>1. \A d \in Channel, op \in Ops : Members(alts[d][op]) = Waiting(d, op)
        BY DEF Inv, Listing
      <3>2. \A d \in Channel, op \in Ops : Members(alts'[d][op]) = Waiting(d, op)'
        <4> TAKE d \in Channel, op \in Ops
        <4>1. Waiting(d, op)' = Waiting(d, op) \ {<<u, k>> : k \in 1 .. Len(alt_array[u])}
          BY <2>1
        <4>2. QED
          BY <4>1, <3>1, <1>10
      <3>3. QED
        BY <3>2, <1>10 DEF Listing
  <1>16. NoMissedMatch'
    <2>1. ASSUME NEW v \in Task, Blocked(v)', NEW j \in DOMAIN alt_array'[v]
          PROVE  Idle(v, j)' /\ Unpaired(v, j)'
      <3>1. Blocked(v) /\ alt_array' = alt_array /\ j \in DOMAIN alt_array[v]
        BY <1>1, <1>9, <2>1
      <3>2. Idle(v, j) /\ Unpaired(v, j)
        BY <3>1, NoMissedMatchIs DEF Inv
      <3>3. BufLen(alt_array[v][j].c)' = BufLen(alt_array[v][j].c)
        <4>1. alt_array[v][j].c \in Channel
          BY <3>1, AltsAre
        <4>2. QED
          BY <3>1, <4>1, <1>6
      <3>4. Idle(v, j)'
        BY <3>1, <3>2, <3>3 DEF Idle
      <3>5. Unpaired(v, j)'
        BY <3>1, <3>2, <1>9 DEF Unpaired
      <3>6. QED
        BY <3>4, <3>5
    <2>2. QED
      BY <2>1, NoMissedMatchNext
  <1>17. QED
    BY <1>6, <1>9, <1>11, <1>12, <1>14, <1>15, <1>16 DEF Inv, Wakes

\* A task that waits is added to those that wait: none of its alts can be
\* executed, so it is the partner of none of them.
LEMMA AltBlockInv ==
    ASSUME Inv, NEW t \in Thread, NEW arr, AltBlock(t, arr, FALSE)
    PROVE  Inv' /\ t \in Task /\ Joins(t)
  <1> DEFINE old == [c \in Channel |-> [op \in {"RECV", "SEND"} |-> Forget(alts[c][op], t)]]
  <1>1. /\ Call(t, arr, FALSE) /\ t # Main /\ running = t /\ running' = Main
        /\ \A i \in DOMAIN arr : ~ AltCanExec(arr[i])
        /\ alt_array' = [alt_array EXCEPT ![t] = arr]
        /\ resolved' = [resolved EXCEPT ![t] = 0]
        /\ alts' = AltAllEnqueue(t, arr, old)
        /\ UNCHANGED <<tasks_runnable, scheduling, status, buf, out>>
    BY DEF AltBlock, Call
  <1>2. /\ arr \in Shape /\ Len(arr) <= MaxAlts /\ sends' \in 0 .. MaxSends
        /\ DOMAIN arr = 1 .. Len(arr)
        /\ \A i \in DOMAIN arr :
              /\ arr[i].c \in Channel /\ arr[i].op \in Op
              /\ arr[i].op = "SEND" <=> arr[i].p # NoMessage
    <2>1. /\ arr \in Shape /\ Len(arr) <= MaxAlts /\ sends' \in 0 .. MaxSends
          /\ \A i \in DOMAIN arr :
                /\ arr[i].c \in Channel /\ arr[i].op \in Op
                /\ arr[i].op = "SEND" <=> arr[i].p # NoMessage
      BY <1>1, CallIs DEF Inv
    <2>2. DOMAIN arr = 1 .. Len(arr)
      BY <2>1 DEF Shape
    <2>3. QED
      BY <2>1, <2>2
  <1>3. t \in Task /\ status[t] = "alive" /\ t \notin On(tasks_runnable) /\ ~ Blocked(t)
    BY <1>1, WokenOnceIs, BlockedIs DEF Inv, Arrays, Thread
  <1>4. /\ alt_array \in [Task -> Shape] /\ resolved \in [Task -> 0 .. MaxAlts]
        /\ MaxAlts \in Nat /\ Main \notin Task
    BY TaskAssumption DEF Inv, TypeOK, Shape
  <1>5. /\ alt_array'[t] = arr /\ resolved'[t] = 0
        /\ \A u \in Task : u # t => alt_array'[u] = alt_array[u] /\ resolved'[u] = resolved[u]
    BY <1>1, <1>3, <1>4
  <1>6. \A u \in Task : Blocked(u)' <=> Blocked(u) \/ u = t
    BY <1>1, <1>3, <1>4, BlockedIs
  <1>7. /\ AllIndexed(old)
        /\ \A c \in Channel, op \in Ops : Members(old[c][op]) = Members(alts[c][op])
        /\ \A c \in Channel, op \in Ops : \A v \in Alt : v[1] = t => old[c][op].a[v] = 0
    <2>1. \A c \in Channel, op \in Ops : \A v \in Members(alts[c][op]) : v[1] # t
      BY <1>3 DEF Inv, Listing, Waiting
    <2>2. QED
      BY <1>3, <2>1, ForgetAll DEF Inv, Listing
  <1> HIDE DEF old
  <1>8. /\ AllIndexed(alts')
        /\ \A c \in Channel, op \in Ops :
              Members(alts'[c][op])
                = Members(old[c][op]) \cup {<<t, n>> : n \in {k \in 1 .. Len(arr) : ForSet(arr, k, c, op)}}
    <2>1. ASSUME NEW n \in 1 .. Len(arr) PROVE Unlisted(old, t, n)
      <3>1. <<t, n>> \in Alt
        <4>1. Len(arr) \in Nat
          BY <1>2 DEF Shape
        <4>2. n \in 1 .. MaxAlts
          BY <4>1, <1>2, <1>4
        <4>3. QED
          BY <4>2, <1>3 DEF Alt
      <3>2. QED
        BY <3>1, <1>7 DEF Unlisted
    <2>2. QED
      BY <2>1, <1>1, <1>2, <1>3, <1>7, EnqueueAll
  <1>9. TypeOK'
    <2>1. alts' \in [Channel -> [{"RECV", "SEND"} -> [a : [Alt -> Nat], l : Seq(Alt)]]]
      BY <1>8 DEF AllIndexed, Ops
    <2>2. alt_array' \in [Task -> Shape] /\ resolved' \in [Task -> 0 .. MaxAlts]
      BY <1>1, <1>2, <1>3, <1>4
    <2>3. running' \in Thread
      BY <1>1 DEF Thread
    <2>4. QED
      BY <2>1, <2>2, <2>3, <1>1, <1>2 DEF Inv, TypeOK, Shape
  <1>10. Arrays'
    <2>1. ASSUME NEW u \in Task
          PROVE  /\ Len(alt_array'[u]) <= MaxAlts
                 /\ \A i \in DOMAIN alt_array'[u] :
                       alt_array'[u][i].op = "SEND" <=> alt_array'[u][i].p # NoMessage
                 /\ status'[u] = "new" => alt_array'[u] = <<>>
      <3>1. CASE u = t
        BY <3>1, <1>1, <1>2, <1>3, <1>5
      <3>2. CASE u # t
        BY <3>2, <1>1, <1>5 DEF Inv, Arrays
      <3>3. QED
        BY <3>1, <3>2
    <2>2. QED
      BY <2>1, <1>1 DEF Arrays
  <1>11. WokenOnce'
    <2>1. ASSUME NEW v \in On(tasks_runnable)
          PROVE  /\ status'[v] = "alive" /\ v # running'
                 /\ alt_array'[v] # <<>> => resolved'[v] \in DOMAIN alt_array'[v]
      <3>1. v \in Task
        BY DEF Inv, TypeOK, On
      <3>2. v # t
        BY <1>3
      <3>3. QED
        BY <3>1, <3>2, <1>1, <1>4, <1>5, WokenOnceIs DEF Inv
    <2>2. \A v \in Task : Blocked(v)' => resolved'[v] = 0
      BY <1>5, <1>6, WokenOnceIs DEF Inv
    <2>3. QED
      BY <2>1, <2>2, <1>1, WokenOnceIs, WokenOnceNext DEF Inv
  <1>12. Listing'
    <2>1. ASSUME NEW c \in Channel, NEW op \in Ops
          PROVE  Waiting(c, op)' =
                    Waiting(c, op) \cup {<<t, n>> : n \in {k \in 1 .. Len(arr) : ForSet(arr, k, c, op)}}
      <3>1. ASSUME NEW v \in Alt
            PROVE  v \in Waiting(c, op)' <=>
                      v \in Waiting(c, op) \cup {<<t, n>> : n \in {k \in 1 .. Len(arr) : ForSet(arr, k, c, op)}}
        <4>1. v[1] \in Task /\ v = <<v[1], v[2]>>
          BY DEF Alt
        <4>2. v \in Waiting(c, op)' <=>
                 Blocked(v[1])' /\ v[2] \in DOMAIN alt_array'[v[1]] /\ ForSet(alt_array'[v[1]], v[2], c, op)
          BY DEF Waiting
        <4>3. v \in Waiting(c, op) <=>
                 Blocked(v[1]) /\ v[2] \in DOMAIN alt_array[v[1]] /\ ForSet(alt_array[v[1]], v[2], c, op)
          BY DEF Waiting
        <4>4. v \in {<<t, n>> : n \in {k \in 1 .. Len(arr) : ForSet(arr, k, c, op)}}
                 <=> v[1] = t /\ v[2] \in 1 .. Len(arr) /\ ForSet(arr, v[2], c, op)
          BY <4>1
        <4>5. CASE v[1] = t
          BY <4>1, <4>2, <4>3, <4>4, <4>5, <1>2, <1>3, <1>5, <1>6
        <4>6. CASE v[1] # t
          BY <4>1, <4>2, <4>3, <4>4, <4>6, <1>5, <1>6
        <4>7. QED
          BY <4>5, <4>6
      <3>2. /\ Waiting(c, op)' \subseteq Alt /\ Waiting(c, op) \subseteq Alt
            /\ {<<t, n>> : n \in {k \in 1 .. Len(arr) : ForSet(arr, k, c, op)}} \subseteq Alt
        <4>1. ASSUME NEW n \in 1 .. Len(arr) PROVE <<t, n>> \in Alt
          <5>1. Len(arr) \in Nat
            BY <1>2 DEF Shape
          <5>2. n \in 1 .. MaxAlts
            BY <5>1, <1>2, <1>4
          <5>3. QED
            BY <5>2, <1>3 DEF Alt
        <4>2. QED
          BY <4>1 DEF Waiting
      <3>3. QED
        BY <3>1, <3>2
    <2>2. QED
      <3>1. ASSUME NEW c \in Channel, NEW op \in Ops
            PROVE  Members(alts'[c][op]) = Waiting(c, op)'
        <4>1. Members(alts'[c][op])
                = Members(old[c][op]) \cup {<<t, n>> : n \in {k \in 1 .. Len(arr) : ForSet(arr, k, c, op)}}
          BY <1>8
        <4>2. Members(old[c][op]) = Waiting(c, op)
          BY <1>7 DEF Inv, Listing
        <4>3. QED
          BY <4>1, <4>2, <2>1
      <3>2. QED
        BY <3>1, <1>8 DEF Listing
  <1>13. ASSUME NEW i \in DOMAIN arr
         PROVE  /\ arr[i].op = "SEND" => BufLen(arr[i].c) = Size[arr[i].c]
                /\ arr[i].op = "RECV" => BufLen(arr[i].c) = 0
                /\ arr[i].op # "NOP" =>
                     \A v \in Task : Blocked(v) =>
                         \A k \in DOMAIN alt_array[v] :
                             alt_array[v][k].c = arr[i].c => alt_array[v][k].op # Other(arr[i].op)
    <2> DEFINE c == arr[i].c
               op == arr[i].op
    <2>1. c \in Channel /\ op \in Op /\ buf[c] \in Buffer(c)
      BY <1>2 DEF Inv, TypeOK
    <2>2. ~ AltCanExec(arr[i])
      BY <1>1
    <2>3. BufLen(c) \in 0 .. Size[c] /\ Size[c] \in Nat
      BY <2>1, BufferLength
    <2>4. CASE Size[c] = 0
      <3>1. op # "NOP" => alts[c][Other(op)].l = <<>> /\ Other(op) \in Ops
        BY <2>2, <2>4 DEF AltCanExec, Other, Ops
      <3>2. BufLen(c) = 0
        BY <2>3, <2>4
      <3>3. ASSUME op # "NOP", NEW v \in Task, Blocked(v), NEW k \in DOMAIN alt_array[v],
                   alt_array[v][k].c = c
            PROVE  alt_array[v][k].op # Other(op)
        <4>1. ~ ForSet(alt_array[v], k, c, Other(op))
          BY <3>1, <3>3, <2>1, NotWaiting
        <4>2. QED
          BY <4>1, <3>3 DEF ForSet
      <3>4. QED
        BY <3>2, <3>3, <2>4
    <2>5. CASE Size[c] # 0
      <3>1. ~ (op = "SEND" /\ BufLen(c) < Size[c]) /\ ~ (op = "RECV" /\ BufLen(c) > 0)
        BY <2>2, <2>5, Zenon DEF AltCanExec
      <3> HIDE DEF c, op
      <3>2. (op = "SEND" => BufLen(c) = Size[c]) /\ (op = "RECV" => BufLen(c) = 0)
        BY <3>1, <2>3
      <3>3. ASSUME op # "NOP", NEW v \in Task, Blocked(v), NEW k \in DOMAIN alt_array[v],
                   alt_array[v][k].c = c
            PROVE  alt_array[v][k].op # Other(op)
        <4>1. /\ alt_array[v][k].op = "SEND" => BufLen(c) = Size[c]
              /\ alt_array[v][k].op = "RECV" => BufLen(c) = 0
          BY <3>3, Unmatched
        <4>2. CASE op = "SEND"
          BY <4>1, <4>2, <3>2, <2>5 DEF Other
        <4>3. CASE op = "RECV"
          BY <4>1, <4>3, <3>2, <2>5 DEF Other
        <4>4. QED
          BY <4>2, <4>3, <3>3, <2>1 DEF Op
      <3>4. QED
        BY <3>2, <3>3 DEF c, op
    <2>6. QED
      BY <2>4, <2>5
  <1>14. NoMissedMatch'
    <2>1. ASSUME NEW u \in Task, Blocked(u)', NEW j \in DOMAIN alt_array'[u]
          PROVE  Idle(u, j)' /\ Unpaired(u, j)'
      <3>1. CASE u = t
        <4>1. alt_array'[u] = arr /\ j \in DOMAIN arr
          BY <3>1, <2>1, <1>5
        <4>2. Idle(u, j)'
          BY <4>1, <1>1, <1>13 DEF Idle, BufLen
        <4>3. ASSUME arr[j].op # "NOP", NEW v \in Task \ {u}, Blocked(v)', NEW k \in DOMAIN alt_array'[v],
                     alt_array'[v][k].c = arr[j].c
              PROVE  alt_array'[v][k].op # Other(arr[j].op)
          <5>1. Blocked(v) /\ alt_array'[v] = alt_array[v]
            BY <4>3, <3>1, <1>5, <1>6
          <5>2. QED
            BY <5>1, <4>1, <4>3, <1>13
        <4>4. Unpaired(u, j)'
          BY <4>1, <4>3 DEF Unpaired
        <4>5. QED
          BY <4>2, <4>4
      <3>2. CASE u # t
        <4>1. Blocked(u) /\ alt_array'[u] = alt_array[u] /\ j \in DOMAIN alt_array[u]
          BY <3>2, <2>1, <1>5, <1>6
        <4>2. Idle(u, j) /\ Unpaired(u, j) /\ alt_array[u][j].op \in Op
          BY <4>1, NoMissedMatchIs, AltsAre DEF Inv
        <4>3. Idle(u, j)'
          BY <4>1, <4>2, <1>1 DEF Idle, BufLen
        <4>4. ASSUME alt_array[u][j].op # "NOP", NEW v \in Task \ {u}, Blocked(v)', NEW k \in DOMAIN alt_array'[v],
                     alt_array'[v][k].c = alt_array[u][j].c
              PROVE  alt_array'[v][k].op # Other(alt_array[u][j].op)
          <5>1. CASE v = t
            <6>1. /\ alt_array'[v] = arr /\ k \in DOMAIN arr /\ arr[k].c = alt_array[u][j].c
                  /\ arr[k].op \in Op
              BY <5>1, <4>4, <1>2, <1>5
            <6>2. arr[k].op # "NOP" => alt_array[u][j].op # Other(arr[k].op)
              BY <6>1, <4>1, <1>13
            <6>3. QED
              BY <6>1, <6>2, <4>2, <4>4 DEF Op, Other
          <5>2. CASE v # t
            <6>1. Blocked(v) /\ alt_array'[v] = alt_array[v]
              BY <5>2, <4>4, <1>5, <1>6
            <6>2. QED
              BY <6>1, <4>2, <4>4 DEF Unpaired
          <5>3. QED
            BY <5>1, <5>2
        <4>5. Unpaired(u, j)'
          BY <4>1, <4>4 DEF Unpaired
        <4>6. QED
          BY <4>3, <4>5
      <3>3. QED
        BY <3>1, <3>2
    <2>2. QED
      BY <2>1, NoMissedMatchNext
  <1>15. Filled'
    BY <1>1 DEF Inv, Filled
  <1>16. QED
    BY <1>3, <1>6, <1>9, <1>10, <1>11, <1>12, <1>14, <1>15 DEF Inv, Joins

-----------------------------------------------------------------------------
(* Every step keeps it. *)

LEMMA CallsAre ==
    ASSUME ~ Reuse, Inv, Calls(running)
    PROVE  \E arr : AltExec(running, arr, FALSE) \/ AltBlock(running, arr, FALSE)
  BY DEF Calls, Again

\* altexec() with a partner, as the lemmas want it
Executes(t, arr) ==
    \E i \in DOMAIN arr :
        /\ AltCanExec(arr[i])
        /\ \/ AltExecAlone(t, arr, i)
           \/ \E u, n : Waits(u, n, arr[i].c, Other(arr[i].op)) /\ AltExecWith(t, arr, i, u, n)

LEMMA AltExecIs ==
    ASSUME Inv, NEW t, NEW arr, AltExec(t, arr, FALSE)
    PROVE  Call(t, arr, FALSE) /\ Executes(t, arr)
  <1>1. Call(t, arr, FALSE)
    BY DEF AltExec
  <1>2. PICK i \in DOMAIN arr :
           /\ AltCanExec(arr[i])
           /\ \/ AltExecAlone(t, arr, i)
              \/ \E k \in DOMAIN alts[arr[i].c][Other(arr[i].op)].l :
                    AltExecWith(t, arr, i, alts[arr[i].c][Other(arr[i].op)].l[k][1],
                                           alts[arr[i].c][Other(arr[i].op)].l[k][2])
    BY DEF AltExec
  <1>3. arr[i].c \in Channel /\ Other(arr[i].op) \in Ops
    BY <1>1, <1>2, ExecutableIs
  <1>4. \A k \in DOMAIN alts[arr[i].c][Other(arr[i].op)].l :
           Waits(alts[arr[i].c][Other(arr[i].op)].l[k][1],
                 alts[arr[i].c][Other(arr[i].op)].l[k][2], arr[i].c, Other(arr[i].op))
    BY <1>3, IsWaiting
  <1>5. QED
    BY <1>1, <1>2, <1>4 DEF Executes

LEMMA NextInv ==
    ASSUME ~ Reuse, Inv, [Next]_vars
    PROVE  Inv'
  <1>1. CASE Calls(running)
    <2>1. PICK arr : AltExec(running, arr, FALSE) \/ AltBlock(running, arr, FALSE)
      BY <1>1, CallsAre
    <2>2. CASE AltExec(running, arr, FALSE)
      <3>1. Call(running, arr, FALSE) /\ Executes(running, arr)
        BY <2>2, AltExecIs
      <3>2. PICK i \in DOMAIN arr :
               /\ AltCanExec(arr[i])
               /\ \/ AltExecAlone(running, arr, i)
                  \/ \E u, n : /\ Waits(u, n, arr[i].c, Other(arr[i].op))
                               /\ AltExecWith(running, arr, i, u, n)
        BY <3>1 DEF Executes
      <3>3. CASE AltExecAlone(running, arr, i)
        BY <3>1, <3>2, <3>3, AltExecAloneInv
      <3>4. ASSUME NEW u, NEW n, Waits(u, n, arr[i].c, Other(arr[i].op)),
                   AltExecWith(running, arr, i, u, n)
            PROVE  Inv'
        BY <3>1, <3>2, <3>4, AltExecWithInv DEF Waits
      <3>5. QED
        BY <3>2, <3>3, <3>4
    <2>3. CASE AltBlock(running, arr, FALSE)
      <3>1. running \in Thread
        BY DEF Inv, TypeOK
      <3>2. QED
        BY <2>3, <3>1, AltBlockInv
    <2>4. QED
      BY <2>1, <2>2, <2>3
  <1>2. ASSUME NEW t \in Task, Spawn(t) PROVE Inv'
    BY <1>2, SpawnInv
  <1>3. ASSUME NEW t \in Task, CoroutineResume(t) PROVE Inv'
    BY <1>3, CoroutineResumeInv
  <1>4. CASE StartScheduler \/ SchedulerReturns
    BY <1>4, SchedulerInv
  <1>5. ASSUME NEW keep \in Again, ResumeTask(keep) PROVE Inv'
    <2>1. keep = FALSE
      BY DEF Again
    <2>2. QED
      BY <1>5, <2>1, ResumeTaskInv
  <1>6. ASSUME NEW fails \in BOOLEAN, End(fails) PROVE Inv'
    BY <1>6, EndInv
  <1>7. CASE UNCHANGED vars
    <2>1. UNCHANGED <<tasks_runnable, running, scheduling, status, alt_array, resolved, buf, alts, sends, out>>
      BY <1>7 DEF vars, sched, arrays
    <2>2. TypeOK'
      BY <2>1 DEF Inv, TypeOK
    <2>3. Arrays'
      BY <2>1 DEF Inv, Arrays
    <2>4. Still
      BY <2>1, BlockedIs DEF Still
    <2>5. WokenOnce'
      BY <2>1, <2>4, WokenOnceIs, WokenOnceNext DEF Inv, Still
    <2>6. QED
      BY <2>1, <2>2, <2>3, <2>4, <2>5, StillInv
  <1>8. QED
    BY <1>1, <1>2, <1>3, <1>4, <1>5, <1>6, <1>7 DEF Next

LEMMA InvHolds ==
    ASSUME ~ Reuse
    PROVE  Spec => []Inv
  <1>1. Init => Inv
    BY InitInv
  <1>2. Inv /\ [Next]_vars => Inv'
    BY NextInv
  <1>3. QED
    BY <1>1, <1>2, PTL DEF Spec

\* The state has the types that task.lua relies on: in particular the places
\* in a Set's a are those of alts, and the indices of a CircularBuffer stay
\* within it.
THEOREM TaskTyped ==
    ASSUME ~ Reuse
    PROVE  Spec => []TypeOK
  <1>1. Inv => TypeOK
    BY DEF Inv
  <1>2. QED
    BY <1>1, InvHolds, PTL

\* The Sets of a channel list the alts of the tasks that wait, each once and
\* where a says: altalldequeue() finds what it removes, and nobody offers to
\* exchange with a task that has been woken.
THEOREM SetsRight ==
    ASSUME ~ Reuse
    PROVE  Spec => []SetsListBlocked
  <1>1. Inv => SetsListBlocked
    BY ListingIs DEF Inv
  <1>2. QED
    BY <1>1, InvHolds, PTL

\* A task is woken once: altexec() never pushes one that is runnable, runs or
\* has ended.
THEOREM WokenOnceHolds ==
    ASSUME ~ Reuse
    PROVE  Spec => []WokenOnce
  <1>1. Inv => WokenOnce
    BY DEF Inv
  <1>2. QED
    BY <1>1, InvHolds, PTL

\* No task waits in chanalt() for what could be done now, through a buffer or
\* with another that waits.
THEOREM NoMatchMissed ==
    ASSUME ~ Reuse
    PROVE  Spec => []NoMissedMatch
  <1>1. Inv => NoMissedMatch
    BY DEF Inv
  <1>2. QED
    BY <1>1, InvHolds, PTL

-----------------------------------------------------------------------------
(* Messages.  A channel's stream is what was received and what its buffer  *)
(* holds; a step adds to it what was in no stream before.                  *)

LEMMA StreamIs ==
    /\ stream = [c \in Channel |-> out[c] \o Held(buf[c], c)]
    /\ stream' = [c \in Channel |-> out'[c] \o Held(buf'[c], c)]
  BY DEF stream, Contents, BufLen, Held

LEMMA StreamTyped ==
    ASSUME TypeOK, Filled
    PROVE  stream \in [Channel -> Seq(Message)]
  <1>1. ASSUME NEW c \in Channel PROVE out[c] \o Held(buf[c], c) \in Seq(Message)
    BY DEF TypeOK, Filled
  <1>2. QED
    BY <1>1, StreamIs

LEMMA SentNext ==
    ASSUME stream \in [Channel -> Seq(Message)], NEW c \in Channel, NEW m \in Message,
           stream' = [stream EXCEPT ![c] = Append(stream[c], m)]
    PROVE  S!Sent' = S!Sent \cup {m}
  <1> DEFINE s == stream[c]
  <1>1. /\ s \in Seq(Message) /\ Len(s) \in Nat /\ DOMAIN s = 1 .. Len(s)
        /\ DOMAIN Append(s, m) = 1 .. Len(s) + 1 /\ Append(s, m)[Len(s) + 1] = m
        /\ \A k \in 1 .. Len(s) : Append(s, m)[k] = s[k]
    OBVIOUS
  <1>2. stream'[c] = Append(s, m) /\ \A d \in Channel \ {c} : stream'[d] = stream[d]
    OBVIOUS
  <1>3. ASSUME NEW x \in Message
        PROVE  (\E d \in Channel : \E k \in DOMAIN stream'[d] : stream'[d][k] = x)
                 <=> (\E d \in Channel : \E k \in DOMAIN stream[d] : stream[d][k] = x) \/ x = m
    <2> HIDE DEF s
    <2>1. (\E k \in DOMAIN stream'[c] : stream'[c][k] = x) <=> (\E k \in DOMAIN s : s[k] = x) \/ x = m
      <3>1. 1 .. Len(s) + 1 = (1 .. Len(s)) \cup {Len(s) + 1}
        BY <1>1
      <3>2. QED
        BY <3>1, <1>1, <1>2
    <2>2. QED
      BY <2>1, <1>2 DEF s
  <1>4. S!Sent' = {x \in Message : \E d \in Channel : \E k \in DOMAIN stream'[d] : stream'[d][k] = x}
    BY DEF S!Sent
  <1>5. S!Sent = {x \in Message : \E d \in Channel : \E k \in DOMAIN stream[d] : stream[d][k] = x}
    BY DEF S!Sent
  <1>6. ASSUME NEW x PROVE x \in S!Sent' <=> x \in S!Sent \/ x = m
    <2>1. CASE x \in Message
      BY <2>1, <1>3, <1>4, <1>5
    <2>2. CASE x \notin Message
      BY <2>2, <1>4, <1>5
    <2>3. QED
      BY <2>1, <2>2
  <1>7. QED
    BY <1>6

LEMMA MovesStream ==
    ASSUME TypeOK, Filled, NEW c \in Channel, NEW h, NEW o, Moves(c, h, o)
    PROVE  /\ stream' = [stream EXCEPT ![c] = o \o h]
           /\ stream'[c] = o \o h /\ out'[c] = o /\ out' = [out EXCEPT ![c] = o]
           /\ h \in Seq(Message) /\ o \in Seq(Message) /\ Len(h) <= Size[c]
  <1>1. /\ out' = [out EXCEPT ![c] = o] /\ out \in [Channel -> Seq(Message)]
        /\ Held(buf'[c], c) = h /\ \A d \in Channel \ {c} : buf'[d] = buf[d]
        /\ h \in Seq(Message) /\ o \in Seq(Message) /\ buf'[c] \in Buffer(c)
    BY DEF Moves, TypeOK
  <1>2. ASSUME NEW d \in Channel
        PROVE  out'[d] \o Held(buf'[d], d) = IF d = c THEN o \o h ELSE out[d] \o Held(buf[d], d)
    BY <1>1
  <1>3. stream' = [d \in Channel |-> IF d = c THEN o \o h ELSE stream[d]]
    BY <1>2, StreamIs
  <1>4. Len(h) <= Size[c]
    <2>1. /\ Len(Held(buf'[c], c)) = Gap(buf'[c].l, buf'[c].r, Slots(c))
          /\ Gap(buf'[c].l, buf'[c].r, Slots(c)) \in 0 .. Size[c] /\ Size[c] \in Nat
      BY <1>1, HeldIs
    <2>2. QED
      BY <2>1, <1>1
  <1>5. stream \in [Channel -> Seq(Message)]
    BY StreamTyped
  <1>6. QED
    BY <1>1, <1>3, <1>4, <1>5

LEMMA Concats ==
    ASSUME NEW x \in Seq(Message), NEW h \in Seq(Message), NEW m \in Message
    PROVE  /\ x \o Append(h, m) = Append(x \o h, m)
           /\ h = <<>> => Append(x, m) \o <<>> = Append(x \o h, m)
           /\ h # <<>> => Append(x, Head(h)) \o Tail(h) = x \o h
           /\ h # <<>> => Append(x, Head(h)) \o Append(Tail(h), m) = Append(x \o h, m)
  <1>1. ASSUME NEW y \in Seq(Message), NEW g \in Seq(Message)
        PROVE  y \o Append(g, m) = Append(y \o g, m)
    <2>1. /\ y \o Append(g, m) \in Seq(Message) /\ Append(y \o g, m) \in Seq(Message)
          /\ Len(y \o Append(g, m)) = Len(Append(y \o g, m))
      OBVIOUS
    <2>2. \A k \in 1 .. Len(y \o Append(g, m)) : (y \o Append(g, m))[k] = Append(y \o g, m)[k]
      OBVIOUS
    <2>3. QED
      BY <2>1, <2>2, SeqEqual
  <1>2. h = <<>> => Append(x, m) \o <<>> = Append(x \o h, m)
    OBVIOUS
  <1>3. h # <<>> => Append(x, Head(h)) \o Tail(h) = x \o h
    <2> SUFFICES ASSUME h # <<>> PROVE Append(x, Head(h)) \o Tail(h) = x \o h
      OBVIOUS
    <2>1. /\ Head(h) \in Message /\ Tail(h) \in Seq(Message) /\ Len(h) # 0
          /\ Append(x, Head(h)) \in Seq(Message) /\ Len(Tail(h)) = Len(h) - 1
          /\ \A k \in 1 .. Len(h) - 1 : Tail(h)[k] = h[k + 1]
          /\ Head(h) = h[1]
      OBVIOUS
    <2>2. /\ Append(x, Head(h)) \o Tail(h) \in Seq(Message) /\ x \o h \in Seq(Message)
          /\ Len(Append(x, Head(h)) \o Tail(h)) = Len(x \o h)
          /\ Len(x \o h) = Len(x) + Len(h)
      BY <2>1
    <2>3. \A k \in 1 .. Len(x) + Len(h) : (Append(x, Head(h)) \o Tail(h))[k] = (x \o h)[k]
      BY <2>1
    <2>4. QED
      BY <2>2, <2>3, SeqEqual
  <1>4. h # <<>> => Append(x, Head(h)) \o Append(Tail(h), m) = Append(x \o h, m)
    <2> SUFFICES ASSUME h # <<>> PROVE Append(x, Head(h)) \o Append(Tail(h), m) = Append(x \o h, m)
      OBVIOUS
    <2>1. Append(x, Head(h)) \in Seq(Message) /\ Tail(h) \in Seq(Message)
      OBVIOUS
    <2>2. QED
      BY <2>1, <1>1, <1>3
  <1>5. QED
    BY <1>1, <1>2, <1>3, <1>4

LEMMA Received ==
    ASSUME NEW x \in Seq(Message), NEW m \in Message, NEW h \in Seq(Message)
    PROVE  /\ Len(x) < Len(Append(x, m) \o h)
           /\ SubSeq(Append(x, m) \o h, 1, Len(x) + 1) = Append(x, m)
           /\ Len(Append(x, m) \o h) = Len(Append(x, m)) + Len(h)
  <1> DEFINE o == Append(x, m)
  <1>1. o \in Seq(Message) /\ Len(o) = Len(x) + 1 /\ Len(x) \in Nat /\ Len(h) \in Nat
    OBVIOUS
  <1> HIDE DEF o
  <1>2. Len(o \o h) = Len(o) + Len(h) /\ \A k \in 1 .. Len(o) : (o \o h)[k] = o[k]
    BY <1>1
  <1>3. /\ SubSeq(o \o h, 1, Len(o)) \in Seq(Message) /\ Len(SubSeq(o \o h, 1, Len(o))) = Len(o)
        /\ \A k \in 1 .. Len(o) : SubSeq(o \o h, 1, Len(o))[k] = o[k]
    BY <1>1, <1>2
  <1>4. SubSeq(o \o h, 1, Len(o)) = o
    BY <1>1, <1>3, SeqEqual
  <1>5. QED
    BY <1>1, <1>2, <1>4 DEF o

\* What a step may do to the stream of c
Adds(c, m) == stream' = [stream EXCEPT ![c] = Append(stream[c], m)]

LEMMA ReceiveStep ==
    ASSUME TypeOK, Filled, NEW c \in Channel, Held(buf[c], c) # <<>>,
           Moves(c, Tail(Held(buf[c], c)), Append(out[c], Head(Held(buf[c], c))))
    PROVE  stream' = stream /\ S!Next
  <1> DEFINE h == Held(buf[c], c)
             x == out[c]
  <1>1. h \in Seq(Message) /\ x \in Seq(Message) /\ stream \in [Channel -> Seq(Message)] /\ Size[c] \in Nat
    BY StreamTyped, TaskAssumption DEF TypeOK, Filled
  <1>2. stream[c] = x \o h
    BY StreamIs
  <1>3. /\ stream' = [stream EXCEPT ![c] = Append(x, Head(h)) \o Tail(h)]
        /\ stream'[c] = Append(x, Head(h)) \o Tail(h) /\ out'[c] = Append(x, Head(h))
        /\ Tail(h) \in Seq(Message) /\ Len(Tail(h)) <= Size[c]
        /\ out' = [out EXCEPT ![c] = Append(x, Head(h))]
    BY MovesStream
  <1>4. h # <<>>
    OBVIOUS
  <1> HIDE DEF h
  <1>5. Head(h) \in Message
    BY <1>1, <1>4
  <1>6. stream' = stream
    <2>1. Append(x, Head(h)) \o Tail(h) = stream[c]
      BY <1>1, <1>2, <1>4, <1>5, Concats
    <2>2. QED
      BY <2>1, <1>1, <1>3
  <1>7. /\ Len(x) < Len(stream'[c])
        /\ SubSeq(stream'[c], 1, Len(x) + 1) = Append(x, Head(h))
        /\ Len(stream'[c]) = Len(out'[c]) + Len(Tail(h))
    <2>1. Tail(h) \in Seq(Message)
      BY <1>3
    <2>2. /\ Len(x) < Len(Append(x, Head(h)) \o Tail(h))
          /\ SubSeq(Append(x, Head(h)) \o Tail(h), 1, Len(x) + 1) = Append(x, Head(h))
          /\ Len(Append(x, Head(h)) \o Tail(h)) = Len(Append(x, Head(h))) + Len(Tail(h))
      BY <1>1, <1>5, <2>1, Received
    <2>3. stream'[c] = Append(x, Head(h)) \o Tail(h) /\ out'[c] = Append(x, Head(h))
      BY <1>1, <1>3 DEF TypeOK
    <2>4. QED
      BY <2>2, <2>3
  <1>8. Len(out'[c]) \in Nat /\ Len(Tail(h)) \in Nat
    BY <1>1, <1>3, <1>5
  <1>9. S!Receive(c)
    <2>1. out' = [out EXCEPT ![c] = SubSeq(stream'[c], 1, Len(out[c]) + 1)]
      BY <1>3, <1>7
    <2>2. QED
      BY <2>1, <1>7 DEF S!Receive
  <1>10. Len(stream'[c]) <= Len(out'[c]) + Size[c]
    BY <1>1, <1>3, <1>7, <1>8
  <1>11. QED
    BY <1>6, <1>9, <1>10 DEF S!Next

LEMMA SendStep ==
    ASSUME TypeOK, Filled, NEW c \in Channel, NEW m \in Message, m \notin S!Sent,
           Moves(c, Append(Held(buf[c], c), m), out[c])
    PROVE  Adds(c, m) /\ S!Next
  <1> DEFINE h == Held(buf[c], c)
             x == out[c]
  <1>1. /\ h \in Seq(Message) /\ x \in Seq(Message) /\ stream \in [Channel -> Seq(Message)]
        /\ out \in [Channel -> Seq(Message)] /\ Size[c] \in Nat
    BY StreamTyped, TaskAssumption DEF TypeOK, Filled
  <1>2. stream[c] = x \o h
    BY StreamIs
  <1>3. /\ stream' = [stream EXCEPT ![c] = x \o Append(h, m)]
        /\ stream'[c] = x \o Append(h, m) /\ out'[c] = x
        /\ Append(h, m) \in Seq(Message) /\ Len(Append(h, m)) <= Size[c]
        /\ out' = [out EXCEPT ![c] = x]
    BY MovesStream
  <1> HIDE DEF h
  <1>4. Adds(c, m)
    <2>1. x \o Append(h, m) = Append(stream[c], m)
      BY <1>1, <1>2, Concats
    <2>2. QED
      BY <2>1, <1>3 DEF Adds
  <1>5. out' = out
    BY <1>1, <1>3
  <1>6. S!Send(c)
    BY <1>4 DEF S!Send, Adds
  <1>7. Len(stream'[c]) <= Len(out'[c]) + Size[c]
    <2>1. Len(stream'[c]) = Len(x) + Len(Append(h, m))
      BY <1>1, <1>3
    <2>2. Len(x) \in Nat /\ Len(Append(h, m)) \in Nat
      BY <1>1
    <2>3. QED
      BY <2>1, <2>2, <1>1, <1>3
  <1>8. QED
    BY <1>4, <1>5, <1>6, <1>7 DEF S!Next

LEMMA ExchangeStep ==
    ASSUME TypeOK, Filled, NEW c \in Channel, NEW m \in Message, m \notin S!Sent,
           \/ /\ Held(buf[c], c) = <<>>
              /\ Moves(c, <<>>, Append(out[c], m))
           \/ /\ Held(buf[c], c) # <<>>
              /\ Moves(c, Append(Tail(Held(buf[c], c)), m), Append(out[c], Head(Held(buf[c], c))))
    PROVE  Adds(c, m) /\ S!Next
  <1> DEFINE h == Held(buf[c], c)
             x == out[c]
  <1>1. /\ h \in Seq(Message) /\ x \in Seq(Message) /\ stream \in [Channel -> Seq(Message)]
        /\ Size[c] \in Nat
    BY StreamTyped, TaskAssumption DEF TypeOK, Filled
  <1>2. stream[c] = x \o h
    BY StreamIs
  <1> HIDE DEF h
  <1>3. \E y \in Message, g \in Seq(Message) :
           /\ Append(x, y) \o g = Append(x \o h, m)
           /\ Moves(c, g, Append(x, y))
    <2>1. CASE h = <<>>
      <3>1. Append(x, m) \o <<>> = Append(x \o h, m) /\ <<>> \in Seq(Message)
        BY <2>1, <1>1, Concats
      <3>2. Moves(c, <<>>, Append(x, m))
        BY <2>1 DEF h
      <3>3. QED
        BY <3>1, <3>2
    <2>2. CASE h # <<>>
      <3>1. Head(h) \in Message /\ Append(Tail(h), m) \in Seq(Message)
        BY <2>2, <1>1
      <3>2. Append(x, Head(h)) \o Append(Tail(h), m) = Append(x \o h, m)
        BY <2>2, <1>1, Concats
      <3>3. Moves(c, Append(Tail(h), m), Append(x, Head(h)))
        BY <2>2 DEF h
      <3>4. QED
        BY <3>1, <3>2, <3>3
    <2>3. QED
      BY <2>1, <2>2
  <1>4. PICK y \in Message, g \in Seq(Message) :
           /\ Append(x, y) \o g = Append(x \o h, m)
           /\ Moves(c, g, Append(x, y))
    BY <1>3
  <1>5. /\ stream' = [stream EXCEPT ![c] = Append(x, y) \o g]
        /\ stream'[c] = Append(x, y) \o g /\ out'[c] = Append(x, y)
        /\ Len(g) <= Size[c] /\ out' = [out EXCEPT ![c] = Append(x, y)]
    BY <1>4, MovesStream
  <1>6. Adds(c, m)
    BY <1>2, <1>4, <1>5 DEF Adds
  <1>7. S!Send(c)
    BY <1>6 DEF S!Send, Adds
  <1>8. /\ Len(x) < Len(stream'[c])
        /\ SubSeq(stream'[c], 1, Len(x) + 1) = Append(x, y)
        /\ Len(stream'[c]) = Len(out'[c]) + Len(g)
    <2>1. /\ Len(x) < Len(Append(x, y) \o g)
          /\ SubSeq(Append(x, y) \o g, 1, Len(x) + 1) = Append(x, y)
          /\ Len(Append(x, y) \o g) = Len(Append(x, y)) + Len(g)
      BY <1>1, Received
    <2>2. QED
      BY <2>1, <1>5
  <1>9. S!Receive(c)
    <2>1. out' = [out EXCEPT ![c] = SubSeq(stream'[c], 1, Len(out[c]) + 1)]
      BY <1>5, <1>8
    <2>2. QED
      BY <2>1, <1>8 DEF S!Receive
  <1>10. Len(stream'[c]) <= Len(out'[c]) + Size[c]
    <2>1. Len(out'[c]) \in Nat /\ Len(g) \in Nat
      BY <1>1, <1>5
    <2>2. QED
      BY <2>1, <1>1, <1>5, <1>8
  <1>11. QED
    BY <1>6, <1>7, <1>9, <1>10 DEF S!Next

-----------------------------------------------------------------------------
(* Steps that leave the channels alone, and those of chanalt() *)

LEMMA MessagesIs ==
    ASSUME Messages, NEW t \in Task, Blocked(t), NEW i \in DOMAIN alt_array[t],
           alt_array[t][i].op = "SEND"
    PROVE  /\ alt_array[t][i].p \in (1 .. sends) \ S!Sent
           /\ \A u \in Task \ {t} : Blocked(u) =>
                 \A j \in DOMAIN alt_array[u] : alt_array[u][j].p # alt_array[t][i].p
  BY DEF Messages

\* The waiting tasks are some of those that waited, with the same alts; what is
\* new in the streams was nobody else's.
Fewer == \A t \in Task : Blocked(t)' => Blocked(t) /\ alt_array'[t] = alt_array[t]
News(new) ==
    /\ S!Sent' \subseteq S!Sent \cup new /\ new \subseteq 1 .. sends'
    /\ \A t \in Task : Blocked(t)' =>
          \A i \in DOMAIN alt_array[t] :
             alt_array[t][i].op = "SEND" => alt_array[t][i].p \notin new

LEMMA MessagesKept ==
    ASSUME Messages, sends \in Nat, sends' \in Nat, sends <= sends', Fewer, NEW new, News(new)
    PROVE  Messages'
  <1>1. S!Sent' \subseteq 1 .. sends'
    <2>1. S!Sent \subseteq 1 .. sends
      BY DEF Messages
    <2>2. 1 .. sends \subseteq 1 .. sends'
      OBVIOUS
    <2>3. QED
      BY <2>1, <2>2 DEF News
  <1>2. ASSUME NEW t \in Task, Blocked(t)', NEW i \in DOMAIN alt_array'[t],
               alt_array'[t][i].op = "SEND"
        PROVE  /\ alt_array'[t][i].p \in (1 .. sends') \ S!Sent'
               /\ \A u \in Task \ {t} : Blocked(u)' =>
                     \A j \in DOMAIN alt_array'[u] : alt_array'[u][j].p # alt_array'[t][i].p
    <2>1. Blocked(t) /\ alt_array'[t] = alt_array[t] /\ alt_array[t][i].p \notin new
      BY <1>2 DEF Fewer, News
    <2>2. alt_array[t][i].p \in (1 .. sends) \ S!Sent
      BY <2>1, <1>2, MessagesIs
    <2>3. alt_array[t][i].p \in 1 .. sends'
      BY <2>2
    <2>4. ASSUME NEW u \in Task \ {t}, Blocked(u)', NEW j \in DOMAIN alt_array'[u]
          PROVE  alt_array'[u][j].p # alt_array'[t][i].p
      <3>1. Blocked(u) /\ alt_array'[u] = alt_array[u]
        BY <2>4 DEF Fewer
      <3>2. QED
        BY <3>1, <2>1, <2>4, <1>2, MessagesIs
    <2>5. S!Sent' \subseteq S!Sent \cup new
      BY DEF News
    <2>6. QED
      BY <2>1, <2>2, <2>3, <2>4, <2>5
  <1>3. QED
    BY <1>1, <1>2 DEF Messages

LEMMA QuietMessages ==
    ASSUME Inv, Messages, Still, UNCHANGED <<buf, out, sends>>
    PROVE  Messages' /\ UNCHANGED <<stream, out>>
  <1>1. UNCHANGED <<stream, out>>
    BY DEF stream, Contents, BufLen
  <1>2. S!Sent' = S!Sent
    BY <1>1 DEF S!Sent
  <1>3. sends \in Nat
    BY TaskAssumption DEF Inv, TypeOK
  <1>4. Messages'
    <2>1. News({})
      BY <1>2 DEF News
    <2>2. Fewer
      BY DEF Still, Fewer
    <2>3. sends' \in Nat /\ sends <= sends'
      BY <1>3
    <2>4. QED
      BY <2>1, <2>2, <2>3, <1>3, MessagesKept
  <1>5. QED
    BY <1>1, <1>4

LEMMA AltExecAloneStep ==
    ASSUME Inv, Messages, NEW t, NEW arr, Call(t, arr, FALSE), NEW i \in DOMAIN arr,
           AltCanExec(arr[i]), AltExecAlone(t, arr, i)
    PROVE  Messages' /\ S!Next
  <1> DEFINE c == arr[i].c
  <1>1. ThroughBufferOf(c) /\ Still /\ c \in Channel
    BY AloneMoves, AltExecAloneInv, ExecutableIs
  <1>2. /\ sends \in Nat /\ sends' \in Nat /\ sends <= sends'
        /\ TypeOK /\ Filled /\ stream \in [Channel -> Seq(Message)]
    <2>1. sends' \in 0 .. MaxSends /\ sends <= sends'
      BY CallIs DEF Inv
    <2>2. sends \in Nat /\ MaxSends \in Nat
      BY TaskAssumption DEF Inv, TypeOK
    <2>3. TypeOK /\ Filled
      BY DEF Inv
    <2>4. QED
      BY <2>1, <2>2, <2>3, StreamTyped
  <1>3. Fewer
    BY <1>1 DEF Still, Fewer
  <1> HIDE DEF c
  <1>4. CASE /\ Held(buf[c], c) # <<>>
             /\ Moves(c, Tail(Held(buf[c], c)), Append(out[c], Head(Held(buf[c], c))))
    <2>1. stream' = stream /\ S!Next
      BY <1>1, <1>2, <1>4, ReceiveStep
    <2>2. News({})
      BY <2>1 DEF News, S!Sent
    <2>3. QED
      BY <2>1, <2>2, <1>2, <1>3, MessagesKept
  <1>5. CASE /\ sends + 1 \in Message /\ sends' = sends + 1
             /\ Moves(c, Append(Held(buf[c], c), sends + 1), out[c])
    <2>1. S!Sent \subseteq 1 .. sends
      BY DEF Messages
    <2>2. sends + 1 \notin S!Sent
      BY <2>1, <1>2
    <2>3. Adds(c, sends + 1) /\ S!Next
      BY <2>2, <1>1, <1>2, <1>5, SendStep
    <2>4. S!Sent' = S!Sent \cup {sends + 1}
      BY <2>3, <1>1, <1>2, <1>5, SentNext DEF Adds
    <2>5. News({sends + 1})
      <3>1. ASSUME NEW u \in Task, Blocked(u)', NEW j \in DOMAIN alt_array[u],
                   alt_array[u][j].op = "SEND"
            PROVE  alt_array[u][j].p # sends + 1
        <4>1. alt_array[u][j].p \in 1 .. sends
          BY <3>1, <1>3, MessagesIs DEF Fewer
        <4>2. QED
          BY <4>1, <1>2
      <3>2. {sends + 1} \subseteq 1 .. sends'
        BY <1>2, <1>5
      <3>3. QED
        BY <3>1, <3>2, <2>4 DEF News
    <2>6. QED
      BY <2>3, <2>5, <1>2, <1>3, MessagesKept
  <1>6. QED
    BY <1>1, <1>4, <1>5 DEF ThroughBufferOf

LEMMA AltExecWithStep ==
    ASSUME Inv, Messages, NEW t, NEW arr, Call(t, arr, FALSE), NEW i \in DOMAIN arr,
           AltCanExec(arr[i]), NEW u \in Task, Blocked(u), NEW n \in DOMAIN alt_array[u],
           alt_array[u][n].c = arr[i].c, alt_array[u][n].op = Other(arr[i].op),
           AltExecWith(t, arr, i, u, n)
    PROVE  Messages' /\ S!Next
  <1> DEFINE c == arr[i].c
             h == Held(buf[c], c)
  <1>1. PICK m \in Message :
           /\ \/ m = sends + 1 /\ sends' = sends + 1
              \/ alt_array[u][n].op = "SEND" /\ m = alt_array[u][n].p
           /\ \/ h = <<>> /\ Moves(c, <<>>, Append(out[c], m))
              \/ h # <<>> /\ Moves(c, Append(Tail(h), m), Append(out[c], Head(h)))
    BY WithMoves
  <1>2. Wakes(u) /\ c \in Channel /\ alt_array' = alt_array
    BY AltExecWithInv, ExecutableIs DEF AltExecWith
  <1>3. /\ sends \in Nat /\ sends' \in Nat /\ sends <= sends'
        /\ TypeOK /\ Filled /\ stream \in [Channel -> Seq(Message)]
    <2>1. sends' \in 0 .. MaxSends /\ sends <= sends'
      BY CallIs DEF Inv
    <2>2. sends \in Nat /\ MaxSends \in Nat
      BY TaskAssumption DEF Inv, TypeOK
    <2>3. TypeOK /\ Filled
      BY DEF Inv
    <2>4. QED
      BY <2>1, <2>2, <2>3, StreamTyped
  <1>4. Fewer
    BY <1>2 DEF Wakes, Fewer
  <1>5. S!Sent \subseteq 1 .. sends
    BY DEF Messages
  <1> HIDE DEF c, h
  <1>6. m \notin S!Sent /\ m \in 1 .. sends'
    <2>1. CASE m = sends + 1 /\ sends' = sends + 1
      BY <2>1, <1>3, <1>5
    <2>2. CASE alt_array[u][n].op = "SEND" /\ m = alt_array[u][n].p
      <3>1. m \in (1 .. sends) \ S!Sent
        BY <2>2, MessagesIs
      <3>2. QED
        BY <3>1, <1>3
    <2>3. QED
      BY <2>1, <2>2, <1>1
  <1>7. Adds(c, m) /\ S!Next
    BY <1>1, <1>2, <1>3, <1>6, ExchangeStep DEF h
  <1>8. S!Sent' = S!Sent \cup {m}
    BY <1>2, <1>3, <1>7, SentNext DEF Adds
  <1>9. News({m})
    <2>1. ASSUME NEW v \in Task, Blocked(v)', NEW j \in DOMAIN alt_array[v],
                 alt_array[v][j].op = "SEND"
          PROVE  alt_array[v][j].p # m
      <3>1. Blocked(v) /\ v # u
        BY <2>1, <1>2 DEF Wakes
      <3>2. CASE m = sends + 1
        <4>1. alt_array[v][j].p \in 1 .. sends
          BY <3>1, <2>1, MessagesIs
        <4>2. QED
          BY <4>1, <3>2, <1>3
      <3>3. CASE alt_array[u][n].op = "SEND" /\ m = alt_array[u][n].p
        BY <3>1, <3>3, <2>1, MessagesIs
      <3>4. QED
        BY <3>2, <3>3, <1>1
    <2>2. {m} \subseteq 1 .. sends'
      BY <1>6
    <2>3. QED
      BY <2>1, <2>2, <1>8 DEF News
  <1>10. QED
    BY <1>3, <1>4, <1>7, <1>9, MessagesKept

LEMMA AltBlockStep ==
    ASSUME Inv, Messages, NEW t \in Thread, NEW arr, AltBlock(t, arr, FALSE)
    PROVE  Messages' /\ UNCHANGED <<stream, out>>
  <1>1. t \in Task /\ Joins(t)
    BY AltBlockInv
  <1>2. /\ alt_array'[t] = arr /\ \A u \in Task : u # t => alt_array'[u] = alt_array[u]
        /\ buf' = buf /\ out' = out /\ Call(t, arr, FALSE)
    BY <1>1 DEF AltBlock, Inv, TypeOK
  <1>3. /\ sends \in Nat /\ sends' \in Nat /\ sends <= sends'
        /\ \A i \in DOMAIN arr :
              /\ arr[i].op = "SEND" => arr[i].p = sends + 1 /\ sends' = sends + 1
              /\ arr[i].op # "SEND" => arr[i].p = NoMessage
    <2>1. /\ sends' \in 0 .. MaxSends /\ sends <= sends'
          /\ \A i \in DOMAIN arr :
                /\ arr[i].op = "SEND" => arr[i].p = sends + 1 /\ sends' = sends + 1
                /\ arr[i].op # "SEND" => arr[i].p = NoMessage
      <3>1. TypeOK /\ Call(t, arr, FALSE)
        BY <1>2 DEF Inv
      <3>2. QED
        BY <3>1, CallIs
    <2>2. sends \in Nat /\ MaxSends \in Nat
      BY TaskAssumption DEF Inv, TypeOK
    <2>3. QED
      BY <2>1, <2>2
  <1>4. UNCHANGED <<stream, out>>
    BY <1>2 DEF stream, Contents, BufLen
  <1>5. S!Sent' = S!Sent /\ S!Sent \subseteq 1 .. sends
    BY <1>4 DEF S!Sent, Messages
  <1>6. NoMessage \notin Nat
    BY TaskAssumption
  <1>7. ASSUME NEW v \in Task, Blocked(v)', NEW i \in DOMAIN alt_array'[v],
               alt_array'[v][i].op = "SEND"
        PROVE  /\ alt_array'[v][i].p \in (1 .. sends') \ S!Sent'
               /\ \A u \in Task \ {v} : Blocked(u)' =>
                     \A j \in DOMAIN alt_array'[u] : alt_array'[u][j].p # alt_array'[v][i].p
    <2>1. CASE v = t
      <3>1. alt_array'[v][i].p = sends + 1 /\ sends' = sends + 1
        BY <2>1, <1>2, <1>3, <1>7
      <3>2. sends + 1 \in (1 .. sends') \ S!Sent'
        BY <3>1, <1>3, <1>5
      <3>3. ASSUME NEW u \in Task \ {v}, Blocked(u)', NEW j \in DOMAIN alt_array'[u]
            PROVE  alt_array'[u][j].p # sends + 1
        <4>1. Blocked(u) /\ alt_array'[u] = alt_array[u] /\ j \in DOMAIN alt_array[u]
          BY <3>3, <2>1, <1>1, <1>2 DEF Joins
        <4>2. CASE alt_array[u][j].op = "SEND"
          <5>1. alt_array[u][j].p \in 1 .. sends
            BY <4>1, <4>2, MessagesIs
          <5>2. QED
            BY <5>1, <4>1, <1>3
        <4>3. CASE alt_array[u][j].op # "SEND"
          <5>1. alt_array[u][j].p = NoMessage
            BY <4>1, <4>3, AltsAre
          <5>2. QED
            BY <5>1, <4>1, <1>3, <1>6
        <4>4. QED
          BY <4>2, <4>3
      <3>4. QED
        BY <3>1, <3>2, <3>3
    <2>2. CASE v # t
      <3>1. Blocked(v) /\ alt_array'[v] = alt_array[v] /\ i \in DOMAIN alt_array[v]
        BY <2>2, <1>1, <1>2, <1>7 DEF Joins
      <3>2. alt_array[v][i].p \in (1 .. sends) \ S!Sent
        BY <3>1, <1>7, MessagesIs
      <3>3. alt_array[v][i].p \in (1 .. sends') \ S!Sent'
        BY <3>2, <1>3, <1>5
      <3>4. ASSUME NEW u \in Task \ {v}, Blocked(u)', NEW j \in DOMAIN alt_array'[u]
            PROVE  alt_array'[u][j].p # alt_array[v][i].p
        <4>1. CASE u = t
          <5>1. alt_array'[u][j].p = sends + 1 \/ alt_array'[u][j].p = NoMessage
            BY <4>1, <3>4, <1>2, <1>3
          <5>2. QED
            BY <5>1, <3>2, <1>3, <1>6
        <4>2. CASE u # t
          <5>1. Blocked(u) /\ alt_array'[u] = alt_array[u]
            BY <4>2, <3>4, <1>1, <1>2 DEF Joins
          <5>2. QED
            BY <5>1, <3>1, <3>4, <1>7, MessagesIs
        <4>3. QED
          BY <4>1, <4>2
      <3>5. QED
        BY <3>1, <3>3, <3>4
    <2>3. QED
      BY <2>1, <2>2
  <1>8. S!Sent' \subseteq 1 .. sends'
    BY <1>3, <1>5
  <1>9. Messages'
    BY <1>7, <1>8 DEF Messages
  <1>10. QED
    BY <1>4, <1>9

LEMMA NextImplements ==
    ASSUME ~ Reuse, Inv, Messages, [Next]_vars
    PROVE  Messages' /\ [S!Next]_<<stream, out>>
  <1>1. CASE Calls(running)
    <2>1. PICK arr : AltExec(running, arr, FALSE) \/ AltBlock(running, arr, FALSE)
      BY <1>1, CallsAre
    <2>2. CASE AltExec(running, arr, FALSE)
      <3>1. Call(running, arr, FALSE) /\ Executes(running, arr)
        BY <2>2, AltExecIs
      <3>2. PICK i \in DOMAIN arr :
               /\ AltCanExec(arr[i])
               /\ \/ AltExecAlone(running, arr, i)
                  \/ \E u, n : /\ Waits(u, n, arr[i].c, Other(arr[i].op))
                               /\ AltExecWith(running, arr, i, u, n)
        BY <3>1 DEF Executes
      <3>3. CASE AltExecAlone(running, arr, i)
        BY <3>1, <3>2, <3>3, AltExecAloneStep
      <3>4. ASSUME NEW u, NEW n, Waits(u, n, arr[i].c, Other(arr[i].op)),
                   AltExecWith(running, arr, i, u, n)
            PROVE  Messages' /\ S!Next
        BY <3>1, <3>2, <3>4, AltExecWithStep DEF Waits
      <3>5. QED
        BY <3>2, <3>3, <3>4
    <2>3. CASE AltBlock(running, arr, FALSE)
      <3>1. running \in Thread
        BY DEF Inv, TypeOK
      <3>2. Messages' /\ UNCHANGED <<stream, out>>
        BY <2>3, <3>1, AltBlockStep
      <3>3. QED
        BY <3>2
    <2>4. QED
      BY <2>1, <2>2, <2>3
  <1>2. ASSUME Still, UNCHANGED <<buf, out, sends>>
        PROVE  Messages' /\ [S!Next]_<<stream, out>>
    BY <1>2, QuietMessages
  <1>3. ASSUME NEW t \in Task, Spawn(t) PROVE Still /\ UNCHANGED <<buf, out, sends>>
    BY <1>3, SpawnInv DEF Spawn
  <1>4. ASSUME NEW t \in Task, CoroutineResume(t) PROVE Still /\ UNCHANGED <<buf, out, sends>>
    BY <1>4, CoroutineResumeInv DEF CoroutineResume
  <1>5. ASSUME StartScheduler \/ SchedulerReturns PROVE Still /\ UNCHANGED <<buf, out, sends>>
    BY <1>5, SchedulerInv DEF StartScheduler, SchedulerReturns
  <1>6. ASSUME NEW keep \in Again, ResumeTask(keep) PROVE Still /\ UNCHANGED <<buf, out, sends>>
    <2>1. ResumeTask(FALSE)
      BY <1>6 DEF Again
    <2>2. QED
      BY <2>1, ResumeTaskInv DEF ResumeTask
  <1>7. ASSUME NEW fails \in BOOLEAN, End(fails) PROVE Still /\ UNCHANGED <<buf, out, sends>>
    BY <1>7, EndInv DEF End
  <1>8. ASSUME UNCHANGED vars PROVE Still /\ UNCHANGED <<buf, out, sends>>
    BY <1>8, BlockedIs DEF Still, vars, sched, arrays
  <1>9. QED
    BY <1>1, <1>2, <1>3, <1>4, <1>5, <1>6, <1>7, <1>8 DEF Next

LEMMA InitStreams ==
    ASSUME Init
    PROVE  Messages /\ S!Init
  <1>1. Inv
    BY InitInv
  <1>2. ASSUME NEW c \in Channel PROVE out[c] = <<>> /\ Held(buf[c], c) = <<>>
    <2>1. out[c] = <<>> /\ buf[c] = NewBuffer(Size[c])
      BY DEF Init
    <2>2. Size[c] \in Nat
      BY TaskAssumption
    <2>3. (0 - 0) % Slots(c) = 0
      BY <2>2, Remainder DEF Slots
    <2>4. QED
      BY <2>1, <2>3 DEF NewBuffer, Held
  <1>3. stream = [c \in Channel |-> <<>>]
    BY <1>2, StreamIs
  <1>4. S!Init
    BY <1>3 DEF S!Init, Init
  <1>5. S!Sent = {}
    BY <1>3 DEF S!Sent
  <1>6. \A t \in Task : ~ Blocked(t)
    BY DEF Init, Blocked
  <1>7. QED
    BY <1>4, <1>5, <1>6 DEF Messages

\* Messages leave each channel in the order they went in, none lost, repeated or
\* invented, and never more than its size behind: however altexec() mixes what
\* the buffer holds with what waiting senders offer.
THEOREM StreamsImplemented ==
    ASSUME ~ Reuse
    PROVE  Spec => StreamsInOrder
  <1>1. Init => Messages /\ S!Init
    BY InitStreams
  <1>2. Inv /\ Messages /\ [Next]_vars => Messages' /\ [S!Next]_<<stream, out>>
    BY NextImplements
  <1>3. Spec => []Inv
    BY InvHolds
  <1>4. Spec => S!Init /\ [][S!Next]_<<stream, out>>
    BY <1>1, <1>2, <1>3, PTL DEF Spec
  <1>5. QED
    BY <1>4 DEF StreamsInOrder, S!Spec
=============================================================================
