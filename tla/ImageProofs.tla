----------------------------- MODULE ImageProofs -----------------------------
(***************************************************************************)
(* The image keeps every version of a program, for histories of any length *)
(* over any names and contents.  First come lemmas about the scans of      *)
(* teliva.c over a history.  The set of live entries is defined by         *)
(* recursion on the history; facts about it are proved by looking at the   *)
(* least entry where one would fail.                                       *)
(***************************************************************************)
EXTENDS Image, WellFoundedInduction, SequenceTheorems, TLAPS

-----------------------------------------------------------------------------
(* The scans *)

\* Every nonempty set of natural numbers has a least element.
LEMMA LeastElement ==
    ASSUME NEW T \in SUBSET Nat, T # {}
    PROVE  \E x \in T : \A y \in T : x <= y
  <1> DEFINE R == {ss \in Nat \X Nat : ss[1] < ss[2]}
  <1>1. IsWellFoundedOn(R, Nat)
    BY NatLessThanWellFounded DEF OpToRel
  <1>2. \A x, y \in Nat : <<y, x>> \in R <=> y < x
    OBVIOUS
  <1> HIDE DEF R
  <1>3. PICK x \in T : \A y \in T : ~ (<<y, x>> \in R)
    BY <1>1, WFMin
  <1>4. ASSUME NEW y \in T PROVE x <= y
    <2>1. ~ (y < x)
      BY <1>2, <1>3, Zenon
    <2>2. x \in Nat /\ y \in Nat
      OBVIOUS
    <2>3. QED
      BY <2>1, <2>2
  <1>5. QED
    BY <1>4

LEMMA GreatestElement ==
    ASSUME NEW n \in Nat, NEW B \in SUBSET (1 .. n), B # {}
    PROVE  \E i \in B : \A j \in B : j <= i
  <1> DEFINE T == {k \in 0 .. n : n - k \in B}
  <1>1. PICK b \in B : TRUE
    OBVIOUS
  <1>2. n - b \in T
    BY n - (n - b) = b
  <1>3. T \in SUBSET Nat
    OBVIOUS
  <1> HIDE DEF T
  <1>4. PICK k \in T : \A y \in T : k <= y
    BY <1>2, <1>3, LeastElement
  <1>5. k \in 0 .. n /\ n - k \in B
    BY <1>4 DEF T
  <1>6. ASSUME NEW j \in B PROVE j <= n - k
    <2>1. n - j \in T
      BY n - (n - j) = j DEF T
    <2>2. k <= n - j
      BY <2>1, <1>4
    <2>3. QED
      BY <2>2, <1>5
  <1>7. QED
    BY <1>5, <1>6

\* One step of a scan, and a function that is a scan of the first m entries.
Visit(p, live, i) ==
    IF i = 0 THEN {}
    ELSE IF p[i].name = Undo THEN live[p[i].to]
    ELSE live[i - 1] \cup {i}

IsScan(p, m, live) == live = [i \in 0 .. m |-> Visit(p, live, i)]

LEMMA ScanExists ==
    ASSUME NEW p, WellFormed(p), NEW m \in 0 .. Len(p)
    PROVE  \E live : IsScan(p, m, live)
  <1> DEFINE T == {k \in 0 .. Len(p) : ~ \E live : IsScan(p, k, live)}
  <1>1. Len(p) \in Nat
    BY DEF WellFormed
  <1>2. SUFFICES ASSUME T # {} PROVE FALSE
    OBVIOUS
  <1>3. T \in SUBSET Nat
    BY <1>1
  <1> HIDE DEF T
  <1>4. PICK k \in T : \A y \in T : k <= y
    BY <1>2, <1>3, LeastElement
  <1>5. k \in 0 .. Len(p) /\ ~ \E live : IsScan(p, k, live)
    BY <1>4 DEF T
  <1>6. CASE k = 0
    <2>1. IsScan(p, 0, [i \in 0 .. 0 |-> {}])
      BY DEF IsScan, Visit
    <2>2. QED
      BY <1>5, <1>6, <2>1
  <1>7. CASE k # 0
    <2>1. k - 1 \in 0 .. Len(p) /\ k - 1 \notin T
      <3>1. k - 1 \in 0 .. Len(p) /\ ~ (k <= k - 1)
        BY <1>1, <1>5, <1>7
      <3>2. QED
        BY <3>1, <1>4
    <2>2. PICK f : IsScan(p, k - 1, f)
      BY <2>1 DEF T
    <2> DEFINE g == [i \in 0 .. k |-> IF i = k THEN Visit(p, f, k) ELSE f[i]]
    <2>3. \A i \in 0 .. k - 1 : f[i] = Visit(p, f, i)
      BY <2>2 DEF IsScan
    <2>4. ASSUME NEW i \in 0 .. k
          PROVE  g[i] = Visit(p, g, i)
      <3>1. g[i] = Visit(p, f, i)
        BY <2>3, <1>1, <1>5
      <3>2. CASE i = 0
        BY <3>1, <3>2 DEF Visit
      <3>3. CASE i # 0 /\ p[i].name = Undo
        <4>1. p[i].to \in 1 .. i - 1
          BY <3>3, <1>1, <1>5 DEF WellFormed
        <4>2. g[p[i].to] = f[p[i].to]
          BY <4>1, <1>1, <1>5
        <4>3. QED
          BY <3>1, <3>3, <4>2 DEF Visit
      <3>4. CASE i # 0 /\ p[i].name # Undo
        <4>1. g[i - 1] = f[i - 1]
          BY <3>4, <1>1, <1>5
        <4>2. QED
          BY <3>1, <3>4, <4>1 DEF Visit
      <3>5. QED
        BY <3>2, <3>3, <3>4
    <2>5. IsScan(p, k, g)
      <3> HIDE DEF g
      <3>1. g = [i \in 0 .. k |-> g[i]]
        BY DEF g
      <3>2. QED
        BY <3>1, <2>4 DEF IsScan
    <2>6. QED
      BY <2>5, <1>5
  <1>8. QED
    BY <1>6, <1>7

LEMMA LiveFromIsScan ==
    ASSUME NEW p, WellFormed(p)
    PROVE  IsScan(p, Len(p), LiveFrom(p))
  <1>1. Len(p) \in 0 .. Len(p)
    BY DEF WellFormed
  <1>2. \E live : IsScan(p, Len(p), live)
    BY <1>1, ScanExists
  <1>3. LiveFrom(p) = CHOOSE live : IsScan(p, Len(p), live)
    BY DEF LiveFrom, IsScan, Visit
  <1>4. QED
    BY <1>2, <1>3

LEMMA LiveStep ==
    ASSUME NEW p, WellFormed(p), NEW i \in 0 .. Len(p)
    PROVE  LiveFrom(p)[i] = Visit(p, LiveFrom(p), i)
  <1> DEFINE live == LiveFrom(p)
  <1>1. live = [j \in 0 .. Len(p) |-> Visit(p, live, j)]
    BY LiveFromIsScan DEF IsScan
  <1> HIDE DEF live
  <1>2. live[i] = Visit(p, live, i)
    BY <1>1
  <1>3. QED
    BY <1>2 DEF live

\* A scan visits definitions only, and none above where it started.
LEMMA LiveRange ==
    ASSUME NEW p, WellFormed(p), NEW n \in 0 .. Len(p)
    PROVE  \A j \in LiveFrom(p)[n] : j \in 1 .. n /\ p[j].name # Undo
  <1> DEFINE Good(k) == \A j \in LiveFrom(p)[k] : j \in 1 .. k /\ p[j].name # Undo
             T == {k \in 0 .. Len(p) : ~ Good(k)}
  <1>1. Len(p) \in Nat
    BY DEF WellFormed
  <1>2. SUFFICES ASSUME T # {} PROVE FALSE
    OBVIOUS
  <1>3. T \in SUBSET Nat
    BY <1>1
  <1> HIDE DEF T
  <1>4. PICK k \in T : \A y \in T : k <= y
    BY <1>2, <1>3, LeastElement
  <1>5. k \in 0 .. Len(p) /\ ~ Good(k)
    BY <1>4 DEF T
  <1>6. \A i \in 0 .. Len(p) : i < k => Good(i)
    BY <1>1, <1>4, <1>5 DEF T
  <1>7. LiveFrom(p)[k] = Visit(p, LiveFrom(p), k)
    BY <1>5, LiveStep
  <1>8. CASE k = 0
    BY <1>5, <1>7, <1>8 DEF Visit
  <1>9. CASE k # 0 /\ p[k].name = Undo
    <2>1. p[k].to \in 1 .. k - 1
      BY <1>1, <1>5, <1>9 DEF WellFormed
    <2>2. Good(p[k].to) /\ LiveFrom(p)[k] = LiveFrom(p)[p[k].to]
      BY <2>1, <1>1, <1>5, <1>6, <1>7, <1>9 DEF Visit
    <2>3. QED
      BY <2>1, <2>2, <1>5
  <1>10. CASE k # 0 /\ p[k].name # Undo
    <2>1. Good(k - 1) /\ LiveFrom(p)[k] = LiveFrom(p)[k - 1] \cup {k}
      BY <1>1, <1>5, <1>6, <1>7, <1>10 DEF Visit
    <2>2. QED
      BY <2>1, <1>1, <1>5, <1>10
  <1>11. QED
    BY <1>8, <1>9, <1>10

\* What a scan visits depends only on the entries at and below its start, and
\* not on contents or notes.
LEMMA LiveAgree ==
    ASSUME NEW p, WellFormed(p), NEW q, WellFormed(q),
           NEW m \in 0 .. Len(p), m <= Len(q),
           \A i \in 1 .. m : p[i].name = q[i].name /\ p[i].to = q[i].to
    PROVE  LiveFrom(p)[m] = LiveFrom(q)[m]
  <1> DEFINE Good(k) == LiveFrom(p)[k] = LiveFrom(q)[k]
             T == {k \in 0 .. m : ~ Good(k)}
  <1>1. Len(p) \in Nat /\ Len(q) \in Nat
    BY DEF WellFormed
  <1>2. SUFFICES ASSUME T # {} PROVE FALSE
    BY <1>1
  <1>3. T \in SUBSET Nat
    BY <1>1
  <1> HIDE DEF T
  <1>4. PICK k \in T : \A y \in T : k <= y
    BY <1>2, <1>3, LeastElement
  <1>5. k \in 0 .. m /\ ~ Good(k)
    BY <1>4 DEF T
  <1>6. \A i \in 0 .. m : i < k => Good(i)
    BY <1>1, <1>4, <1>5 DEF T
  <1>7. /\ LiveFrom(p)[k] = Visit(p, LiveFrom(p), k)
        /\ LiveFrom(q)[k] = Visit(q, LiveFrom(q), k)
    <2>1. k \in 0 .. Len(p) /\ k \in 0 .. Len(q)
      BY <1>1, <1>5
    <2>2. QED
      BY <2>1, LiveStep
  <1>8. CASE k = 0
    BY <1>5, <1>7, <1>8 DEF Visit
  <1>9. CASE k # 0 /\ p[k].name = Undo
    <2>1. p[k].to \in 1 .. k - 1
      BY <1>1, <1>5, <1>9 DEF WellFormed
    <2>2. Good(p[k].to)
      BY <2>1, <1>1, <1>5, <1>6
    <2>3. k \in 1 .. m
      BY <1>1, <1>5, <1>9
    <2>4. QED
      BY <2>2, <2>3, <1>5, <1>7, <1>9 DEF Visit
  <1>10. CASE k # 0 /\ p[k].name # Undo
    <2>1. Good(k - 1) /\ k \in 1 .. m
      BY <1>1, <1>5, <1>6, <1>10
    <2>2. QED
      BY <2>1, <1>5, <1>7, <1>10 DEF Visit
  <1>11. QED
    BY <1>8, <1>9, <1>10

\* The bindings of a name have a latest one, and a scan returns its contents.
LEMMA LookUpLatest ==
    ASSUME NEW p, WellFormed(p), NEW name
    PROVE  /\ Bindings(p, name) \in SUBSET (1 .. Len(p))
           /\ Bindings(p, name) # {} =>
                \E i \in Bindings(p, name) :
                    /\ \A j \in Bindings(p, name) : j <= i
                    /\ LookUp(p, name) = p[i].contents
  <1> DEFINE B == Bindings(p, name)
  <1>1. Len(p) \in Nat
    BY DEF WellFormed
  <1>2. B \in SUBSET (1 .. Len(p))
    <2>1. \A j \in Live(p) : j \in 1 .. Len(p)
      BY <1>1, LiveRange DEF Live
    <2>2. QED
      BY <2>1 DEF Bindings
  <1>3. ASSUME B # {}
        PROVE  \E i \in B : (\A j \in B : j <= i) /\ LookUp(p, name) = p[i].contents
    <2> DEFINE latest == CHOOSE i \in B : \A j \in B : j <= i
    <2>1. \E i \in B : \A j \in B : j <= i
      <3> HIDE DEF B
      <3>1. QED
        BY <1>1, <1>2, <1>3, GreatestElement
    <2>2. latest \in B /\ \A j \in B : j <= latest
      BY <2>1
    <2>3. LookUp(p, name) = p[latest].contents
      BY <1>3 DEF LookUp
    <2>4. QED
      BY <2>2, <2>3
  <1>4. QED
    BY <1>2, <1>3

\* The latest binding is the only one no other is above.
LEMMA LookUpIs ==
    ASSUME NEW p, WellFormed(p), NEW name, NEW i \in Bindings(p, name),
           \A j \in Bindings(p, name) : j <= i
    PROVE  LookUp(p, name) = p[i].contents
  <1>1. PICK k \in Bindings(p, name) :
           /\ \A j \in Bindings(p, name) : j <= k
           /\ LookUp(p, name) = p[k].contents
    BY LookUpLatest
  <1>2. i \in 1 .. Len(p) /\ k \in 1 .. Len(p) /\ i <= k /\ k <= i
    BY <1>1, LookUpLatest
  <1>3. QED
    BY <1>1, <1>2

\* Histories whose live entries are the same bind every name the same way.
LEMMA LookUpAgree ==
    ASSUME NEW p, WellFormed(p), NEW q, WellFormed(q), NEW name, Live(p) = Live(q),
           \A i \in Live(p) : p[i].name = q[i].name /\ p[i].contents = q[i].contents
    PROVE  LookUp(p, name) = LookUp(q, name)
  <1>1. Bindings(p, name) = Bindings(q, name)
    BY DEF Bindings
  <1>2. CASE Bindings(p, name) = {}
    BY <1>1, <1>2 DEF LookUp
  <1>3. CASE Bindings(p, name) # {}
    <2>1. PICK i \in Bindings(p, name) :
             /\ \A j \in Bindings(p, name) : j <= i
             /\ LookUp(p, name) = p[i].contents
      BY <1>3, LookUpLatest
    <2>2. LookUp(q, name) = q[i].contents
      BY <1>1, <2>1, LookUpIs
    <2>3. i \in Live(p)
      BY <2>1 DEF Bindings
    <2>4. QED
      BY <2>1, <2>2, <2>3
  <1>4. QED
    BY <1>2, <1>3

\* A name that is found has the contents of a definition.
LEMMA LookUpType ==
    ASSUME NEW p, WellFormed(p), NEW name
    PROVE  LookUp(p, name) \in Contents \cup {Missing}
  <1>1. CASE Bindings(p, name) = {}
    BY <1>1 DEF LookUp
  <1>2. CASE Bindings(p, name) # {}
    <2>1. PICK i \in Bindings(p, name) : LookUp(p, name) = p[i].contents
      BY <1>2, LookUpLatest
    <2>2. i \in 1 .. Len(p) /\ p[i].name # Undo
      <3>1. \A j \in Live(p) : j \in 1 .. Len(p) /\ p[j].name # Undo
        <4>1. Len(p) \in 0 .. Len(p)
          BY DEF WellFormed
        <4>2. QED
          BY <4>1, LiveRange DEF Live
      <3>2. QED
        BY <3>1, <2>1 DEF Bindings
    <2>3. p[i].contents \in Contents
      BY <2>2 DEF WellFormed
    <2>4. QED
      BY <2>1, <2>3
  <1>3. QED
    BY <1>1, <1>2

-----------------------------------------------------------------------------
\* The first k entries of a history are a history, scanned the same way.
LEMMA Prefix ==
    ASSUME NEW p, WellFormed(p), NEW k \in 0 .. Len(p)
    PROVE  /\ WellFormed(SubSeq(p, 1, k))
           /\ Len(SubSeq(p, 1, k)) = k
           /\ \A i \in 1 .. k : SubSeq(p, 1, k)[i] = p[i]
           /\ Live(SubSeq(p, 1, k)) = LiveFrom(p)[k]
  <1> DEFINE q == SubSeq(p, 1, k)
  <1>1. p \in Seq(Entry) /\ Len(p) \in Nat
    BY DEF WellFormed
  <1>2. q \in Seq(Entry) /\ Len(q) = k /\ \A i \in 1 .. k : q[i] = p[i]
    BY <1>1
  <1> HIDE DEF q
  <1>3. WellFormed(q)
    BY <1>1, <1>2 DEF WellFormed
  <1>4. LiveFrom(q)[k] = LiveFrom(p)[k]
    BY <1>1, <1>2, <1>3, LiveAgree
  <1>5. Live(q) = LiveFrom(p)[k]
    BY <1>2, <1>4 DEF Live
  <1>6. QED
    BY <1>2, <1>3, <1>5 DEF q

\* Histories that agree on their first k changes, but for notes, have the same
\* version after k changes.
LEMMA SnapshotAgree ==
    ASSUME NEW p, WellFormed(p), NEW q, WellFormed(q),
           NEW k \in 0 .. Len(p), k <= Len(q),
           \A i \in 1 .. k : /\ p[i].name = q[i].name
                             /\ p[i].to = q[i].to
                             /\ p[i].contents = q[i].contents
    PROVE  SnapshotAt(p, k) = SnapshotAt(q, k)
  <1> DEFINE pk == SubSeq(p, 1, k)
             qk == SubSeq(q, 1, k)
  <1>1. Len(p) \in Nat /\ Len(q) \in Nat /\ k \in 0 .. Len(q)
    BY DEF WellFormed
  <1>2. /\ WellFormed(pk) /\ Live(pk) = LiveFrom(p)[k]
        /\ \A i \in 1 .. k : pk[i] = p[i]
    BY Prefix
  <1>3. /\ WellFormed(qk) /\ Live(qk) = LiveFrom(q)[k]
        /\ \A i \in 1 .. k : qk[i] = q[i]
    BY <1>1, Prefix
  <1>4. LiveFrom(p)[k] = LiveFrom(q)[k]
    BY LiveAgree
  <1>5. \A i \in LiveFrom(p)[k] : i \in 1 .. k
    BY LiveRange
  <1> HIDE DEF pk, qk
  <1>6. \A i \in Live(pk) : pk[i].name = qk[i].name /\ pk[i].contents = qk[i].contents
    BY <1>2, <1>3, <1>5
  <1>7. \A name : LookUp(pk, name) = LookUp(qk, name)
    BY <1>2, <1>3, <1>4, <1>6, LookUpAgree
  <1>8. QED
    BY <1>7 DEF SnapshotAt, Snapshot, pk, qk

LEMMA SnapshotAtAll ==
    ASSUME NEW p, WellFormed(p)
    PROVE  SnapshotAt(p, Len(p)) = Snapshot(p)
  <1>1. SubSeq(p, 1, Len(p)) = p
    BY DEF WellFormed
  <1>2. QED
    BY <1>1 DEF SnapshotAt

\* A definition rebinds its name, and only its name.
LEMMA AppendDefinition ==
    ASSUME NEW p, WellFormed(p), NEW name \in Name, NEW contents \in Contents
    PROVE  /\ WellFormed(Append(p, Definition(name, contents)))
           /\ Snapshot(Append(p, Definition(name, contents)))
                = [Snapshot(p) EXCEPT ![name] = contents]
  <1> DEFINE e == Definition(name, contents)
             q == Append(p, e)
             n == Len(p)
  <1> USE HistoryAssumption
  <1>1. p \in Seq(Entry) /\ n \in Nat
    BY DEF WellFormed
  <1>2. /\ e \in Entry /\ e.name = name /\ e.contents = contents /\ name # Undo
    BY DEF Definition, Entry
  <1> HIDE DEF e
  <1>3. /\ q \in Seq(Entry) /\ Len(q) = n + 1 /\ q[n + 1] = e
        /\ \A i \in 1 .. n : q[i] = p[i]
    BY <1>1, <1>2
  <1> HIDE DEF q, n
  <1>4. WellFormed(q)
    <2>1. SUFFICES ASSUME NEW i \in 1 .. n + 1
                   PROVE  IF q[i].name = Undo THEN q[i].to \in 1 .. i - 1
                                              ELSE q[i].contents \in Contents
      BY <1>1, <1>3 DEF WellFormed
    <2>2. CASE i = n + 1
      BY <2>2, <1>2, <1>3
    <2>3. CASE i # n + 1
      BY <2>3, <1>1, <1>3 DEF WellFormed, n
    <2>4. QED
      BY <2>2, <2>3
  <1>5. Live(q) = Live(p) \cup {n + 1}
    <2>1. n + 1 \in 0 .. Len(q) /\ n \in 0 .. Len(q) /\ n \in 0 .. Len(p)
      BY <1>1, <1>3 DEF n
    <2>2. LiveFrom(q)[n + 1] = LiveFrom(q)[n] \cup {n + 1}
      <3>1. LiveFrom(q)[n + 1] = Visit(q, LiveFrom(q), n + 1)
        BY <2>1, <1>4, LiveStep
      <3>2. n + 1 # 0 /\ (n + 1) - 1 = n
        BY <1>1
      <3>3. QED
        BY <3>1, <3>2, <1>2, <1>3 DEF Visit
    <2>3. LiveFrom(q)[n] = LiveFrom(p)[n]
      BY <2>1, <1>1, <1>3, <1>4, LiveAgree
    <2>4. QED
      BY <2>2, <2>3, <1>3 DEF Live, n
  <1>6. \A i \in Live(p) : i \in 1 .. n
    <2>1. n \in 0 .. Len(p)
      BY <1>1 DEF n
    <2>2. QED
      BY <2>1, LiveRange DEF Live, n
  <1>7. LookUp(q, name) = contents
    <2>1. n + 1 \in Bindings(q, name)
      BY <1>2, <1>3, <1>5 DEF Bindings
    <2>2. \A j \in Bindings(q, name) : j <= n + 1
      BY <1>1, <1>5, <1>6 DEF Bindings
    <2>3. QED
      BY <2>1, <2>2, <1>2, <1>3, <1>4, LookUpIs
  <1>8. ASSUME NEW other \in Name, other # name
        PROVE  LookUp(q, other) = LookUp(p, other)
    <2>1. Bindings(q, other) = Bindings(p, other)
      <3>1. \A i \in Live(p) : q[i] = p[i]
        BY <1>3, <1>6
      <3>2. QED
        BY <3>1, <1>2, <1>3, <1>5, <1>8 DEF Bindings
    <2>2. CASE Bindings(p, other) = {}
      BY <2>1, <2>2 DEF LookUp
    <2>3. CASE Bindings(p, other) # {}
      <3>1. PICK i \in Bindings(p, other) :
               /\ \A j \in Bindings(p, other) : j <= i
               /\ LookUp(p, other) = p[i].contents
        BY <2>3, LookUpLatest
      <3>2. LookUp(q, other) = q[i].contents
        BY <2>1, <3>1, <1>4, LookUpIs
      <3>3. q[i] = p[i]
        BY <3>1, <1>3, <1>6 DEF Bindings
      <3>4. QED
        BY <3>1, <3>2, <3>3
    <2>4. QED
      BY <2>2, <2>3
  <1>9. Snapshot(q) = [Snapshot(p) EXCEPT ![name] = contents]
    BY <1>7, <1>8 DEF Snapshot
  <1>10. QED
    BY <1>4, <1>9 DEF q, e

\* An undo brings back the version after the entry it leads to.
LEMMA AppendUndo ==
    ASSUME NEW p, WellFormed(p), NEW cursor \in 1 .. Len(p)
    PROVE  /\ WellFormed(AddUndoEvent(p, cursor))
           /\ Snapshot(AddUndoEvent(p, cursor)) = SnapshotAt(p, cursor)
  <1> DEFINE e == UndoTo(cursor)
             q == Append(p, e)
             n == Len(p)
             pc == SubSeq(p, 1, cursor)
  <1>1. p \in Seq(Entry) /\ n \in Nat
    BY DEF WellFormed
  <1>2. e \in Entry /\ e.name = Undo /\ e.to = cursor
    BY <1>1 DEF UndoTo, Entry
  <1> HIDE DEF e
  <1>3. /\ q \in Seq(Entry) /\ Len(q) = n + 1 /\ q[n + 1] = e
        /\ \A i \in 1 .. n : q[i] = p[i]
    BY <1>1, <1>2
  <1> HIDE DEF q
  <1>4. WellFormed(q)
    <2>1. SUFFICES ASSUME NEW i \in 1 .. n + 1
                   PROVE  IF q[i].name = Undo THEN q[i].to \in 1 .. i - 1
                                              ELSE q[i].contents \in Contents
      BY <1>1, <1>3 DEF WellFormed
    <2>2. CASE i = n + 1
      BY <2>2, <1>1, <1>2, <1>3
    <2>3. CASE i # n + 1
      BY <2>3, <1>1, <1>3 DEF WellFormed
    <2>4. QED
      BY <2>2, <2>3
  <1>5. Live(q) = LiveFrom(q)[cursor]
    <2>1. n + 1 \in 0 .. Len(q) /\ n + 1 # 0
      BY <1>1, <1>3
    <2>2. LiveFrom(q)[n + 1] = Visit(q, LiveFrom(q), n + 1)
      BY <2>1, <1>4, LiveStep
    <2>3. QED
      BY <2>1, <2>2, <1>2, <1>3 DEF Visit, Live
  <1>6. /\ WellFormed(pc) /\ Live(pc) = LiveFrom(p)[cursor]
        /\ \A i \in 1 .. cursor : pc[i] = p[i]
    <2>1. cursor \in 0 .. Len(p)
      BY <1>1
    <2>2. QED
      BY <2>1, Prefix
  <1> HIDE DEF pc
  <1>7. LiveFrom(p)[cursor] = LiveFrom(q)[cursor]
    <2>1. cursor \in 0 .. Len(p) /\ cursor <= Len(q)
      BY <1>1, <1>3
    <2>2. \A i \in 1 .. cursor : p[i].name = q[i].name /\ p[i].to = q[i].to
      BY <1>1, <1>3
    <2>3. QED
      BY <2>1, <2>2, <1>4, LiveAgree
  <1>8. \A i \in Live(pc) : i \in 1 .. cursor /\ pc[i] = q[i]
    <2>1. cursor \in 0 .. Len(p)
      BY <1>1
    <2>2. \A i \in Live(pc) : i \in 1 .. cursor
      BY <2>1, <1>6, LiveRange
    <2>3. QED
      BY <2>2, <1>1, <1>3, <1>6
  <1>9. \A name : LookUp(q, name) = LookUp(pc, name)
    BY <1>4, <1>5, <1>6, <1>7, <1>8, LookUpAgree
  <1>10. QED
    BY <1>4, <1>9 DEF Snapshot, SnapshotAt, AddUndoEvent, q, e, pc

\* A note changes no entry in what a scan looks at.
LEMMA NoteShape ==
    ASSUME NEW p, WellFormed(p), NEW cursor \in 1 .. Len(p), NEW note \in Note
    PROVE  /\ WellFormed(SetNote(p, cursor, note))
           /\ Len(SetNote(p, cursor, note)) = Len(p)
           /\ \A i \in 1 .. Len(p) :
                 /\ SetNote(p, cursor, note)[i].name = p[i].name
                 /\ SetNote(p, cursor, note)[i].to = p[i].to
                 /\ SetNote(p, cursor, note)[i].contents = p[i].contents
  <1> DEFINE e == [p[cursor] EXCEPT !.note = note]
             q == [p EXCEPT ![cursor] = e]
  <1>1. p \in Seq(Entry) /\ Len(p) \in Nat
    BY DEF WellFormed
  <1>2. p[cursor] \in Entry
    BY <1>1
  <1>3. /\ e \in Entry /\ e.name = p[cursor].name /\ e.to = p[cursor].to
        /\ e.contents = p[cursor].contents
    BY <1>2 DEF Entry
  <1> HIDE DEF e
  <1>4. /\ q \in Seq(Entry) /\ Len(q) = Len(p)
        /\ \A i \in 1 .. Len(p) : q[i] = IF i = cursor THEN e ELSE p[i]
    BY <1>1, <1>3
  <1>5. SetNote(p, cursor, note) = q
    BY DEF SetNote, e
  <1> HIDE DEF q
  <1>6. \A i \in 1 .. Len(p) : /\ q[i].name = p[i].name
                               /\ q[i].to = p[i].to
                               /\ q[i].contents = p[i].contents
    BY <1>3, <1>4
  <1>7. WellFormed(q)
    BY <1>1, <1>4, <1>6 DEF WellFormed
  <1>8. QED
    BY <1>4, <1>5, <1>6, <1>7

-----------------------------------------------------------------------------
(* The image *)

\* How the table in memory may differ from the file until it is saved.
Change(p, q) ==
    \/ q = p
    \/ \E name \in Name, contents \in Contents :
          LookUp(p, name) # contents /\ q = Append(p, Definition(name, contents))
    \/ \E cursor \in 1 .. Len(p) - 1 : q = AddUndoEvent(p, cursor)
    \/ \E cursor \in 1 .. Len(p), note \in Note : q = SetNote(p, cursor, note)

IInv ==
    /\ TypeOK
    /\ ~ unsaved => teliva_program = image
    /\ unsaved => Change(image, teliva_program)

LEMMA InitInv == Init => IInv
  BY DEF Init, IInv, TypeOK

LEMMA NextInv == IInv /\ [Next]_vars => IInv'
  <1> SUFFICES ASSUME IInv, [Next]_vars
               PROVE  IInv'
    OBVIOUS
  <1> USE DEF IInv
  <1>1. ASSUME NEW name \in Name, NEW contents \in Contents, Update(name, contents)
        PROVE  IInv'
    <2>1. /\ image' = image /\ unsaved' = TRUE /\ teliva_program = image
          /\ teliva_program' = UpdateDefinition(image, name, contents)
      BY <1>1 DEF Update
    <2>2. CASE LookUp(image, name) = contents
      BY <2>1, <2>2 DEF UpdateDefinition, TypeOK, Change
    <2>3. CASE LookUp(image, name) # contents
      BY <2>1, <2>3, AppendDefinition DEF UpdateDefinition, TypeOK, Change
    <2>4. QED
      BY <2>2, <2>3
  <1>2. ASSUME NEW cursor \in 1 .. Len(teliva_program), UndoAfter(cursor)
        PROVE  IInv'
    <2>1. /\ image' = image /\ unsaved' = TRUE /\ teliva_program = image
          /\ teliva_program' = AddUndoEvent(image, cursor) /\ cursor < Len(image)
      BY <1>2 DEF UndoAfter
    <2>2. Len(image) \in Nat
      BY DEF TypeOK, WellFormed
    <2>3. cursor \in 1 .. Len(image) - 1
      BY <2>1, <2>2
    <2>4. QED
      BY <2>1, <2>3, AppendUndo DEF TypeOK, Change
  <1>3. ASSUME NEW cursor \in 1 .. Len(teliva_program), NEW note \in Note,
               EditNote(cursor, note)
        PROVE  IInv'
    BY <1>3, NoteShape DEF EditNote, TypeOK, Change
  <1>4. CASE SaveTlv
    BY <1>4 DEF SaveTlv, TypeOK
  <1>5. CASE Restart
    BY <1>5 DEF Restart, TypeOK
  <1>6. CASE UNCHANGED vars
    BY <1>6 DEF vars, TypeOK, Change
  <1>7. QED
    BY <1>1, <1>2, <1>3, <1>4, <1>5, <1>6 DEF Next

\* Every undo in memory and on disk leads back, so that no scan of the history
\* runs in circles or fails its assertion.
THEOREM WellFormedHistories == Spec => []TypeOK
  <1>1. IInv => TypeOK
    BY DEF IInv
  <1>2. QED
    BY <1>1, InitInv, NextInv, PTL DEF Spec

-----------------------------------------------------------------------------
\* What every kind of change leaves alone.
LEMMA ChangeExtends ==
    ASSUME NEW p, WellFormed(p), NEW q, Change(p, q)
    PROVE  /\ Len(p) \in Nat
           /\ Len(q) \in {Len(p), Len(p) + 1}
           /\ \A i \in 1 .. Len(p) : /\ q[i].name = p[i].name
                                     /\ q[i].to = p[i].to
                                     /\ q[i].contents = p[i].contents
  <1>1. p \in Seq(Entry) /\ Len(p) \in Nat
    BY DEF WellFormed
  <1>2. ASSUME NEW e, q = Append(p, e)
        PROVE  Len(q) = Len(p) + 1 /\ \A i \in 1 .. Len(p) : q[i] = p[i]
    BY <1>1, <1>2
  <1>3. CASE q = p
    BY <1>1, <1>3
  <1>4. ASSUME NEW name \in Name, NEW contents \in Contents,
               q = Append(p, Definition(name, contents))
        PROVE  Len(q) = Len(p) + 1 /\ \A i \in 1 .. Len(p) : q[i] = p[i]
    BY <1>2, <1>4
  <1>5. ASSUME NEW cursor \in 1 .. Len(p) - 1, q = AddUndoEvent(p, cursor)
        PROVE  Len(q) = Len(p) + 1 /\ \A i \in 1 .. Len(p) : q[i] = p[i]
    BY <1>2, <1>5 DEF AddUndoEvent
  <1>6. ASSUME NEW cursor \in 1 .. Len(p), NEW note \in Note, q = SetNote(p, cursor, note)
        PROVE  /\ Len(q) = Len(p)
               /\ \A i \in 1 .. Len(p) : /\ q[i].name = p[i].name
                                         /\ q[i].to = p[i].to
                                         /\ q[i].contents = p[i].contents
    BY <1>6, NoteShape
  <1>7. QED
    BY <1>1, <1>3, <1>4, <1>5, <1>6 DEF Change

LEMMA SameShape ==
    ASSUME NEW p, WellFormed(p), NEW q, WellFormed(q), Len(p) <= Len(q),
           \A i \in 1 .. Len(p) : /\ q[i].name = p[i].name
                                  /\ q[i].to = p[i].to
                                  /\ q[i].contents = p[i].contents
    PROVE  Shape(SubSeq(q, 1, Len(p))) = Shape(p)
  <1>1. p \in Seq(Entry) /\ Len(p) \in Nat /\ q \in Seq(Entry) /\ Len(q) \in Nat
    BY DEF WellFormed
  <1> DEFINE s == SubSeq(q, 1, Len(p))
  <1>2. /\ Len(s) = Len(p) /\ DOMAIN s = 1 .. Len(p) /\ DOMAIN p = 1 .. Len(p)
        /\ \A i \in 1 .. Len(p) : s[i] = q[i]
    BY <1>1
  <1> HIDE DEF s
  <1>3. Shape(s) = Shape(p)
    BY <1>2 DEF Shape
  <1>4. QED
    BY <1>3 DEF s

\* Memory agrees with the file on all the changes that the file has, and is at
\* most the one change ahead that save_tlv() is about to write.
THEOREM MemoryFollowsFile == Spec => []AtMostOneAhead
  <1>1. IInv => AtMostOneAhead
    <2> SUFFICES ASSUME IInv PROVE AtMostOneAhead
      OBVIOUS
    <2>1. WellFormed(image) /\ WellFormed(teliva_program) /\ unsaved \in BOOLEAN
      BY DEF IInv, TypeOK
    <2>2. Change(image, teliva_program)
      BY <2>1 DEF IInv, Change
    <2>3. /\ Len(image) \in Nat
          /\ Len(teliva_program) \in {Len(image), Len(image) + 1}
      BY <2>1, <2>2, ChangeExtends
    <2>4. Len(teliva_program) <= Len(image) + (IF unsaved THEN 1 ELSE 0)
      BY <2>1, <2>3 DEF IInv
    <2>5. Shape(SubSeq(teliva_program, 1, Len(image))) = Shape(image)
      BY <2>1, <2>2, <2>3, ChangeExtends, SameShape
    <2>6. QED
      BY <2>3, <2>4, <2>5 DEF AtMostOneAhead
  <1>2. QED
    BY <1>1, InitInv, NextInv, PTL DEF Spec

\* No step rewrites a change that was saved, whatever the user undoes.
THEOREM SavedIsForever == Spec => AppendOnly
  <1>1. IInv /\ [Next]_vars =>
          [/\ Len(image') \in {Len(image), Len(image) + 1}
           /\ Shape(SubSeq(image', 1, Len(image))) = Shape(image)]_vars
    <2> SUFFICES ASSUME IInv, Next
                 PROVE  /\ Len(image') \in {Len(image), Len(image) + 1}
                        /\ Shape(SubSeq(image', 1, Len(image))) = Shape(image)
      OBVIOUS
    <2>1. WellFormed(image) /\ WellFormed(teliva_program)
      BY DEF IInv, TypeOK
    <2>2. image' = image \/ (SaveTlv /\ image' = teliva_program)
      BY DEF Next, Update, UndoAfter, EditNote, SaveTlv, Restart
    <2>3. Change(image, image') /\ WellFormed(image')
      BY <2>1, <2>2 DEF IInv, Change, SaveTlv
    <2>4. QED
      BY <2>1, <2>3, ChangeExtends, SameShape
  <1>2. QED
    BY <1>1, InitInv, NextInv, PTL DEF Spec, AppendOnly

-----------------------------------------------------------------------------
Versions(p) == [k \in 1 .. Len(p) + 1 |-> SnapshotAt(p, k - 1)]

LEMMA VersionsType ==
    ASSUME NEW p, WellFormed(p)
    PROVE  /\ Versions(p) \in Seq(Store!Program)
           /\ Len(p) \in Nat
           /\ Len(Versions(p)) = Len(p) + 1
           /\ \A k \in 0 .. Len(p) : Versions(p)[k + 1] = SnapshotAt(p, k)
           /\ Versions(p)[1] = [name \in Name |-> Missing]
  <1>1. Len(p) \in Nat
    BY DEF WellFormed
  <1>2. ASSUME NEW k \in 0 .. Len(p)
        PROVE  SnapshotAt(p, k) \in Store!Program
    <2>1. WellFormed(SubSeq(p, 1, k))
      BY Prefix
    <2>2. \A name \in Name : LookUp(SubSeq(p, 1, k), name) \in Contents \cup {Missing}
      BY <2>1, LookUpType
    <2>3. QED
      BY <2>2 DEF SnapshotAt, Snapshot, Store!Program
  <1>3. \A k \in 1 .. Len(p) + 1 : k - 1 \in 0 .. Len(p)
    BY <1>1
  <1>4. Versions(p) \in Seq(Store!Program) /\ Len(Versions(p)) = Len(p) + 1
    BY <1>1, <1>2, <1>3 DEF Versions
  <1>5. ASSUME NEW k \in 0 .. Len(p)
        PROVE  Versions(p)[k + 1] = SnapshotAt(p, k)
    <2>1. k + 1 \in 1 .. Len(p) + 1 /\ (k + 1) - 1 = k
      BY <1>1
    <2>2. QED
      BY <2>1 DEF Versions
  <1>6. SnapshotAt(p, 0) = [name \in Name |-> Missing]
    <2> DEFINE s == SubSeq(p, 1, 0)
    <2>1. 0 \in 0 .. Len(p)
      BY <1>1
    <2>2. Live(s) = LiveFrom(p)[0]
      BY <2>1, Prefix
    <2>3. LiveFrom(p)[0] = {}
      BY <2>1, LiveStep DEF Visit
    <2>4. \A name : LookUp(s, name) = Missing
      BY <2>2, <2>3 DEF LookUp, Bindings
    <2>5. QED
      BY <2>4 DEF SnapshotAt, Snapshot
  <1>7. Versions(p)[1] = SnapshotAt(p, 0)
    BY <1>1, <1>5
  <1>8. QED
    BY <1>1, <1>4, <1>5, <1>6, <1>7

\* One more entry is one more version, and the old versions stay.
LEMMA VersionsExtend ==
    ASSUME NEW p, WellFormed(p), NEW q, WellFormed(q),
           Len(q) = Len(p) + 1,
           \A i \in 1 .. Len(p) : /\ q[i].name = p[i].name
                                  /\ q[i].to = p[i].to
                                  /\ q[i].contents = p[i].contents
    PROVE  Versions(q) = Append(Versions(p), Snapshot(q))
  <1> DEFINE vp == Versions(p)
             vq == Versions(q)
             n == Len(p)
  <1>1. /\ vp \in Seq(Store!Program) /\ n \in Nat /\ Len(vp) = n + 1
        /\ \A k \in 0 .. n : vp[k + 1] = SnapshotAt(p, k)
    BY VersionsType
  <1>2. /\ vq \in Seq(Store!Program) /\ Len(vq) = n + 2
        /\ \A k \in 0 .. n + 1 : vq[k + 1] = SnapshotAt(q, k)
    <2>1. Len(q) + 1 = n + 2
      BY <1>1
    <2>2. QED
      BY <2>1, VersionsType
  <1>3. ASSUME NEW k \in 0 .. n
        PROVE  SnapshotAt(q, k) = SnapshotAt(p, k)
    <2>1. k <= Len(q) /\ \A i \in 1 .. k : i \in 1 .. Len(p)
      BY <1>1
    <2>2. QED
      BY <2>1, SnapshotAgree
  <1>4. SnapshotAt(q, n + 1) = Snapshot(q)
    BY SnapshotAtAll
  <1> HIDE DEF vp, vq, n
  <1>5. ASSUME NEW j \in 1 .. n + 2
        PROVE  vq[j] = IF j = n + 2 THEN Snapshot(q) ELSE vp[j]
    <2>1. j - 1 \in 0 .. n + 1 /\ (j - 1) + 1 = j
      BY <1>1
    <2>2. vq[j] = SnapshotAt(q, j - 1)
      BY <2>1, <1>2
    <2>3. CASE j = n + 2
      BY <2>2, <2>3, <1>1, <1>4
    <2>4. CASE j # n + 2
      <3>1. j - 1 \in 0 .. n
        BY <2>4, <1>1
      <3>2. QED
        BY <2>1, <2>2, <2>4, <3>1, <1>1, <1>3
    <2>5. QED
      BY <2>3, <2>4
  <1>6. Snapshot(q) \in Store!Program
    <2>1. Snapshot(q) = vq[n + 2] /\ n + 2 \in 1 .. Len(vq)
      BY <1>1, <1>2, <1>5
    <2>2. QED
      BY <2>1, <1>2
  <1>7. /\ Append(vp, Snapshot(q)) \in Seq(Store!Program)
        /\ Len(Append(vp, Snapshot(q))) = n + 2
        /\ \A j \in 1 .. n + 2 :
              Append(vp, Snapshot(q))[j] = IF j = n + 2 THEN Snapshot(q) ELSE vp[j]
    BY <1>1, <1>6
  <1>8. vq = Append(vp, Snapshot(q))
    BY <1>2, <1>5, <1>7, SeqEqual
  <1>9. QED
    BY <1>8 DEF vp, vq

\* A history with the same changes has the same versions.
LEMMA VersionsSame ==
    ASSUME NEW p, WellFormed(p), NEW q, WellFormed(q), Len(q) = Len(p),
           \A i \in 1 .. Len(p) : /\ q[i].name = p[i].name
                                  /\ q[i].to = p[i].to
                                  /\ q[i].contents = p[i].contents
    PROVE  Versions(q) = Versions(p)
  <1>1. Len(p) \in Nat
    BY DEF WellFormed
  <1>2. ASSUME NEW k \in 1 .. Len(p) + 1
        PROVE  SnapshotAt(q, k - 1) = SnapshotAt(p, k - 1)
    <2>1. /\ k - 1 \in 0 .. Len(p) /\ k - 1 <= Len(q)
          /\ \A i \in 1 .. k - 1 : i \in 1 .. Len(p)
      BY <1>1
    <2>2. QED
      BY <2>1, SnapshotAgree
  <1>3. QED
    BY <1>2 DEF Versions

\* A save is one step of the store, or none.
LEMMA ChangeIsStep ==
    ASSUME NEW p, WellFormed(p), NEW q, WellFormed(q), Change(p, q)
    PROVE  \/ Versions(q) = Versions(p)
           \/ \E name \in Name, contents \in Contents :
                 /\ Versions(p)[Len(Versions(p))][name] # contents
                 /\ Versions(q) = Append(Versions(p),
                       [Versions(p)[Len(Versions(p))] EXCEPT ![name] = contents])
           \/ \E k \in 1 .. Len(Versions(p)) - 2 :
                 Versions(q) = Append(Versions(p), Versions(p)[k + 1])
  <1>1. /\ Len(p) \in Nat /\ Len(Versions(p)) = Len(p) + 1
        /\ \A k \in 0 .. Len(p) : Versions(p)[k + 1] = SnapshotAt(p, k)
    BY VersionsType
  <1>2. /\ Len(q) \in {Len(p), Len(p) + 1}
        /\ \A i \in 1 .. Len(p) : /\ q[i].name = p[i].name
                                  /\ q[i].to = p[i].to
                                  /\ q[i].contents = p[i].contents
    BY ChangeExtends
  <1>3. Versions(p)[Len(Versions(p))] = Snapshot(p)
    BY <1>1, SnapshotAtAll
  <1>4. CASE Len(q) = Len(p)
    BY <1>2, <1>4, VersionsSame
  <1>5. CASE Len(q) = Len(p) + 1
    <2>1. Versions(q) = Append(Versions(p), Snapshot(q))
      BY <1>2, <1>5, VersionsExtend
    <2>2. ASSUME NEW name \in Name, NEW contents \in Contents,
                 LookUp(p, name) # contents, q = Append(p, Definition(name, contents))
          PROVE  /\ Versions(p)[Len(Versions(p))][name] # contents
                 /\ Versions(q) = Append(Versions(p),
                       [Versions(p)[Len(Versions(p))] EXCEPT ![name] = contents])
      <3>1. Snapshot(q) = [Snapshot(p) EXCEPT ![name] = contents]
        BY <2>2, AppendDefinition
      <3>2. Snapshot(p)[name] # contents
        BY <2>2 DEF Snapshot
      <3>3. QED
        BY <2>1, <3>1, <3>2, <1>3
    <2>3. ASSUME NEW cursor \in 1 .. Len(p) - 1, q = AddUndoEvent(p, cursor)
          PROVE  /\ cursor \in 1 .. Len(Versions(p)) - 2
                 /\ Versions(q) = Append(Versions(p), Versions(p)[cursor + 1])
      <3>1. cursor \in 1 .. Len(p) /\ cursor \in 0 .. Len(p)
        BY <1>1
      <3>2. Snapshot(q) = SnapshotAt(p, cursor)
        BY <2>3, <3>1, AppendUndo
      <3>3. QED
        BY <2>1, <3>1, <3>2, <1>1
    <2>4. q # p /\ ~ \E cursor \in 1 .. Len(p), note \in Note : q = SetNote(p, cursor, note)
      BY <1>1, <1>5, NoteShape
    <2>5. QED
      BY <2>2, <2>3, <2>4 DEF Change
  <1>6. QED
    BY <1>2, <1>4, <1>5

\* The file implements the store of versions: every version is kept, a save adds
\* exactly the one the user made or brought back, and a crash at any point loses
\* none.
THEOREM ImageKeepsVersions == Spec => KeepsVersions
  <1>1. Init => Store!Init
    <2> SUFFICES ASSUME Init PROVE Store!Init
      OBVIOUS
    <2>1. WellFormed(image)
      BY DEF Init
    <2>2. QED
      BY <2>1, VersionsType DEF Store!Init, Versions
  <1>2. IInv /\ [Next]_vars => [Store!Next]_(Versions(image))
    <2> SUFFICES ASSUME IInv, [Next]_vars
                 PROVE  Store!Next \/ Versions(image)' = Versions(image)
      OBVIOUS
    <2>1. CASE SaveTlv
      <3>1. WellFormed(image) /\ WellFormed(teliva_program) /\ image' = teliva_program
        BY <2>1 DEF IInv, TypeOK, SaveTlv
      <3>2. Change(image, teliva_program)
        BY <2>1 DEF IInv, SaveTlv
      <3>3. Versions(image)' = Versions(teliva_program)
        BY <3>1 DEF Versions
      <3> DEFINE old == Versions(image)
                 new == Versions(image)'
      <3>4. \/ new = old
            \/ \E name \in Name, contents \in Contents :
                  /\ old[Len(old)][name] # contents
                  /\ new = Append(old, [old[Len(old)] EXCEPT ![name] = contents])
            \/ \E k \in 1 .. Len(old) - 2 : new = Append(old, old[k + 1])
        BY <3>1, <3>2, <3>3, ChangeIsStep
      <3>5. /\ old = [k \in 1 .. Len(image) + 1 |-> SnapshotAt(image, k - 1)]
            /\ new = [k \in 1 .. Len(image) + 1 |-> SnapshotAt(image, k - 1)]'
        BY DEF Versions
      <3> HIDE DEF old, new
      <3>6. CASE new = old
        BY <3>6 DEF old, new
      <3>7. ASSUME NEW name \in Name, NEW contents \in Contents,
                   old[Len(old)][name] # contents,
                   new = Append(old, [old[Len(old)] EXCEPT ![name] = contents])
            PROVE  Store!Define(name, contents)
        BY <3>5, <3>7 DEF Store!Define, Store!Current
      <3>8. ASSUME NEW k \in 1 .. Len(old) - 2, new = Append(old, old[k + 1])
            PROVE  Store!Revert(k)
        BY <3>5, <3>8 DEF Store!Revert
      <3>9. QED
        BY <3>4, <3>5, <3>6, <3>7, <3>8 DEF Store!Next
    <2>2. CASE image' = image
      BY <2>2 DEF Versions
    <2>3. QED
      BY <2>1, <2>2 DEF Next, Update, UndoAfter, EditNote, Restart, vars
  <1>3. QED
    BY <1>1, <1>2, InitInv, NextInv, PTL DEF Spec, KeepsVersions, Store!Spec, Versions
=============================================================================
