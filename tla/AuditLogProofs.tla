--------------------------- MODULE AuditLogProofs ---------------------------
(***************************************************************************)
(* The audit log for every size of the ring, every height of the screen    *)
(* and every set of functions: its indices never leave the ring, and its   *)
(* screens show the log of RecentLog.                                      *)
(***************************************************************************)
EXTENDS AuditLog, TLAPS

IInv == TypeOK /\ RingInv

LEMMA WrappedInRing ==
    ASSUME NEW i \in Slots
    PROVE  /\ Wrapped(i + 1) \in Slots
           /\ i + 1 < NAUDIT => Wrapped(i + 1) = i + 1
           /\ i + 1 = NAUDIT => Wrapped(i + 1) = 0
  BY AuditAssumption DEF Slots, Wrapped

LEMMA InitInv == Init => IInv
  BY AuditAssumption DEF Init, IInv, TypeOK, RingInv, Slots

LEMMA AppendInv ==
    ASSUME IInv, NEW name \in Func, AppendToAuditLog(name)
    PROVE  IInv'
  <1> USE AuditAssumption DEF IInv
  <1>1. naudit' \in Slots /\ iaudit' \in Slots
    BY WrappedInRing DEF TypeOK, AppendToAuditLog
  <1>2. TypeOK'
    BY <1>1 DEF TypeOK, AppendToAuditLog
  <1>3. iaudit' = 0 \/ iaudit' = naudit' + 1
    BY WrappedInRing DEF TypeOK, RingInv, AppendToAuditLog, Slots
  <1>4. ASSUME NEW i \in Slots, iaudit' # 0 \/ i < naudit'
        PROVE  audit_event'[i] # NoFunc
    <2>1. CASE i = naudit
      BY <2>1 DEF TypeOK, AppendToAuditLog
    <2>2. CASE i # naudit
      <3>1. audit_event'[i] = audit_event[i]
        BY <2>2 DEF TypeOK, AppendToAuditLog
      <3>2. iaudit # 0 \/ i < naudit
        BY <1>4, <2>2, WrappedInRing DEF TypeOK, RingInv, AppendToAuditLog, Slots
      <3>3. QED
        BY <3>1, <3>2 DEF RingInv
    <2>3. QED
      BY <2>1, <2>2
  <1>5. ASSUME iaudit' = 0, naudit' < NAUDIT - 1, NEW i \in Slots, i >= naudit'
        PROVE  audit_event'[i] = NoFunc
    <2>1. iaudit = 0 /\ naudit < NAUDIT - 1 /\ i >= naudit /\ i # naudit
      BY <1>5, WrappedInRing DEF TypeOK, RingInv, AppendToAuditLog, Slots
    <2>2. QED
      BY <2>1 DEF TypeOK, RingInv, AppendToAuditLog
  <1>6. RingInv'
    BY <1>3, <1>4, <1>5 DEF RingInv, AppendToAuditLog
  <1>7. QED
    BY <1>2, <1>6

LEMMA NextInv == IInv /\ [Next]_vars => IInv'
  <1> SUFFICES ASSUME IInv, [Next]_vars
               PROVE  IInv'
    OBVIOUS
  <1> USE AuditAssumption DEF IInv
  <1>1. ASSUME NEW name \in Func, AppendToAuditLog(name)
        PROVE  IInv'
    BY <1>1, AppendInv
  <1>2. CASE EnterEventsView
    BY <1>2 DEF EnterEventsView, ring, TypeOK, RingInv, Slots
  <1>3. CASE KeyUp
    BY <1>3 DEF KeyUp, ring, TypeOK, RingInv, Slots
  <1>4. CASE KeyDown
    BY <1>4 DEF KeyDown, ring, TypeOK, RingInv, Slots
  <1>5. CASE Enter
    BY <1>5 DEF Enter, ring, TypeOK, RingInv, Slots
  <1>6. CASE Restart
    BY <1>6 DEF Restart, TypeOK, RingInv, Slots
  <1>7. CASE UNCHANGED vars
    BY <1>7 DEF vars, TypeOK, RingInv, Slots
  <1>8. QED
    BY <1>1, <1>2, <1>3, <1>4, <1>5, <1>6, <1>7 DEF Next

\* The indices of append_to_audit_log() and the cursor of events_view() stay in
\* the ring, and every slot the screen can show has been written.
THEOREM IndicesInRing == Spec => [](TypeOK /\ RingInv)
  <1>1. QED
    BY InitInv, NextInv, PTL DEF Spec, IInv

\* Enter on the highlight of events_view() finds a function unless the log is
\* empty.
THEOREM EnterNeverMisses == Spec => []EnterFindsAnEvent
  <1>1. IInv => EnterFindsAnEvent
    <2> SUFFICES ASSUME IInv, screen = "events", NEW h \in Heights
                 PROVE  audit_event[cursor] = NoFunc <=> Rows(h) = <<>>
      BY DEF EnterFindsAnEvent
    <2> USE AuditAssumption
    <2>1. CASE iaudit = 0 /\ naudit = 0
      BY <2>1 DEF IInv, TypeOK, RingInv, Rows, RowCount, Slots
    <2>2. CASE iaudit # 0 \/ naudit # 0
      <3>1. audit_event[cursor] # NoFunc
        BY <2>2 DEF IInv, TypeOK, RingInv, Slots
      <3>2. RowCount(h) \in Nat /\ RowCount(h) > 0
        BY <2>2 DEF IInv, TypeOK, RowCount, Slots
      <3>3. 1 \in DOMAIN Rows(h)
        BY <3>2 DEF Rows
      <3>4. QED
        BY <3>1, <3>3
    <2>3. QED
      BY <2>1, <2>2
  <1>2. QED
    BY <1>1, InitInv, NextInv, PTL DEF Spec

-----------------------------------------------------------------------------
\* The events as a sequence of functions, at the slots of the first rows.
EventsAreRing ==
    /\ Events \in Seq(Func)
    /\ Len(Events) = IF iaudit = 0 THEN naudit ELSE NAUDIT - 1
    /\ \A k \in 1 .. Len(Events) :
          /\ SlotOfRow(k - 1) \in Slots
          /\ Events[k] = audit_event[SlotOfRow(k - 1)]

LEMMA EventsType == IInv => EventsAreRing
  <1> SUFFICES ASSUME IInv PROVE EventsAreRing
    OBVIOUS
  <1> DEFINE n == EventCount
  <1> USE AuditAssumption
  <1>1. n \in Nat /\ n = IF iaudit = 0 THEN naudit ELSE NAUDIT - 1
    BY DEF IInv, TypeOK, Slots, EventCount
  <1>2. ASSUME NEW k \in 1 .. n
        PROVE  /\ SlotOfRow(k - 1) \in Slots
               /\ EventSlot(k) = SlotOfRow(k - 1)
               /\ audit_event[SlotOfRow(k - 1)] \in Func
    <2>1. SlotOfRow(k - 1) \in Slots
      BY <1>1 DEF IInv, TypeOK, Slots, SlotOfRow
    <2>2. iaudit # 0 \/ SlotOfRow(k - 1) < naudit
      BY <1>1 DEF IInv, TypeOK, Slots, SlotOfRow
    <2>3. EventSlot(k) = SlotOfRow(k - 1)
      BY <1>1 DEF IInv, TypeOK, RingInv, Slots, SlotOfRow, EventSlot
    <2>4. QED
      BY <2>1, <2>2, <2>3 DEF IInv, TypeOK, RingInv
  <1>3. Events = [k \in 1 .. n |-> audit_event[SlotOfRow(k - 1)]]
    BY <1>2 DEF Events
  <1> HIDE DEF n
  <1>4. Events \in Seq(Func)
    <2>1. \A k \in 1 .. n : audit_event[SlotOfRow(k - 1)] \in Func
      BY <1>2
    <2>2. QED
      BY <1>1, <1>3, <2>1
  <1>5. Len(Events) = n
    BY <1>1, <1>3
  <1>6. QED
    BY <1>1, <1>2, <1>3, <1>4, <1>5 DEF EventsAreRing

LEMMA SpareType ==
    IInv => Spare = <<>> \/ \E e \in Func : Spare = <<e>>
  BY DEF IInv, TypeOK, Spare

\* Every screen shows the log, or the log and the spare event below it.
LEMMA ScreenShowsLog == IInv => Recent!ShowsLog
  <1> SUFFICES ASSUME IInv PROVE Recent!ShowsLog
    OBVIOUS
  <1> DEFINE list == IF iaudit = 0 THEN Events ELSE Events \o Spare
  <1> USE AuditAssumption
  <1>1. EventsAreRing
    BY EventsType
  <1>2. iaudit \in 0 .. NAUDIT - 1 /\ naudit \in 0 .. NAUDIT - 1
    BY DEF IInv, TypeOK, Slots
  <1>3. CASE iaudit = 0
    <2>1. ASSUME NEW h \in Heights
          PROVE  Rows(h) = Recent!Top(Events, h)
      <3>1. /\ Len(Events) = naudit
            /\ \A k \in 1 .. naudit : Events[k] = audit_event[SlotOfRow(k - 1)]
        BY <1>1, <1>3 DEF EventsAreRing
      <3>2. /\ RowCount(h) = IF naudit <= h THEN naudit ELSE h
            /\ RowCount(h) \in Nat /\ RowCount(h) <= naudit
        BY <1>2, <1>3 DEF RowCount
      <3>3. \A k \in 1 .. RowCount(h) : Events[k] = audit_event[SlotOfRow(k - 1)]
        BY <1>2, <3>1, <3>2
      <3>4. QED
        BY <3>1, <3>2, <3>3 DEF Rows, Recent!Top
    <2>2. QED
      BY <2>1 DEF Recent!ShowsLog, Recent!Screen
  <1>4. CASE iaudit # 0
    <2>1. /\ iaudit = naudit + 1
          /\ audit_event[naudit] \in Func
          /\ Spare = <<audit_event[naudit]>>
          /\ SlotOfRow(NAUDIT - 1) = naudit
      BY <1>4 DEF IInv, TypeOK, RingInv, Spare, Slots, SlotOfRow
    <2> DEFINE all == Events \o Spare
    <2>2. /\ Len(all) = NAUDIT
          /\ \A k \in 1 .. NAUDIT : all[k] = audit_event[SlotOfRow(k - 1)]
      BY <1>1, <1>4, <2>1 DEF EventsAreRing
    <2> HIDE DEF all
    <2>3. \A h \in Heights : Rows(h) = Recent!Top(all, h)
      BY <1>4, <2>2 DEF Rows, RowCount, Recent!Top
    <2>4. QED
      BY <2>3 DEF Recent!ShowsLog, Recent!Screen, all
  <1>5. QED
    BY <1>3, <1>4

\* The indices after one more event: while the ring fills, when it is full for
\* the first time or its first row is slot 0, and while it turns.
LEMMA AppendIndices ==
    ASSUME IInv, NEW name \in Func, AppendToAuditLog(name)
    PROVE  /\ naudit \in 0 .. NAUDIT - 1 /\ iaudit \in 0 .. NAUDIT - 1
           /\ naudit' \in 0 .. NAUDIT - 1 /\ iaudit' \in 0 .. NAUDIT - 1
           /\ \/ /\ iaudit = 0 /\ naudit < NAUDIT - 1
                 /\ naudit' = naudit + 1 /\ iaudit' = 0
              \/ /\ iaudit = 0 /\ naudit = NAUDIT - 1
                 /\ naudit' = 0 /\ iaudit' = 1
              \/ /\ iaudit = naudit + 1 /\ iaudit < NAUDIT - 1
                 /\ naudit' = naudit + 1 /\ iaudit' = iaudit + 1
              \/ /\ iaudit = naudit + 1 /\ iaudit = NAUDIT - 1
                 /\ naudit' = naudit + 1 /\ iaudit' = 0
  <1>1. /\ naudit \in 0 .. NAUDIT - 1 /\ iaudit \in 0 .. NAUDIT - 1
        /\ iaudit = 0 \/ iaudit = naudit + 1
    BY DEF IInv, TypeOK, RingInv, Slots
  <1>2. /\ naudit' = Wrapped(naudit + 1)
        /\ iaudit' = IF naudit' = iaudit THEN Wrapped(iaudit + 1) ELSE iaudit
    BY DEF AppendToAuditLog
  <1>3. QED
    BY <1>1, <1>2, AuditAssumption DEF Wrapped

\* Appending to the ring is recording in the list: the row that a full ring
\* gives up is the first one.
LEMMA AppendIsRecord ==
    ASSUME IInv, NEW name \in Func, AppendToAuditLog(name)
    PROVE  Recent!Record(name)
  <1> DEFINE old == Events
             new == Events'
             shift == IF iaudit = 0 /\ naudit < NAUDIT - 1 THEN 0 ELSE 1
  <1> USE AuditAssumption
  <1>1. IInv'
    BY AppendInv
  <1>2. EventsAreRing /\ EventsAreRing'
    BY <1>1, EventsType, PTL
  <1>3. /\ old \in Seq(Func)
        /\ Len(old) = IF iaudit = 0 THEN naudit ELSE NAUDIT - 1
        /\ \A k \in 1 .. Len(old) : old[k] = audit_event[SlotOfRow(k - 1)]
    BY <1>2 DEF EventsAreRing
  <1>4. /\ new \in Seq(Func)
        /\ Len(new) = IF iaudit' = 0 THEN naudit' ELSE NAUDIT - 1
        /\ \A k \in 1 .. Len(new) : new[k] = audit_event'[SlotOfRow(k - 1)']
    BY <1>2 DEF EventsAreRing
  <1> HIDE DEF old, new
  <1>5. Len(new) = Len(old) + 1 - shift
    <2>1. CASE iaudit = 0
      BY <1>3, <1>4, <2>1, AppendIndices
    <2>2. CASE iaudit # 0
      <3>1. Len(old) = NAUDIT - 1 /\ shift = 1
        BY <1>3, <2>2
      <3>2. Len(new) = NAUDIT - 1
        BY <1>4, <2>2, AppendIndices
      <3>3. QED
        BY <3>1, <3>2
    <2>3. QED
      BY <2>1, <2>2
  <1>6. ASSUME NEW k \in 1 .. Len(new)
        PROVE  new[k] = IF k = Len(new) THEN name ELSE old[k + shift]
    <2>1. CASE k = Len(new)
      <3>1. SlotOfRow(k - 1)' =
              IF iaudit' = 0 THEN k - 1
              ELSE IF iaudit' + (k - 1) >= NAUDIT
                   THEN iaudit' + (k - 1) - NAUDIT ELSE iaudit' + (k - 1)
        BY DEF SlotOfRow
      <3>2. k = IF iaudit' = 0 THEN naudit' ELSE NAUDIT - 1
        BY <2>1, <1>4
      <3>3. SlotOfRow(k - 1)' = naudit
        <4>1. CASE iaudit' = 0
          BY <3>1, <3>2, <4>1, AppendIndices
        <4>2. CASE iaudit' # 0
          BY <3>1, <3>2, <4>2, AppendIndices
        <4>3. QED
          BY <4>1, <4>2
      <3>4. QED
        BY <3>3, <2>1, <1>4 DEF IInv, TypeOK, AppendToAuditLog
    <2>2. CASE k # Len(new)
      <3>1. k + shift \in 1 .. Len(old)
        BY <2>2, <1>3, <1>5 DEF IInv, TypeOK, Slots
      <3>2. /\ SlotOfRow(k - 1)' = SlotOfRow(k + shift - 1)
            /\ SlotOfRow(k + shift - 1) # naudit
        <4>1. SlotOfRow(k - 1)' =
                IF iaudit' = 0 THEN k - 1
                ELSE IF iaudit' + (k - 1) >= NAUDIT
                     THEN iaudit' + (k - 1) - NAUDIT ELSE iaudit' + (k - 1)
          BY DEF SlotOfRow
        <4>2. /\ k \in Int /\ k >= 1
              /\ k < IF iaudit' = 0 THEN naudit' ELSE NAUDIT - 1
          BY <2>2, <1>4, AppendIndices
        <4>3. QED
          <5>1. SlotOfRow(k + shift - 1) =
                  IF iaudit = 0 THEN k + shift - 1
                  ELSE IF iaudit + (k + shift - 1) >= NAUDIT
                       THEN iaudit + (k + shift - 1) - NAUDIT ELSE iaudit + (k + shift - 1)
            BY DEF SlotOfRow
          <5>2. CASE iaudit = 0 /\ naudit < NAUDIT - 1
            BY <4>1, <4>2, <5>1, <5>2, AppendIndices
          <5>3. CASE iaudit = 0 /\ naudit = NAUDIT - 1
            BY <4>1, <4>2, <5>1, <5>3, AppendIndices
          <5>4. CASE iaudit # 0 /\ iaudit < NAUDIT - 1
            <6>1. /\ iaudit' = iaudit + 1 /\ iaudit' # 0 /\ shift = 1
                  /\ iaudit = naudit + 1 /\ naudit \in Int
              BY <5>4, AppendIndices
            <6>2. k \in Int /\ k >= 1 /\ k < NAUDIT - 1
              BY <4>2, <6>1
            <6>3. /\ SlotOfRow(k - 1)' = IF iaudit + k >= NAUDIT THEN iaudit + k - NAUDIT ELSE iaudit + k
                  /\ SlotOfRow(k + shift - 1) = IF iaudit + k >= NAUDIT THEN iaudit + k - NAUDIT ELSE iaudit + k
              BY <4>1, <5>1, <5>4, <6>1, <6>2
            <6>4. QED
              BY <6>1, <6>2, <6>3
          <5>5. CASE iaudit # 0 /\ iaudit = NAUDIT - 1
            BY <4>1, <4>2, <5>1, <5>5, AppendIndices
          <5>6. QED
            BY <5>2, <5>3, <5>4, <5>5, AppendIndices
      <3>3. SlotOfRow(k + shift - 1) \in Slots
        BY <3>1, <1>2 DEF EventsAreRing, old
      <3>4. QED
        BY <2>2, <3>1, <3>2, <3>3, <1>3, <1>4 DEF IInv, TypeOK, AppendToAuditLog
    <2>3. QED
      BY <2>1, <2>2
  <1>7. Len(Append(old, name)) = Len(old) + 1
    BY <1>3
  <1>8. Len(old) + 1 > NAUDIT - 1 <=> shift = 1
    BY <1>3 DEF IInv, TypeOK, Slots
  <1>9. new = Recent!Trimmed(Append(old, name))
    <2>1. Recent!Trimmed(Append(old, name)) \in Seq(Func)
      BY <1>3, <1>7 DEF Recent!Trimmed
    <2>2. Len(Recent!Trimmed(Append(old, name))) = Len(new)
      BY <1>3, <1>5, <1>7, <1>8 DEF Recent!Trimmed
    <2>3. ASSUME NEW k \in 1 .. Len(new)
          PROVE  new[k] = Recent!Trimmed(Append(old, name))[k]
      <3>1. new[k] = IF k = Len(new) THEN name ELSE old[k + shift]
        BY <1>6
      <3>2. Append(old, name) \in Seq(Func) /\ k + shift \in 1 .. Len(old) + 1
        BY <1>3, <1>5
      <3>3. Append(old, name)[k + shift] =
              IF k + shift = Len(old) + 1 THEN name ELSE old[k + shift]
        BY <1>3, <3>2
      <3>4. Recent!Trimmed(Append(old, name))[k] = Append(old, name)[k + shift]
        BY <1>3, <1>5, <1>7, <1>8, <3>2 DEF Recent!Trimmed
      <3>5. k = Len(new) <=> k + shift = Len(old) + 1
        BY <1>3, <1>4, <1>5
      <3>6. QED
        BY <3>1, <3>3, <3>4, <3>5
    <2>4. QED
      BY <1>4, <2>1, <2>2, <2>3
  <1>10. Spare' = IF Len(old) = NAUDIT - 1 THEN <<Head(old)>> ELSE Spare
    <2>1. CASE iaudit = 0 /\ naudit < NAUDIT - 1
      <3>1. /\ naudit \in Slots /\ naudit + 1 \in Slots /\ naudit' = naudit + 1
            /\ Len(old) # NAUDIT - 1
        BY <1>3, <2>1, AppendIndices DEF Slots
      <3>2. audit_event[naudit] = NoFunc /\ audit_event[naudit + 1] = NoFunc
        BY <2>1, <3>1 DEF IInv, RingInv, Slots
      <3>3. audit_event'[naudit'] = NoFunc
        BY <3>1, <3>2 DEF AppendToAuditLog, Slots
      <3>4. QED
        BY <3>1, <3>2, <3>3 DEF Spare
    <2>2. CASE ~ (iaudit = 0 /\ naudit < NAUDIT - 1)
      <3>1. Len(old) = NAUDIT - 1
        BY <1>3, <2>2 DEF IInv, TypeOK, RingInv, Slots
      <3>2. naudit' = SlotOfRow(0) /\ naudit' # naudit
        BY <2>2, AppendIndices DEF SlotOfRow
      <3>3. 1 \in 1 .. Len(old)
        BY <3>1
      <3>4. Head(old) = old[1] /\ old[1] = audit_event[SlotOfRow(1 - 1)] /\ old[1] \in Func
        BY <1>3, <3>3
      <3>5. audit_event'[naudit'] = Head(old)
        <4>1. audit_event'[naudit'] = audit_event[naudit']
          BY <3>2, <1>1 DEF AppendToAuditLog, IInv, TypeOK
        <4>2. QED
          BY <4>1, <3>2, <3>4
      <3>6. QED
        BY <3>1, <3>4, <3>5 DEF Spare
    <2>3. QED
      BY <2>1, <2>2
  <1>11. QED
    BY <1>9, <1>10 DEF Recent!Record, old, new

\* The events screens implement what RecentLog promises: the first rows of the
\* last NAUDIT - 1 events of this process, oldest first, however often the ring
\* has wrapped, and one row out of order on a screen higher than those.
THEOREM ScreenIsRecentLog == Spec => RecentEvents
  <1> DEFINE shown == <<Events, Spare, [h \in Heights |-> Rows(h)]>>
  <1>1. Init => Recent!Init
    <2> SUFFICES ASSUME Init PROVE Recent!Init
      OBVIOUS
    <2>1. Recent!ShowsLog
      BY InitInv, ScreenShowsLog
    <2>2. naudit \in Slots /\ audit_event[naudit] = NoFunc
      BY AuditAssumption DEF Init, Slots
    <2>3. QED
      BY <2>1, <2>2 DEF Init, Recent!Init, Events, EventCount, Spare
  <1>2. IInv /\ [Next]_vars => [Recent!Next]_shown
    <2> SUFFICES ASSUME IInv, [Next]_vars
                 PROVE  Recent!Next \/ UNCHANGED shown
      OBVIOUS
    <2>1. Recent!ShowsLog'
      <3>1. IInv'
        BY NextInv
      <3>2. QED
        BY <3>1, ScreenShowsLog, PTL
    <2>2. ASSUME NEW name \in Func, AppendToAuditLog(name)
          PROVE  Recent!Next
      BY <2>1, <2>2, AppendIsRecord DEF Recent!Next
    <2>3. CASE EnterEventsView \/ KeyUp \/ KeyDown \/ Enter \/ UNCHANGED vars
      BY <2>3 DEF EnterEventsView, KeyUp, KeyDown, Enter, vars, ring,
                  Events, EventCount, EventSlot, Spare, Rows, RowCount, SlotOfRow
    <2>4. CASE Restart
      <3>1. naudit' \in Slots /\ audit_event'[naudit'] = NoFunc
        BY <2>4, AuditAssumption DEF Restart, Slots
      <3>2. QED
        BY <2>1, <2>4, <3>1
        DEF Restart, Recent!Next, Recent!Restart, Events, EventCount, Spare
    <2>5. QED
      BY <2>2, <2>3, <2>4 DEF Next
  <1>3. QED
    BY <1>1, <1>2, InitInv, NextInv, PTL DEF Spec, RecentEvents, Recent!Spec
=============================================================================
