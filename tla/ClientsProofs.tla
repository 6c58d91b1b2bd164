----------------------------- MODULE ClientsProofs -----------------------------
(***************************************************************************)
(* However a request ends, its sockets are closed (SocketsClosed), for any *)
(* scenarios, connections, sizes and times, whatever the peers do.         *)
(***************************************************************************)
EXTENDS Clients, SequenceTheorems, TLAPS

-----------------------------------------------------------------------------
(* Lists of steps                                                          *)

IsList(s) == \E S : s \in Seq(S)

Openers == {"create", "settimeout", "connect", "wrap", "close"}

\* A step may fail without the finalizer only where a connection is opened;
\* only the end of a receive() is looked at.
WellFormed(s) ==
    /\ {"do", "conn", "try", "then", "next", "data", "pat", "count", "ok"} \subseteq DOMAIN s
    /\ s.try = "plain" => s.do \in {"create", "connect", "handshake"}
    /\ s.do # "receive" => s.then = "" /\ s.try \in {"guard", "plain"}
    /\ s.try = "closed" => s.then = "until-closed"
    /\ s.then \in {"http", "status"} => s.next # "trailers"

\* The lines of a response up to its body.
HeadLine(s) ==
    /\ s.do = "receive"
    /\ s.then \in {"http", "status", "first", "next", "unfold"}
    /\ s.next # "trailers"

\* The step closes c, or is replaced by others of which one does.
WillClose(s, c) == s.conn = c /\ (s.do = "close" \/ s.try = "closed" \/ HeadLine(s))

Formed(s) == IsList(s) /\ \A i \in 1..Len(s) : WellFormed(s[i])

PlainFirst(s) ==
    \A k \in 1..Len(s) : s[k].try = "plain" => \A j \in 1..(k - 1) : s[j].do \in Openers

NonePlain(s) == \A k \in 1..Len(s) : s[k].try # "plain"

\* A socket is made, and given a time limit, right before it is connected.
Prepared(s) ==
    \A i \in 1..Len(s) : s[i].do = "connect" =>
        /\ i >= 2 => s[i - 1].do = "settimeout"
        /\ i >= 3 => /\ s[i - 2].do = "create" /\ s[i - 2].conn = s[i].conn
                     /\ s[i].try = "guard" => s[i - 2].try = "guard"

Fresh(s) == \A i \in 1..Len(s) : s[i].do = "connect" => i >= 3

Closing(s) ==
    \A i \in 1..Len(s) : s[i].do = "connect" =>
        \E j \in (i + 1)..Len(s) : WillClose(s[j], s[i].conn)

HeadLast(s) == \A i \in 1..Len(s) : HeadLine(s[i]) => i = Len(s)

\* What is left of a client that has begun, and a client.
Rest(s) == Formed(s) /\ PlainFirst(s) /\ Prepared(s) /\ Closing(s) /\ HeadLast(s)
Plan(s) == Rest(s) /\ Fresh(s)

-----------------------------------------------------------------------------
(* The invariant                                                           *)

SockTypes ==
    /\ DOMAIN sock = Conns
    /\ \A c \in Conns : {"fd", "family", "tls", "block", "buf"} \subseteq DOMAIN sock[c]

ClTypes ==
    /\ {"todo", "result", "asked", "request", "code", "headers", "sunk", "closes"} \subseteq DOMAIN cl
    /\ {"kind", "scheme", "method", "source", "chunked", "redirects"} \subseteq DOMAIN cl.request
    /\ Len(cl.request.source) \in Nat

OpFollows ==
    /\ {"call", "conn", "pc", "pat", "data", "count", "left", "waited", "err"} \subseteq DOMAIN op
    /\ op.call = "none" => op.pc = "call"
    /\ op.call # "none" =>
          /\ cl.result = "running" /\ cl.todo # <<>>
          /\ op.call \in {"connect", "handshake", "receive", "send"}
          /\ op.call = First.do /\ op.conn = c0

\* The handshake has ended, and http.lua does not know yet.
Just(c) ==
    /\ cl.todo # <<>> /\ First.do = "handshake" /\ c0 = c
    /\ op.pc = "done" /\ op.err = ""

Unsecured(c) == sock[c].tls # "connected" \/ Just(c)

Owned == \A c \in Conns : sock[c].fd = "open" =>
             \E i \in 1..Len(cl.todo) : WillClose(cl.todo[i], c)

Guarded == \A c \in Conns : sock[c].fd = "open" /\ c \notin cl.closes =>
               cl.request.scheme = "https" /\ Unsecured(c)

PlainUnsecured ==
    \A k \in 1..Len(cl.todo) : cl.todo[k].try = "plain" =>
        /\ cl.request.scheme = "https"
        /\ \A c \in Conns : sock[c].fd = "open" =>
              \/ Unsecured(c)
              \/ \E j \in 1..(k - 1) : cl.todo[j].do = "close" /\ cl.todo[j].conn = c

\* The socket that is about to be connected is a new one.
Starting ==
    \A i \in 1..Len(cl.todo) : i <= 2 /\ cl.todo[i].do = "connect" =>
        /\ cl.todo[i].conn \in Conns => sock[cl.todo[i].conn].tls = "no"
        /\ cl.todo[i].try = "guard" => cl.todo[i].conn \in cl.closes

CInv ==
    /\ SockTypes
    /\ ClTypes
    /\ OpFollows
    /\ cl.result = "running" =>
          Rest(cl.todo) /\ Owned /\ Guarded /\ PlainUnsecured /\ Starting
    /\ SocketsClosed

-----------------------------------------------------------------------------
(* What lists keep                                                         *)

LEMMA ListFacts ==
  ASSUME NEW s, IsList(s)
  PROVE  /\ Len(s) \in Nat
         /\ s = <<>> <=> Len(s) = 0
         /\ s # <<>> =>
              /\ Head(s) = s[1] /\ Len(s) >= 1
              /\ IsList(Tail(s)) /\ Len(Tail(s)) = Len(s) - 1
              /\ \A i \in 1..Len(s) - 1 : Tail(s)[i] = s[i + 1]
  <1>1. PICK S : s \in Seq(S)
    BY DEF IsList
  <1>2. Len(s) \in Nat /\ (s = <<>> <=> Len(s) = 0)
    BY <1>1
  <1>3. ASSUME s # <<>>
        PROVE  /\ Head(s) = s[1] /\ Len(s) >= 1
               /\ IsList(Tail(s)) /\ Len(Tail(s)) = Len(s) - 1
               /\ \A i \in 1..Len(s) - 1 : Tail(s)[i] = s[i + 1]
    <2>1. Head(s) = s[1] /\ Len(s) >= 1
      BY <1>1, <1>2, <1>3
    <2>2. /\ Tail(s) \in Seq(S) /\ Len(Tail(s)) = Len(s) - 1
          /\ \A i \in 1..Len(Tail(s)) : Tail(s)[i] = s[i + 1]
      BY <1>1, <1>3, HeadTailProperties, Zenon
    <2>3. QED
      BY <2>1, <2>2 DEF IsList
  <1>4. QED
    BY <1>2, <1>3

LEMMA JoinFacts ==
  ASSUME NEW s, NEW t, IsList(s), IsList(t)
  PROVE  /\ IsList(s \o t)
         /\ Len(s \o t) = Len(s) + Len(t)
         /\ \A i \in 1..Len(s) : (s \o t)[i] = s[i]
         /\ \A i \in 1..Len(t) : (s \o t)[Len(s) + i] = t[i]
  <1>1. PICK S : s \in Seq(S)
    BY DEF IsList
  <1>2. PICK T : t \in Seq(T)
    BY DEF IsList
  <1>3. s \in Seq(S \cup T) /\ t \in Seq(S \cup T)
    BY <1>1, <1>2, SeqMonotonic
  <1>4. /\ s \o t \in Seq(S \cup T)
        /\ Len(s \o t) = Len(s) + Len(t)
        /\ \A i \in 1..Len(s) + Len(t) : (s \o t)[i] = IF i <= Len(s) THEN s[i] ELSE t[i - Len(s)]
    BY <1>3, ConcatProperties, Zenon
  <1>5. Len(s) \in Nat /\ Len(t) \in Nat
    BY <1>1, <1>2
  <1>6. QED
    BY <1>4, <1>5 DEF IsList

LEMMA Listed ==
  ASSUME NEW n \in Nat, NEW s, s = [i \in 1..n |-> s[i]]
  PROVE  IsList(s) /\ Len(s) = n
  <1>1. s \in [1..n -> {s[i] : i \in 1..n}]
    BY Zenon
  <1>2. s \in Seq({s[i] : i \in 1..n})
    BY <1>1, SeqDef
  <1>3. Len(s) \in Nat /\ DOMAIN s = 1..Len(s) /\ DOMAIN s = 1..n
    BY <1>1, <1>2, LenProperties
  <1>4. \A m \in Nat : (m \in 1..Len(s)) <=> (m \in 1..n)
    BY <1>3
  <1>5. Len(s) = n
    BY <1>3, <1>4
  <1>6. QED
    BY <1>2, <1>5 DEF IsList

\* A step is taken off the list.
LEMMA RestOfTail ==
  ASSUME NEW s, Rest(s), s # <<>>
  PROVE  /\ Rest(Tail(s))
         /\ Head(s).do \notin {"create", "settimeout"} => Fresh(Tail(s))
         /\ Head(s).do \notin Openers => NonePlain(Tail(s))
  <1> DEFINE t == Tail(s)
  <1>1. /\ Len(s) \in Nat /\ Head(s) = s[1] /\ Len(s) >= 1
        /\ IsList(t) /\ Len(t) = Len(s) - 1
        /\ \A i \in 1..Len(s) - 1 : t[i] = s[i + 1]
    BY ListFacts DEF Rest, Formed
  <1>2. \A i \in 1..Len(t) : i + 1 \in 1..Len(s) /\ t[i] = s[i + 1]
    BY <1>1
  <1> HIDE DEF t
  <1>3. Formed(t)
    BY <1>1, <1>2 DEF Rest, Formed
  <1>4. PlainFirst(t)
    <2> SUFFICES ASSUME NEW k \in 1..Len(t), t[k].try = "plain", NEW j \in 1..(k - 1)
                 PROVE  t[j].do \in Openers
      BY DEF PlainFirst
    <2>1. j + 1 \in 1..(k + 1 - 1) /\ j \in 1..Len(t)
      BY <1>1
    <2>2. s[k + 1].try = "plain" /\ k + 1 \in 1..Len(s)
      BY <1>2
    <2>3. s[j + 1].do \in Openers
      BY <2>1, <2>2 DEF Rest, PlainFirst
    <2>4. QED
      BY <2>1, <2>3, <1>2
  <1>5. Prepared(t)
    <2> SUFFICES ASSUME NEW i \in 1..Len(t), t[i].do = "connect"
                 PROVE  /\ i >= 2 => t[i - 1].do = "settimeout"
                        /\ i >= 3 => /\ t[i - 2].do = "create" /\ t[i - 2].conn = t[i].conn
                                     /\ t[i].try = "guard" => t[i - 2].try = "guard"
      BY DEF Prepared
    <2>1. t[i] = s[i + 1] /\ i + 1 \in 1..Len(s)
      BY <1>2
    <2>2. i >= 2 => s[i].do = "settimeout" /\ t[i - 1] = s[i]
      <3>1. ASSUME i >= 2 PROVE s[i].do = "settimeout" /\ t[i - 1] = s[i]
        <4>1. i - 1 \in 1..Len(t) /\ (i - 1) + 1 = i /\ (i + 1) - 1 = i /\ i + 1 >= 2
          BY <1>1, <3>1
        <4>2. s[(i + 1) - 1].do = "settimeout"
          BY <2>1, <4>1 DEF Rest, Prepared
        <4>3. t[i - 1] = s[(i - 1) + 1]
          BY <4>1, <1>2
        <4>4. QED
          BY <4>1, <4>2, <4>3
      <3>2. QED
        BY <3>1
    <2>3. ASSUME i >= 3
          PROVE  /\ t[i - 2].do = "create" /\ t[i - 2].conn = t[i].conn
                 /\ t[i].try = "guard" => t[i - 2].try = "guard"
      <3>1. i - 2 \in 1..Len(t) /\ (i - 2) + 1 = i - 1 /\ (i + 1) - 2 = i - 1 /\ i + 1 >= 3
        BY <1>1, <2>3
      <3>2. /\ s[(i + 1) - 2].do = "create" /\ s[(i + 1) - 2].conn = s[i + 1].conn
            /\ s[i + 1].try = "guard" => s[(i + 1) - 2].try = "guard"
        BY <2>1, <3>1 DEF Rest, Prepared
      <3>3. t[i - 2] = s[(i - 2) + 1]
        BY <3>1, <1>2
      <3>4. QED
        BY <2>1, <3>1, <3>2, <3>3
    <2>4. QED
      BY <2>2, <2>3
  <1>6. Closing(t)
    <2> SUFFICES ASSUME NEW i \in 1..Len(t), t[i].do = "connect"
                 PROVE  \E j \in (i + 1)..Len(t) : WillClose(t[j], t[i].conn)
      BY DEF Closing
    <2>1. t[i] = s[i + 1] /\ i + 1 \in 1..Len(s)
      BY <1>2
    <2>2. PICK j \in (i + 1 + 1)..Len(s) : WillClose(s[j], s[i + 1].conn)
      BY <2>1 DEF Rest, Closing
    <2>3. j - 1 \in (i + 1)..Len(t) /\ j - 1 \in 1..Len(t) /\ (j - 1) + 1 = j
      BY <1>1
    <2>4. t[j - 1] = s[j]
      BY <2>3, <1>2
    <2>5. QED
      BY <2>1, <2>2, <2>3, <2>4
  <1>7. HeadLast(t)
    <2> SUFFICES ASSUME NEW i \in 1..Len(t), HeadLine(t[i]) PROVE i = Len(t)
      BY DEF HeadLast
    <2>1. HeadLine(s[i + 1]) /\ i + 1 \in 1..Len(s)
      BY <1>2
    <2>2. i + 1 = Len(s)
      BY <2>1 DEF Rest, HeadLast
    <2>3. QED
      BY <2>2, <1>1
  <1>8. Head(s).do \notin {"create", "settimeout"} => Fresh(t)
    <2> SUFFICES ASSUME s[1].do \notin {"create", "settimeout"}, NEW i \in 1..Len(t), t[i].do = "connect"
                 PROVE  i >= 3
      BY <1>1 DEF Fresh
    <2>1. s[i + 1].do = "connect" /\ i + 1 \in 1..Len(s)
      BY <1>2
    <2>2. CASE i = 1
      <3>1. s[i + 1 - 1].do = "settimeout"
        BY <2>1, <2>2 DEF Rest, Prepared
      <3>2. QED
        BY <3>1, <2>2
    <2>3. CASE i = 2
      <3>1. s[i + 1 - 2].do = "create"
        BY <2>1, <2>3 DEF Rest, Prepared
      <3>2. QED
        BY <3>1, <2>3
    <2>4. QED
      BY <2>2, <2>3
  <1>9. Head(s).do \notin Openers => NonePlain(t)
    <2> SUFFICES ASSUME s[1].do \notin Openers, NEW k \in 1..Len(t), t[k].try = "plain"
                 PROVE  FALSE
      BY <1>1 DEF NonePlain
    <2>1. s[k + 1].try = "plain" /\ k + 1 \in 1..Len(s) /\ 1 \in 1..(k + 1 - 1)
      BY <1>2
    <2>2. QED
      BY <2>1 DEF Rest, PlainFirst
  <1>10. QED
    BY <1>3, <1>4, <1>5, <1>6, <1>7, <1>8, <1>9 DEF Rest, t

\* Steps are put before a list.
LEMMA Joined ==
  ASSUME NEW a, NEW t,
         Formed(a), PlainFirst(a), Prepared(a), Fresh(a), Plan(t),
         NonePlain(t) \/ \A i \in 1..Len(a) : a[i].do \in Openers,
         \A i \in 1..Len(a) : HeadLine(a[i]) => i = Len(a) /\ t = <<>>,
         \A i \in 1..Len(a) : a[i].do = "connect" => \E j \in 1..Len(t) : WillClose(t[j], a[i].conn)
  PROVE  Plan(a \o t)
  <1> DEFINE s == a \o t
             n == Len(a)
  <1>1. IsList(a) /\ IsList(t) /\ n \in Nat /\ Len(t) \in Nat
    BY ListFacts DEF Plan, Rest, Formed
  <1>2. /\ IsList(s) /\ Len(s) = n + Len(t)
        /\ \A i \in 1..n : s[i] = a[i]
        /\ \A i \in 1..Len(t) : s[n + i] = t[i]
    BY <1>1, JoinFacts
  <1> HIDE DEF s, n
  <1>3. \A i \in 1..Len(s) : i \in 1..n \/ (i - n \in 1..Len(t) /\ s[i] = t[i - n])
    <2> SUFFICES ASSUME NEW i \in 1..Len(s), i \notin 1..n
                 PROVE  i - n \in 1..Len(t) /\ s[i] = t[i - n]
      OBVIOUS
    <2>1. i - n \in 1..Len(t) /\ n + (i - n) = i
      BY <1>1, <1>2
    <2>2. QED
      BY <2>1, <1>2
  <1>4. Formed(s)
    BY <1>1, <1>2, <1>3 DEF Plan, Rest, Formed, n
  <1>5. PlainFirst(s)
    <2> SUFFICES ASSUME NEW k \in 1..Len(s), s[k].try = "plain", NEW j \in 1..(k - 1)
                 PROVE  s[j].do \in Openers
      BY DEF PlainFirst
    <2>1. CASE k \in 1..n
      <3>1. j \in 1..n /\ s[j] = a[j] /\ s[k] = a[k]
        BY <1>1, <1>2, <2>1
      <3>2. QED
        BY <3>1, <2>1 DEF PlainFirst, n
    <2>2. CASE k \notin 1..n
      <3>1. k - n \in 1..Len(t) /\ t[k - n].try = "plain"
        BY <1>3, <2>2
      <3>2. \A i \in 1..n : a[i].do \in Openers
        BY <3>1 DEF NonePlain, n
      <3>3. CASE j \in 1..n
        BY <3>2, <3>3, <1>2
      <3>4. CASE j \notin 1..n
        <4>1. j \in 1..Len(s) /\ j - n \in 1..((k - n) - 1)
          BY <1>1, <1>2, <3>4
        <4>2. t[j - n].do \in Openers
          BY <3>1, <4>1 DEF Plan, Rest, PlainFirst
        <4>3. QED
          BY <4>1, <4>2, <1>3, <3>4
      <3>5. QED
        BY <3>3, <3>4
    <2>3. QED
      BY <2>1, <2>2
  <1>6. Prepared(s) /\ Fresh(s)
    <2> SUFFICES ASSUME NEW i \in 1..Len(s), s[i].do = "connect"
                 PROVE  /\ i >= 3 /\ s[i - 1].do = "settimeout"
                        /\ s[i - 2].do = "create" /\ s[i - 2].conn = s[i].conn
                        /\ s[i].try = "guard" => s[i - 2].try = "guard"
      BY DEF Prepared, Fresh
    <2>1. CASE i \in 1..n
      <3>1. s[i] = a[i] /\ i >= 3
        BY <1>2, <2>1 DEF Fresh, n
      <3>2. i - 1 \in 1..n /\ i - 2 \in 1..n
        BY <1>1, <2>1, <3>1
      <3>3. s[i - 1] = a[i - 1] /\ s[i - 2] = a[i - 2]
        BY <1>2, <3>2
      <3>4. QED
        BY <2>1, <3>1, <3>3 DEF Prepared, n
    <2>2. CASE i \notin 1..n
      <3> DEFINE k == i - n
      <3>1. k \in 1..Len(t) /\ s[i] = t[k]
        BY <1>3, <2>2
      <3>2. k >= 3
        BY <3>1 DEF Plan, Fresh
      <3>3. /\ i >= 3 /\ i - 1 \in 1..Len(s) /\ i - 2 \in 1..Len(s)
            /\ i - 1 \notin 1..n /\ i - 2 \notin 1..n
            /\ (i - 1) - n = k - 1 /\ (i - 2) - n = k - 2
        BY <1>1, <1>2, <3>1, <3>2
      <3>4. s[i - 1] = t[k - 1] /\ s[i - 2] = t[k - 2]
        BY <1>3, <3>3
      <3> HIDE DEF k
      <3>5. QED
        BY <3>1, <3>2, <3>3, <3>4 DEF Plan, Rest, Prepared
    <2>3. QED
      BY <2>1, <2>2
  <1>7. Closing(s)
    <2> SUFFICES ASSUME NEW i \in 1..Len(s), s[i].do = "connect"
                 PROVE  \E j \in (i + 1)..Len(s) : WillClose(s[j], s[i].conn)
      BY DEF Closing
    <2>1. CASE i \in 1..n
      <3>1. s[i] = a[i]
        BY <1>2, <2>1
      <3>2. PICK j \in 1..Len(t) : WillClose(t[j], a[i].conn)
        BY <3>1, <2>1 DEF n
      <3>3. n + j \in (i + 1)..Len(s) /\ s[n + j] = t[j]
        BY <1>1, <1>2, <2>1
      <3>4. QED
        BY <3>1, <3>2, <3>3
    <2>2. CASE i \notin 1..n
      <3> DEFINE k == i - n
      <3>1. k \in 1..Len(t) /\ s[i] = t[k]
        BY <1>3, <2>2
      <3>2. PICK j \in (k + 1)..Len(t) : WillClose(t[j], t[k].conn)
        BY <3>1 DEF Plan, Rest, Closing
      <3>3. n + j \in (i + 1)..Len(s) /\ j \in 1..Len(t)
        BY <1>1, <1>2, <3>1
      <3>4. s[n + j] = t[j]
        BY <1>2, <3>3
      <3>5. QED
        BY <3>1, <3>2, <3>3, <3>4
    <2>3. QED
      BY <2>1, <2>2
  <1>8. HeadLast(s)
    <2> SUFFICES ASSUME NEW i \in 1..Len(s), HeadLine(s[i]) PROVE i = Len(s)
      BY DEF HeadLast
    <2>1. CASE i \in 1..n
      <3>1. HeadLine(a[i])
        BY <1>2, <2>1
      <3>2. i = n /\ t = <<>>
        BY <3>1, <2>1 DEF n
      <3>3. Len(t) = 0
        BY <3>2
      <3>4. QED
        BY <3>2, <3>3, <1>1, <1>2
    <2>2. CASE i \notin 1..n
      <3>1. i - n \in 1..Len(t) /\ HeadLine(t[i - n])
        BY <1>3, <2>2
      <3>2. i - n = Len(t)
        BY <3>1 DEF Plan, Rest, HeadLast
      <3>3. QED
        BY <3>2, <1>1, <1>2
    <2>3. QED
      BY <2>1, <2>2
  <1>9. QED
    BY <1>4, <1>5, <1>6, <1>7, <1>8 DEF Plan, Rest, s

\* What is said and heard once there are connections.
Talking(s) ==
    /\ WellFormed(s)
    /\ s.do \in {"send", "receive", "close", "preliminary"}

Talk(a) == IsList(a) /\ \A i \in 1..Len(a) : Talking(a[i])
NoHeadLine(a) == \A i \in 1..Len(a) : ~HeadLine(a[i])

LEMMA TalkFacts ==
  ASSUME NEW a, Talk(a)
  PROVE  Formed(a) /\ PlainFirst(a) /\ NonePlain(a) /\ Prepared(a) /\ Fresh(a) /\ Closing(a)
  BY DEF Talk, Talking, WellFormed, Formed, PlainFirst, NonePlain, Prepared, Fresh, Closing

LEMMA TalkPlan ==
  ASSUME NEW a, Talk(a), HeadLast(a)
  PROVE  Plan(a) /\ NonePlain(a)
  BY TalkFacts DEF Plan, Rest

LEMMA TalkJoined ==
  ASSUME NEW a, NEW t, Talk(a), Plan(t), NonePlain(t),
         \A i \in 1..Len(a) : HeadLine(a[i]) => i = Len(a) /\ t = <<>>
  PROVE  Plan(a \o t)
  <1>1. \A i \in 1..Len(a) : a[i].do # "connect"
    BY DEF Talk, Talking
  <1>2. QED
    BY <1>1, TalkFacts, Joined

LEMMA TalksJoin ==
  ASSUME NEW a, NEW b, Talk(a), Talk(b)
  PROVE  Talk(a \o b)
  <1>1. IsList(a) /\ IsList(b) /\ Len(a) \in Nat /\ Len(b) \in Nat
    BY ListFacts DEF Talk
  <1>2. /\ IsList(a \o b) /\ Len(a \o b) = Len(a) + Len(b)
        /\ \A i \in 1..Len(a) : (a \o b)[i] = a[i]
        /\ \A i \in 1..Len(b) : (a \o b)[Len(a) + i] = b[i]
    BY <1>1, JoinFacts
  <1> DEFINE s == a \o b
  <1> HIDE DEF s
  <1>3. ASSUME NEW i \in 1..Len(a) + Len(b) PROVE Talking(s[i])
    <2>1. CASE i \in 1..Len(a)
      BY <2>1, <1>2 DEF Talk, s
    <2>2. CASE i \notin 1..Len(a)
      <3>1. i - Len(a) \in 1..Len(b) /\ Len(a) + (i - Len(a)) = i
        BY <1>1, <2>2
      <3>2. s[Len(a) + (i - Len(a))] = b[i - Len(a)]
        BY <1>2, <3>1 DEF s
      <3>3. QED
        BY <3>1, <3>2 DEF Talk
    <2>3. QED
      BY <2>1, <2>2
  <1>4. QED
    BY <1>2, <1>3 DEF Talk, s

LEMMA QuietJoined ==
  ASSUME NEW a, NEW b, Talk(a), Talk(b), NoHeadLine(a), NoHeadLine(b)
  PROVE  Talk(a \o b) /\ NoHeadLine(a \o b)
  <1>1. IsList(a) /\ IsList(b) /\ Len(a) \in Nat /\ Len(b) \in Nat
    BY ListFacts DEF Talk
  <1> DEFINE s == a \o b
  <1>2. /\ Len(s) = Len(a) + Len(b)
        /\ \A i \in 1..Len(a) : s[i] = a[i]
        /\ \A i \in 1..Len(b) : s[Len(a) + i] = b[i]
    BY <1>1, JoinFacts
  <1>3. Talk(s)
    BY TalksJoin
  <1> HIDE DEF s
  <1>4. ASSUME NEW i \in 1..Len(a) + Len(b) PROVE ~HeadLine(s[i])
    <2>1. CASE i \in 1..Len(a)
      BY <2>1, <1>2 DEF NoHeadLine
    <2>2. CASE i \notin 1..Len(a)
      <3>1. i - Len(a) \in 1..Len(b) /\ Len(a) + (i - Len(a)) = i
        BY <1>1, <2>2
      <3>2. s[Len(a) + (i - Len(a))] = b[i - Len(a)]
        BY <1>2, <3>1
      <3>3. QED
        BY <3>1, <3>2 DEF NoHeadLine
    <2>3. QED
      BY <2>1, <2>2
  <1>5. QED
    BY <1>2, <1>3, <1>4 DEF NoHeadLine, s

Associates(a, b, c) == (a \o b) \o c = a \o (b \o c)

LEMMA Assoc ==
  ASSUME NEW a, NEW b, NEW c, IsList(a), IsList(b), IsList(c)
  PROVE  Associates(a, b, c)
  <1>1. PICK A : a \in Seq(A)
    BY DEF IsList
  <1>2. PICK B : b \in Seq(B)
    BY DEF IsList
  <1>3. PICK C : c \in Seq(C)
    BY DEF IsList
  <1> DEFINE S == A \cup B \cup C
  <1>4. a \in Seq(S) /\ b \in Seq(S) /\ c \in Seq(S)
    BY <1>1, <1>2, <1>3, SeqMonotonic
  <1> HIDE DEF S
  <1>5. (a \o b) \o c = a \o (b \o c)
    BY <1>4, ConcatAssociative
  <1>6. QED
    BY <1>5 DEF Associates

-----------------------------------------------------------------------------
(* The clients                                                             *)

Says(s, c, do) == Talking(s) /\ s.do = do /\ s.conn = c /\ s.try = "guard"

LEMMA Said ==
  ASSUME NEW c, NEW d
  PROVE  Says(Say(c, d), c, "send")
  BY DEF Says, Step, Say, Talking, WellFormed

LEMMA Heard ==
  ASSUME NEW c, NEW then, NEW next, next # "trailers" \/ then \notin {"http", "status"}
  PROVE  /\ Says(Line(c, then, next), c, "receive")
         /\ Line(c, then, next).then = then /\ Line(c, then, next).next = next
  BY DEF Says, Step, Line, Talking, WellFormed

LEMMA Counted ==
  ASSUME NEW c, NEW n, NEW then
  PROVE  Says(Bytes(c, n, then), c, "receive") /\ Bytes(c, n, then).then = then
  BY DEF Says, Step, Bytes, Talking, WellFormed

LEMMA Checked ==
  ASSUME NEW c, NEW ok, NEW next
  PROVE  Says(Check(c, ok, next), c, "receive") /\ Check(c, ok, next).then = "reply"
  BY DEF Says, Step, Line, Check, Talking, WellFormed

LEMMA Shut ==
  ASSUME NEW c
  PROVE  Says(Close(c), c, "close") /\ Says(IfPreliminary(c), c, "preliminary")
  BY DEF Says, Step, Close, IfPreliminary, Talking, WellFormed

LEMMA OpeningSteps ==
  ASSUME NEW c
  PROVE  /\ LET s == Create(c) IN WellFormed(s) /\ s.do = "create" /\ s.conn = c /\ s.try = "guard"
         /\ LET s == SetTimeout(c) IN WellFormed(s) /\ s.do = "settimeout" /\ s.conn = c /\ s.try = "guard"
         /\ LET s == ConnectTo(c) IN WellFormed(s) /\ s.do = "connect" /\ s.conn = c /\ s.try = "guard"
         /\ LET s == Wrap(c) IN WellFormed(s) /\ s.do = "wrap" /\ s.conn = c /\ s.try = "guard"
         /\ LET s == Plain(Create(c)) IN WellFormed(s) /\ s.do = "create" /\ s.conn = c /\ s.try = "plain"
         /\ LET s == Plain(ConnectTo(c)) IN WellFormed(s) /\ s.do = "connect" /\ s.conn = c /\ s.try = "plain"
         /\ LET s == Plain(Step("handshake", c))
            IN WellFormed(s) /\ s.do = "handshake" /\ s.conn = c /\ s.try = "plain"
  BY DEF Step, Create, SetTimeout, ConnectTo, Wrap, Plain, WellFormed

LEMMA Single ==
  ASSUME NEW s, Talking(s)
  PROVE  Talk(<<s>>) /\ Len(<<s>>) = 1 /\ <<s>>[1] = s
  <1>1. <<s>> \in Seq({s})
    OBVIOUS
  <1>2. IsList(<<s>>)
    BY <1>1 DEF IsList
  <1>3. QED
    BY <1>2 DEF Talk

LEMMA StatusLine ==
  ASSUME NEW c, NEW again, again # "trailers"
  PROVE  LET s == statusline(c, again)
         IN  /\ Talking(s) /\ s.do = "receive" /\ s.conn = c /\ s.try = "guard"
             /\ s.then = "http" /\ s.next = again
  BY DEF statusline, Step, Bytes, Talking, WellFormed

Ends(t, c) == \E i \in 1..Len(t) : WillClose(t[i], c)

\* Lists that open connections of C, and have no more to do with a response.
Opens(a, C) ==
    /\ Formed(a) /\ PlainFirst(a) /\ Prepared(a) /\ Fresh(a) /\ NoHeadLine(a)
    /\ \A i \in 1..Len(a) : a[i].do = "connect" => a[i].conn \in C

LEMMA EndsJoined ==
  ASSUME NEW a, NEW t, NEW c, IsList(a), IsList(t), Ends(t, c)
  PROVE  Ends(a \o t, c)
  <1>1. PICK i \in 1..Len(t) : WillClose(t[i], c)
    BY DEF Ends
  <1>2. /\ Len(a) \in Nat /\ Len(t) \in Nat /\ Len(a \o t) = Len(a) + Len(t)
        /\ (a \o t)[Len(a) + i] = t[i]
    BY JoinFacts, ListFacts
  <1>3. Len(a) + i \in 1..Len(a \o t)
    BY <1>2
  <1>4. QED
    BY <1>1, <1>2, <1>3 DEF Ends

LEMMA EndsBefore ==
  ASSUME NEW a, NEW t, NEW c, IsList(a), IsList(t), Ends(a, c)
  PROVE  Ends(a \o t, c)
  <1>1. PICK i \in 1..Len(a) : WillClose(a[i], c)
    BY DEF Ends
  <1>2. /\ Len(a) \in Nat /\ Len(t) \in Nat /\ Len(a \o t) = Len(a) + Len(t)
        /\ (a \o t)[i] = a[i]
    BY JoinFacts, ListFacts
  <1>3. i \in 1..Len(a \o t)
    BY <1>2
  <1>4. QED
    BY <1>1, <1>2, <1>3 DEF Ends

LEMMA NonePlainJoined ==
  ASSUME NEW a, NEW t, IsList(a), IsList(t), NonePlain(a), NonePlain(t)
  PROVE  NonePlain(a \o t)
  <1> DEFINE s == a \o t
  <1>1. /\ Len(a) \in Nat /\ Len(t) \in Nat /\ Len(s) = Len(a) + Len(t)
        /\ \A i \in 1..Len(a) : s[i] = a[i]
        /\ \A i \in 1..Len(t) : s[Len(a) + i] = t[i]
    BY JoinFacts, ListFacts
  <1> HIDE DEF s
  <1>2. ASSUME NEW i \in 1..Len(a) + Len(t) PROVE s[i].try # "plain"
    <2>1. CASE i \in 1..Len(a)
      BY <2>1, <1>1 DEF NonePlain
    <2>2. CASE i \notin 1..Len(a)
      <3>1. i - Len(a) \in 1..Len(t) /\ Len(a) + (i - Len(a)) = i
        BY <1>1, <2>2
      <3>2. s[Len(a) + (i - Len(a))] = t[i - Len(a)]
        BY <1>1, <3>1
      <3>3. QED
        BY <3>1, <3>2 DEF NonePlain
    <2>3. QED
      BY <2>1, <2>2
  <1>3. QED
    BY <1>1, <1>2 DEF NonePlain, s

\* The talk of a request, from its first words to the line of the status or
\* whatever else closes the connections of C.
TalkOf(t, C) == Talk(t) /\ Plan(t) /\ NonePlain(t) /\ \A c \in C : Ends(t, c)

LEMMA LongerTalk ==
  ASSUME NEW a, NEW t, NEW C, Talk(a), NoHeadLine(a), TalkOf(t, C)
  PROVE  TalkOf(a \o t, C)
  <1>1. Talk(a \o t)
    BY TalksJoin DEF TalkOf
  <1>2. Plan(a \o t)
    BY TalkJoined DEF TalkOf, NoHeadLine
  <1>3. NonePlain(a \o t)
    BY <1>1, TalkFacts
  <1>4. \A c \in C : Ends(a \o t, c)
    BY EndsJoined DEF TalkOf, Talk
  <1>5. QED
    BY <1>1, <1>2, <1>3, <1>4 DEF TalkOf

LEMMA OpenedPlan ==
  ASSUME NEW a, NEW t, NEW C, Opens(a, C), Plan(t), NonePlain(t), \A c \in C : Ends(t, c)
  PROVE  /\ Plan(a \o t) /\ \A c : Ends(t, c) => Ends(a \o t, c)
         /\ NonePlain(a) => NonePlain(a \o t)
  <1>1. IsList(a) /\ IsList(t)
    BY DEF Opens, Plan, Rest, Formed
  <1>2. Plan(a \o t)
    BY Joined DEF Opens, NoHeadLine, Ends
  <1>3. NonePlain(a) => NonePlain(a \o t)
    BY <1>1, NonePlainJoined
  <1>4. QED
    BY <1>1, <1>2, <1>3, EndsJoined

LEMMA TpConnect ==
  ASSUME NEW c
  PROVE  Opens(tp_connect(c), {c}) /\ NonePlain(tp_connect(c))
  <1> DEFINE a == Create(c)
             b == SetTimeout(c)
             d == ConnectTo(c)
  <1>1. /\ WellFormed(a) /\ a.do = "create" /\ a.conn = c /\ a.try = "guard"
        /\ WellFormed(b) /\ b.do = "settimeout" /\ b.conn = c /\ b.try = "guard"
        /\ WellFormed(d) /\ d.do = "connect" /\ d.conn = c /\ d.try = "guard"
    BY OpeningSteps
  <1>2. tp_connect(c) = <<a, b, d>>
    BY DEF tp_connect
  <1> HIDE DEF a, b, d
  <1> DEFINE s == <<a, b, d>>
  <1>3. s \in Seq({a, b, d}) /\ Len(s) = 3 /\ s[1] = a /\ s[2] = b /\ s[3] = d
    OBVIOUS
  <1>4. IsList(s)
    BY <1>3 DEF IsList
  <1> HIDE DEF s
  <1>5. Formed(s) /\ NonePlain(s) /\ PlainFirst(s)
    BY <1>1, <1>3, <1>4 DEF Formed, NonePlain, PlainFirst
  <1>6. Prepared(s) /\ Fresh(s) /\ NoHeadLine(s)
    BY <1>1, <1>3, <1>4 DEF Prepared, Fresh, NoHeadLine, HeadLine
  <1>7. \A i \in 1..Len(s) : s[i].do = "connect" => s[i].conn \in {c}
    BY <1>1, <1>3
  <1>8. QED
    BY <1>2, <1>5, <1>6, <1>7 DEF Opens, s

LEMMA HttpsOpen ==
  ASSUME NEW c
  PROVE  Opens(http_open(c, "https"), {c})
  <1> DEFINE a == Plain(Create(c))
             b == SetTimeout(c)
             d == Plain(ConnectTo(c))
             e == Wrap(c)
             f == Plain(Step("handshake", c))
  <1>1. /\ WellFormed(a) /\ a.do = "create" /\ a.conn = c /\ a.try = "plain"
        /\ WellFormed(b) /\ b.do = "settimeout" /\ b.conn = c /\ b.try = "guard"
        /\ WellFormed(d) /\ d.do = "connect" /\ d.conn = c /\ d.try = "plain"
        /\ WellFormed(e) /\ e.do = "wrap" /\ e.conn = c /\ e.try = "guard"
        /\ WellFormed(f) /\ f.do = "handshake" /\ f.conn = c /\ f.try = "plain"
    BY OpeningSteps
  <1>2. http_open(c, "https") = <<a, b, d, e, b, f>>
    BY DEF http_open
  <1> HIDE DEF a, b, d, e, f
  <1> DEFINE s == <<a, b, d, e, b, f>>
  <1>3. /\ s \in Seq({a, b, d, e, f}) /\ Len(s) = 6
        /\ s[1] = a /\ s[2] = b /\ s[3] = d /\ s[4] = e /\ s[5] = b /\ s[6] = f
    OBVIOUS
  <1>4. IsList(s)
    BY <1>3 DEF IsList
  <1> HIDE DEF s
  <1>5. Formed(s)
    BY <1>1, <1>3, <1>4 DEF Formed
  <1>6. PlainFirst(s)
    <2>1. ASSUME NEW k \in 1..Len(s), NEW j \in 1..(k - 1) PROVE s[j].do \in Openers
      <3>1. j \in {1, 2, 3, 4, 5}
        BY <1>3
      <3>2. QED
        BY <1>1, <1>3, <3>1 DEF Openers
    <2>2. QED
      BY <2>1 DEF PlainFirst
  <1>7. Prepared(s) /\ Fresh(s) /\ NoHeadLine(s)
    BY <1>1, <1>3, <1>4 DEF Prepared, Fresh, NoHeadLine, HeadLine
  <1>8. \A i \in 1..Len(s) : s[i].do = "connect" => s[i].conn \in {c}
    BY <1>1, <1>3
  <1>9. QED
    BY <1>2, <1>5, <1>6, <1>7, <1>8 DEF Opens, s

LEMMA HttpOpen ==
  ASSUME NEW c, NEW scheme
  PROVE  /\ Opens(http_open(c, scheme), {c})
         /\ scheme # "https" => NonePlain(http_open(c, scheme))
  <1>1. CASE scheme = "https"
    BY <1>1, HttpsOpen
  <1>2. CASE scheme # "https"
    <2>1. http_open(c, scheme) = tp_connect(c)
      BY <1>2 DEF http_open, tp_connect
    <2>2. QED
      BY <1>2, <2>1, TpConnect
  <1>3. QED
    BY <1>1, <1>2

\* Pieces of a body, on any connection.
LEMMA Pieces ==
  ASSUME NEW c, NEW n \in Nat, NEW a, NEW d, a = [i \in 1..n |-> Say(c, d[i])]
  PROVE  Talk(a) /\ NoHeadLine(a)
  <1>1. a = [i \in 1..n |-> a[i]]
    OBVIOUS
  <1>2. IsList(a) /\ Len(a) = n
    BY <1>1, Listed
  <1>3. ASSUME NEW i \in 1..n PROVE Talking(a[i]) /\ ~HeadLine(a[i])
    <2>1. a[i] = Say(c, d[i])
      OBVIOUS
    <2>2. QED
      BY <2>1, Said DEF Says, HeadLine
  <1>4. QED
    BY <1>2, <1>3 DEF Talk, NoHeadLine

Bodied(r) ==
    /\ {"kind", "scheme", "method", "source", "chunked", "redirects"} \subseteq DOMAIN r
    /\ Len(r.source) \in Nat

LEMMA BodyTalk ==
  ASSUME NEW c, NEW r, Bodied(r)
  PROVE  Talk(sendbody(c, r)) /\ NoHeadLine(sendbody(c, r))
  <1> DEFINE n == Len(r.source)
             plain == [i \in 1..n |-> Say(c, r.source[i])]
             line == [i \in 1..n |-> <<<<"size", Len(r.source[i])>>, LF>> \o r.source[i] \o <<LF>>]
             sized == [i \in 1..n |-> Say(c, <<<<"size", Len(r.source[i])>>, LF>> \o r.source[i] \o <<LF>>)]
             last == Say(c, <<<<"size", 0>>, LF, LF>>)
  <1>1. n \in Nat
    BY DEF Bodied
  <1>2. Talk(plain) /\ NoHeadLine(plain)
    BY <1>1, Pieces
  <1>3. sized = [i \in 1..n |-> Say(c, line[i])]
    OBVIOUS
  <1>4. Talk(sized) /\ NoHeadLine(sized)
    <2> HIDE DEF sized, line, n
    <2>1. QED
      BY <1>1, <1>3, Pieces
  <1>5. Talk(<<last>>) /\ NoHeadLine(<<last>>)
    <2>1. Says(last, c, "send")
      BY Said, Zenon
    <2> HIDE DEF last
    <2>2. Talking(last) /\ last.do = "send"
      BY <2>1 DEF Says
    <2>3. QED
      BY <2>2, Single DEF NoHeadLine, HeadLine
  <1>6. Talk(sized \o <<last>>) /\ NoHeadLine(sized \o <<last>>)
    <2> HIDE DEF sized, last
    <2>1. Talk(sized \o <<last>>)
      BY <1>4, <1>5, TalksJoin
    <2>2. /\ Len(sized) \in Nat /\ Len(sized \o <<last>>) = Len(sized) + 1
          /\ \A i \in 1..Len(sized) : (sized \o <<last>>)[i] = sized[i]
          /\ (sized \o <<last>>)[Len(sized) + 1] = <<last>>[1]
      BY <1>4, <1>5, JoinFacts, ListFacts, Single DEF Talk
    <2>3. QED
      BY <1>4, <1>5, <2>1, <2>2 DEF NoHeadLine
  <1>7. sendbody(c, r) = IF r.chunked THEN sized \o <<last>> ELSE plain
    BY DEF sendbody
  <1>8. QED
    <2> HIDE DEF plain, sized, last, n
    <2>1. QED
      BY <1>2, <1>6, <1>7

LEMMA RequestPlan ==
  ASSUME NEW c, NEW r, Bodied(r)
  PROVE  /\ Plan(trequest(c, r)) /\ Ends(trequest(c, r), c)
         /\ r.scheme # "https" => NonePlain(trequest(c, r))
  <1> DEFINE o == http_open(c, r.scheme)
             x == Say(c, <<<<r.method>>, LF>>)
             y == Say(c, <<<<"host">>, LF, LF>>)
             h == <<x, y>>
             b == IF r.source # <<>> THEN sendbody(c, r) ELSE <<>>
             l == statusline(c, "first")
             t == h \o (b \o <<l>>)
  <1>1. Talk(h) /\ NoHeadLine(h)
    <2>1. \A d : Talking(Say(c, d)) /\ Say(c, d).do = "send"
      BY Said DEF Says
    <2>2. Talking(x) /\ x.do = "send" /\ Talking(y) /\ y.do = "send"
      BY <2>1, Zenon
    <2> HIDE DEF x, y
    <2>3. h \in Seq({x, y}) /\ Len(h) = 2 /\ h[1] = x /\ h[2] = y
      OBVIOUS
    <2>4. IsList(h)
      BY <2>3 DEF IsList
    <2> HIDE DEF h
    <2>5. QED
      BY <2>2, <2>3, <2>4 DEF Talk, NoHeadLine, HeadLine
  <1>2. Talk(b) /\ NoHeadLine(b)
    <2>1. CASE r.source # <<>>
      BY <2>1, BodyTalk
    <2>2. CASE r.source = <<>>
      <3>1. b = <<>> /\ Len(b) = 0 /\ b \in Seq({})
        BY <2>2
      <3>2. QED
        BY <3>1 DEF Talk, NoHeadLine, IsList
    <2>3. QED
      BY <2>1, <2>2
  <1>3. TalkOf(<<l>>, {c})
    <2>1. /\ Talking(l) /\ l.do = "receive" /\ l.conn = c
          /\ l.then = "http" /\ l.next = "first"
      BY StatusLine
    <2> HIDE DEF l
    <2>2. Talk(<<l>>) /\ Len(<<l>>) = 1 /\ <<l>>[1] = l
      BY <2>1, Single
    <2>3. HeadLast(<<l>>) /\ Ends(<<l>>, c)
      BY <2>1, <2>2 DEF HeadLast, Ends, WillClose, HeadLine
    <2>4. QED
      BY <2>2, <2>3, TalkPlan DEF TalkOf
  <1> HIDE DEF h, b, l
  <1>4. TalkOf(b \o <<l>>, {c})
    BY <1>2, <1>3, LongerTalk
  <1>5. TalkOf(t, {c})
    BY <1>1, <1>4, LongerTalk
  <1>6. Opens(o, {c}) /\ (r.scheme # "https" => NonePlain(o))
    BY HttpOpen
  <1>7. trequest(c, r) = o \o t
    <2>1. IsList(o) /\ IsList(h) /\ IsList(b) /\ IsList(<<l>>) /\ IsList(b \o <<l>>)
      BY <1>1, <1>2, <1>3, <1>4, <1>6 DEF Opens, Formed, Talk, TalkOf
    <2>2. trequest(c, r) = ((o \o h) \o b) \o <<l>>
      BY DEF trequest, h, b, l
    <2> HIDE DEF o
    <2> DEFINE k == <<l>>
    <2> HIDE DEF k
    <2>3. ((o \o h) \o b) \o k = (o \o h) \o (b \o k)
      <3> DEFINE u == o \o h
      <3>1. IsList(u) /\ IsList(k)
        BY <2>1, JoinFacts DEF k
      <3> HIDE DEF u
      <3>2. (u \o b) \o k = u \o (b \o k)
        <4>1. Associates(u, b, k)
          BY <2>1, <3>1, Assoc
        <4>2. QED
          BY <4>1 DEF Associates
      <3>3. QED
        BY <3>2 DEF u
    <2>4. (o \o h) \o (b \o k) = o \o (h \o (b \o k))
      <3> DEFINE v == b \o k
      <3>1. IsList(v)
        BY <2>1 DEF k
      <3> HIDE DEF v
      <3>2. (o \o h) \o v = o \o (h \o v)
        <4>1. Associates(o, h, v)
          BY <2>1, <3>1, Assoc
        <4>2. QED
          BY <4>1 DEF Associates
      <3>3. QED
        BY <3>2 DEF v
    <2>5. QED
      BY <2>2, <2>3, <2>4 DEF k
  <1> HIDE DEF o, t
  <1>8. Plan(t) /\ NonePlain(t) /\ \A d \in {c} : Ends(t, d)
    BY <1>5 DEF TalkOf
  <1>9. /\ Plan(o \o t) /\ \A d : Ends(t, d) => Ends(o \o t, d)
        /\ NonePlain(o) => NonePlain(o \o t)
    BY <1>6, <1>8, OpenedPlan
  <1>10. QED
    BY <1>6, <1>7, <1>8, <1>9

\* The words of a session that open and end nothing.
Chat(s) == Talking(s) /\ s.try = "guard" /\ (s.do \in {"send", "preliminary", "close"} \/ s.then = "reply")

LEMMA Chats ==
  ASSUME NEW c
  PROVE  /\ \A cmd : Chat(command(c, cmd))
         /\ \A ok, next : Chat(Check(c, ok, next))
         /\ \A d : Chat(Say(c, d))
         /\ Chat(IfPreliminary(c))
         /\ Chat(Close(c)) /\ WillClose(Close(c), c)
  <1>1. \A d : Chat(Say(c, d))
    BY Said DEF Says, Chat
  <1>2. \A ok, next : Chat(Check(c, ok, next))
    BY Checked DEF Says, Chat
  <1>3. \A cmd : Chat(command(c, cmd))
    BY <1>1 DEF command
  <1>4. QED
    BY <1>1, <1>2, <1>3, Shut DEF Says, Chat, WillClose

LEMMA ChatTalk ==
  ASSUME NEW a, IsList(a), \A i \in 1..Len(a) : Chat(a[i])
  PROVE  Talk(a) /\ NoHeadLine(a)
  BY DEF Talk, NoHeadLine, Chat, HeadLine

LEMMA SmtpPlan ==
  ASSUME NEW c, NEW r, Bodied(r)
  PROVE  Plan(smtp_send(c, r)) /\ NonePlain(smtp_send(c, r))
  <1> DEFINE o == tp_connect(c)
             x1 == Check(c, {2}, "")
             x2 == command(c, "EHLO")
             x3 == command(c, "MAIL")
             x4 == command(c, "RCPT")
             x5 == command(c, "DATA")
             x6 == Check(c, {3}, "")
             h == <<x1, x2, x1, x3, x1, x4, x1, x5, x6>>
             b == [i \in 1..Len(r.source) |-> Say(c, r.source[i])]
             y1 == Say(c, <<<<".">>, LF>>)
             y2 == command(c, "QUIT")
             y3 == Close(c)
             l == <<y1, x1, y2, x1, y3>>
             t == h \o (b \o l)
  <1>1. /\ Chat(x1) /\ Chat(x2) /\ Chat(x3) /\ Chat(x4) /\ Chat(x5) /\ Chat(x6)
        /\ Chat(y1) /\ Chat(y2) /\ Chat(y3) /\ WillClose(y3, c)
    BY Chats, Zenon
  <1>2. smtp_send(c, r) = ((o \o h) \o b) \o l
    BY DEF smtp_send
  <1>3. Talk(b) /\ NoHeadLine(b)
    BY Pieces DEF Bodied
  <1> HIDE DEF x1, x2, x3, x4, x5, x6, y1, y2, y3, b, o
  <1>4. Talk(h) /\ NoHeadLine(h)
    <2>1. /\ h \in Seq({x1, x2, x3, x4, x5, x6}) /\ Len(h) = 9
          /\ h[1] = x1 /\ h[2] = x2 /\ h[3] = x1 /\ h[4] = x3 /\ h[5] = x1
          /\ h[6] = x4 /\ h[7] = x1 /\ h[8] = x5 /\ h[9] = x6
      OBVIOUS
    <2> HIDE DEF h
    <2>2. IsList(h)
      BY <2>1 DEF IsList
    <2>3. \A i \in 1..Len(h) : Chat(h[i])
      BY <1>1, <2>1
    <2>4. QED
      BY <2>2, <2>3, ChatTalk
  <1>5. TalkOf(l, {c})
    <2>1. /\ l \in Seq({y1, x1, y2, y3}) /\ Len(l) = 5
          /\ l[1] = y1 /\ l[2] = x1 /\ l[3] = y2 /\ l[4] = x1 /\ l[5] = y3
      OBVIOUS
    <2> HIDE DEF l
    <2>2. IsList(l)
      BY <2>1 DEF IsList
    <2>3. \A i \in 1..Len(l) : Chat(l[i])
      BY <1>1, <2>1
    <2>4. Talk(l) /\ NoHeadLine(l)
      BY <2>2, <2>3, ChatTalk
    <2>5. Ends(l, c)
      BY <1>1, <2>1 DEF Ends
    <2>6. QED
      BY <2>4, <2>5, TalkPlan DEF TalkOf, NoHeadLine, HeadLast
  <1> HIDE DEF h, l
  <1>6. TalkOf(b \o l, {c})
    BY <1>3, <1>5, LongerTalk
  <1>7. TalkOf(t, {c})
    BY <1>4, <1>6, LongerTalk
  <1>8. Opens(o, {c}) /\ NonePlain(o)
    BY TpConnect DEF o
  <1>9. smtp_send(c, r) = o \o t
    <2>1. IsList(o) /\ IsList(h) /\ IsList(b) /\ IsList(l) /\ IsList(b \o l)
      BY <1>3, <1>4, <1>5, <1>6, <1>8 DEF Opens, Formed, Talk, TalkOf
    <2>2. ((o \o h) \o b) \o l = (o \o h) \o (b \o l)
      <3> DEFINE u == o \o h
      <3>1. IsList(u)
        BY <2>1, JoinFacts
      <3> HIDE DEF u
      <3>2. (u \o b) \o l = u \o (b \o l)
        <4>1. Associates(u, b, l)
          BY <2>1, <3>1, Assoc
        <4>2. QED
          BY <4>1 DEF Associates
      <3>3. QED
        BY <3>2 DEF u
    <2>3. (o \o h) \o (b \o l) = o \o t
      <3> DEFINE v == b \o l
      <3>1. IsList(v)
        BY <2>1
      <3> HIDE DEF v
      <3>2. (o \o h) \o v = o \o (h \o v)
        <4> HIDE DEF t
        <4>1. Associates(o, h, v)
          BY <2>1, <3>1, Assoc
        <4>2. QED
          BY <4>1 DEF Associates
      <3>3. QED
        BY <3>2 DEF v
    <2>4. QED
      BY <1>2, <2>2, <2>3
  <1> HIDE DEF t
  <1>10. QED
    BY <1>7, <1>8, <1>9, OpenedPlan DEF TalkOf

SixLists(a, b, c, d, e, f) ==
    IsList(a) /\ IsList(b) /\ IsList(c) /\ IsList(d) /\ IsList(e) /\ IsList(f)

Nested(a, b, c, d, e, f) ==
    ((((a \o b) \o c) \o d) \o e) \o f = a \o (b \o (c \o (d \o (e \o f))))

LEMMA Assoc6 ==
  ASSUME NEW a, NEW b, NEW c, NEW d, NEW e, NEW f, SixLists(a, b, c, d, e, f)
  PROVE  Nested(a, b, c, d, e, f)
  <1> DEFINE u == a \o b
             v == u \o c
             w == v \o d
             x == e \o f
             y == d \o x
             z == c \o y
  <1>a. IsList(a)
    BY DEF SixLists
  <1>b. IsList(b)
    BY DEF SixLists
  <1>c. IsList(c)
    BY DEF SixLists
  <1>d. IsList(d)
    BY DEF SixLists
  <1>e. IsList(e)
    BY DEF SixLists
  <1>f. IsList(f)
    BY DEF SixLists
  <1>u. IsList(u)
    BY <1>a, <1>b, JoinFacts
  <1>v. IsList(v)
    <2> HIDE DEF u
    <2>1. QED
      BY <1>u, <1>c, JoinFacts
  <1>w. IsList(w)
    <2> HIDE DEF v
    <2>1. QED
      BY <1>v, <1>d, JoinFacts
  <1>x. IsList(x)
    BY <1>e, <1>f, JoinFacts
  <1>y. IsList(y)
    <2> HIDE DEF x
    <2>1. QED
      BY <1>x, <1>d, JoinFacts
  <1>z. IsList(z)
    <2> HIDE DEF y
    <2>1. QED
      BY <1>y, <1>c, JoinFacts
  <1>3. u = a \o b /\ v = u \o c /\ w = v \o d /\ x = e \o f /\ y = d \o x /\ z = c \o y
    OBVIOUS
  <1> HIDE DEF u, v, w, x, y, z
  <1>4. (w \o e) \o f = w \o (e \o f)
    <2>1. Associates(w, e, f)
      BY <1>w, <1>e, <1>f, Assoc
    <2>2. QED
      BY <2>1 DEF Associates
  <1>5. (v \o d) \o x = v \o (d \o x)
    <2>1. Associates(v, d, x)
      BY <1>v, <1>d, <1>x, Assoc
    <2>2. QED
      BY <2>1 DEF Associates
  <1>6. (u \o c) \o y = u \o (c \o y)
    <2>1. Associates(u, c, y)
      BY <1>u, <1>c, <1>y, Assoc
    <2>2. QED
      BY <2>1 DEF Associates
  <1>7. (a \o b) \o z = a \o (b \o z)
    <2>1. Associates(a, b, z)
      BY <1>a, <1>b, <1>z, Assoc
    <2>2. QED
      BY <2>1 DEF Associates
  <1>8. (w \o e) \o f = a \o (b \o z)
    <2>1. (w \o e) \o f = w \o x
      BY <1>3, <1>4
    <2>2. w \o x = v \o y
      BY <1>3, <1>5
    <2>3. v \o y = u \o z
      BY <1>3, <1>6
    <2>4. QED
      BY <2>1, <2>2, <2>3, <1>3, <1>7
  <1>9. QED
    BY <1>8 DEF u, v, w, x, y, z, Nested

LEMMA TalkOpens ==
  ASSUME NEW a, Talk(a), NoHeadLine(a)
  PROVE  Opens(a, {}) /\ NonePlain(a)
  <1>1. \A i \in 1..Len(a) : a[i].do # "connect"
    BY DEF Talk, Talking
  <1>2. QED
    BY <1>1, TalkFacts DEF Opens

\* What a transfer says and hears opens nothing and reads no response.
LEMMA FtpPlan ==
  ASSUME NEW c, NEW d, NEW cmd, NEW transfer, Talk(transfer), NoHeadLine(transfer)
  PROVE  Plan(ftp(c, d, cmd, transfer)) /\ NonePlain(ftp(c, d, cmd, transfer))
  <1> DEFINE o == tp_connect(c)
             x1 == Check(c, {1, 2}, "")
             x2 == IfPreliminary(c)
             x3 == command(c, "user")
             x4 == Check(c, {2, 331}, "login")
             x5 == command(c, "epsv")
             x6 == Check(c, {229}, "")
             h == <<x1, x2, x3, x4, x5, x6>>
             p == pasvconnect(d)
             x7 == command(c, cmd)
             m == <<x7>>
             y1 == command(c, "quit")
             y2 == Check(c, {2}, "")
             y3 == Close(d)
             y4 == Close(c)
             l == <<y1, y2, y3, y4>>
  <1>1. /\ Chat(x1) /\ Chat(x2) /\ Chat(x3) /\ Chat(x4) /\ Chat(x5) /\ Chat(x6) /\ Chat(x7)
        /\ Chat(y1) /\ Chat(y2) /\ Chat(y3) /\ Chat(y4) /\ WillClose(y3, d) /\ WillClose(y4, c)
    <2>1. Chat(x1) /\ Chat(x2) /\ Chat(x3) /\ Chat(x4)
      BY Chats, Zenon
    <2>2. Chat(x5) /\ Chat(x6) /\ Chat(x7) /\ Chat(y1) /\ Chat(y2)
      BY Chats, Zenon
    <2>3. Chat(y3) /\ Chat(y4) /\ WillClose(y3, d) /\ WillClose(y4, c)
      BY Chats, Zenon
    <2>4. QED
      BY <2>1, <2>2, <2>3
  <1>2. ftp(c, d, cmd, transfer) = ((((o \o h) \o p) \o m) \o transfer) \o l
    BY DEF ftp
  <1>3. Opens(o, {c}) /\ NonePlain(o) /\ Opens(p, {d}) /\ NonePlain(p)
    <2>1. pasvconnect(d) = tp_connect(d)
      BY DEF pasvconnect, tp_connect
    <2>2. QED
      BY <2>1, TpConnect
  <1> HIDE DEF x1, x2, x3, x4, x5, x6, x7, y1, y2, y3, y4, o, p
  <1>4. Talk(h) /\ NoHeadLine(h)
    <2>1. /\ h \in Seq({x1, x2, x3, x4, x5, x6}) /\ Len(h) = 6
          /\ h[1] = x1 /\ h[2] = x2 /\ h[3] = x3 /\ h[4] = x4 /\ h[5] = x5 /\ h[6] = x6
      OBVIOUS
    <2> HIDE DEF h
    <2>2. IsList(h)
      BY <2>1 DEF IsList
    <2>3. \A i \in 1..Len(h) : Chat(h[i])
      BY <1>1, <2>1
    <2>4. QED
      BY <2>2, <2>3, ChatTalk
  <1>5. Talk(m) /\ NoHeadLine(m)
    <2>1. m \in Seq({x7}) /\ Len(m) = 1 /\ m[1] = x7
      OBVIOUS
    <2> HIDE DEF m
    <2>2. IsList(m)
      BY <2>1 DEF IsList
    <2>3. QED
      BY <1>1, <2>1, <2>2, ChatTalk
  <1>6. TalkOf(l, {c, d})
    <2>1. /\ l \in Seq({y1, y2, y3, y4}) /\ Len(l) = 4
          /\ l[1] = y1 /\ l[2] = y2 /\ l[3] = y3 /\ l[4] = y4
      OBVIOUS
    <2> HIDE DEF l
    <2>2. IsList(l)
      BY <2>1 DEF IsList
    <2>3. \A i \in 1..Len(l) : Chat(l[i])
      BY <1>1, <2>1
    <2>4. Talk(l) /\ NoHeadLine(l)
      BY <2>2, <2>3, ChatTalk
    <2>5. Ends(l, c) /\ Ends(l, d)
      BY <1>1, <2>1 DEF Ends
    <2>6. QED
      BY <2>4, <2>5, TalkPlan DEF TalkOf, NoHeadLine, HeadLast
  <1> HIDE DEF h, m, l
  <1> DEFINE t == m \o (transfer \o l)
  <1>7. TalkOf(t, {c, d})
    BY <1>5, <1>6, LongerTalk
  <1>8. ftp(c, d, cmd, transfer) = o \o (h \o (p \o t))
    <2>1. SixLists(o, h, p, m, transfer, l)
      BY <1>3, <1>4, <1>5, <1>6 DEF Opens, Formed, Talk, TalkOf, SixLists
    <2>2. Nested(o, h, p, m, transfer, l)
      BY <2>1, Assoc6
    <2>3. QED
      BY <1>2, <2>2 DEF Nested
  <1> HIDE DEF t
  <1>9. Plan(p \o t) /\ NonePlain(p \o t) /\ Ends(p \o t, c)
    BY <1>3, <1>7, OpenedPlan DEF TalkOf
  <1> DEFINE u == p \o t
  <1> HIDE DEF u
  <1>10. Plan(h \o u) /\ NonePlain(h \o u) /\ Ends(h \o u, c)
    <2>1. Opens(h, {}) /\ NonePlain(h)
      BY <1>4, TalkOpens
    <2>2. QED
      BY <1>9, <2>1, OpenedPlan DEF u
  <1> DEFINE v == h \o u
  <1> HIDE DEF v
  <1>11. Plan(o \o v) /\ NonePlain(o \o v)
    BY <1>3, <1>10, OpenedPlan DEF v
  <1>12. QED
    BY <1>8, <1>11 DEF u, v

LEMMA GetPlan ==
  ASSUME NEW c, NEW d
  PROVE  Plan(ftp_get(c, d)) /\ NonePlain(ftp_get(c, d))
  <1> DEFINE s == Check(c, {1, 2}, "retr")
  <1>1. Chat(s)
    BY Chats
  <1>2. ftp_get(c, d) = ftp(c, d, "retr", <<s>>)
    BY DEF ftp_get
  <1> HIDE DEF s
  <1>3. Talk(<<s>>) /\ NoHeadLine(<<s>>)
    BY <1>1, Single DEF Chat, NoHeadLine, HeadLine
  <1>4. QED
    BY <1>2, <1>3, FtpPlan

LEMMA PutPlan ==
  ASSUME NEW c, NEW d, NEW r, Bodied(r)
  PROVE  Plan(ftp_put(c, d, r)) /\ NonePlain(ftp_put(c, d, r))
  <1> DEFINE s == Check(c, {1, 2}, "")
             b == [i \in 1..Len(r.source) |-> Say(d, r.source[i])]
             x == Close(d)
             y == IfPreliminary(c)
             l == <<x, y>>
             transfer == (<<s>> \o b) \o l
  <1>1. Chat(s) /\ Chat(x) /\ Chat(y)
    BY Chats
  <1>2. ftp_put(c, d, r) = ftp(c, d, "stor", transfer)
    BY DEF ftp_put
  <1>3. Talk(b) /\ NoHeadLine(b)
    BY Pieces DEF Bodied
  <1> HIDE DEF s, b, x, y
  <1>4. Talk(<<s>>) /\ NoHeadLine(<<s>>)
    BY <1>1, Single DEF Chat, NoHeadLine, HeadLine
  <1>5. Talk(l) /\ NoHeadLine(l)
    <2>1. l \in Seq({x, y}) /\ Len(l) = 2 /\ l[1] = x /\ l[2] = y
      OBVIOUS
    <2> HIDE DEF l
    <2>2. IsList(l)
      BY <2>1 DEF IsList
    <2>3. QED
      BY <1>1, <2>1, <2>2, ChatTalk
  <1> HIDE DEF l
  <1>6. Talk(<<s>> \o b) /\ NoHeadLine(<<s>> \o b)
    BY <1>3, <1>4, QuietJoined
  <1>7. Talk(transfer) /\ NoHeadLine(transfer)
    <2> DEFINE u == <<s>> \o b
    <2> HIDE DEF u
    <2>1. Talk(u \o l) /\ NoHeadLine(u \o l)
      BY <1>5, <1>6, QuietJoined DEF u
    <2>2. QED
      BY <2>1 DEF u
  <1> HIDE DEF transfer
  <1>8. QED
    BY <1>2, <1>7, FtpPlan

LEMMA ProgramPlan ==
  ASSUME NEW r, Bodied(r), r.kind \in {"http", "smtp", "get", "put"}
  PROVE  Plan(Program(r)) /\ (r.scheme # "https" => NonePlain(Program(r)))
  <1>1. CASE r.kind = "http"
    BY <1>1, RequestPlan DEF Program
  <1>2. CASE r.kind = "smtp"
    BY <1>2, SmtpPlan DEF Program
  <1>3. CASE r.kind = "get"
    BY <1>3, GetPlan DEF Program
  <1>4. CASE r.kind = "put"
    BY <1>4, PutPlan DEF Program
  <1>5. QED
    BY <1>1, <1>2, <1>3, <1>4

-----------------------------------------------------------------------------
(* The invariant holds initially                                           *)

LEMMA CInvInit == Init => CInv
  <1> SUFFICES ASSUME Init PROVE CInv
    OBVIOUS
  <1>1. PICK s \in Scenarios :
          cl = [todo |-> Program(s.request), result |-> "running", asked |-> s.request,
                request |-> s.request, code |-> 0, headers |-> NoHeaders, sunk |-> <<>>,
                closes |-> {}]
    BY DEF Init
  <1>2. Bodied(s.request) /\ s.request.kind \in {"http", "smtp", "get", "put"}
    BY ClientsAssumption DEF Bodied
  <1>3. /\ cl.todo = Program(s.request) /\ cl.result = "running" /\ cl.request = s.request
        /\ {"todo", "result", "asked", "request", "code", "headers", "sunk", "closes"} \subseteq DOMAIN cl
    BY <1>1
  <1>4. Plan(cl.todo) /\ (cl.request.scheme # "https" => NonePlain(cl.todo))
    BY <1>2, <1>3, ProgramPlan
  <1>5. SockTypes /\ \A c \in Conns : sock[c].fd = "invalid"
    BY DEF Init, SockTypes, NewSock
  <1>6. ClTypes
    BY <1>2, <1>3 DEF ClTypes, Bodied
  <1>7. OpFollows
    BY DEF Init, OpFollows, Idle
  <1>8. Rest(cl.todo) /\ Owned /\ Guarded /\ PlainUnsecured
    BY <1>4, <1>5 DEF Plan, NonePlain, Owned, Guarded, PlainUnsecured
  <1>9. Starting
    <2>1. \A i \in 1..Len(cl.todo) : cl.todo[i].do = "connect" => i >= 3
      BY <1>4 DEF Plan, Fresh
    <2>2. \A i \in 1..Len(cl.todo) : ~(i >= 3 /\ i <= 2)
      OBVIOUS
    <2>3. QED
      BY <2>1, <2>2 DEF Starting
  <1>10. SocketsClosed
    BY <1>3 DEF SocketsClosed
  <1>11. QED
    BY <1>5, <1>6, <1>7, <1>8, <1>9, <1>10 DEF CInv

-----------------------------------------------------------------------------
(* Steps of the operation                                                  *)

LEMMA FirstFacts ==
  ASSUME CInv, cl.result = "running", cl.todo # <<>>
  PROVE  /\ WellFormed(First) /\ First = cl.todo[1] /\ 1 \in 1..Len(cl.todo)
         /\ Len(cl.todo) \in Nat /\ IsList(cl.todo)
         /\ IsList(Tail(cl.todo)) /\ Len(Tail(cl.todo)) = Len(cl.todo) - 1
         /\ \A i \in 1..Len(cl.todo) - 1 : Tail(cl.todo)[i] = cl.todo[i + 1]
  <1>1. Formed(cl.todo)
    BY DEF CInv, Rest
  <1>2. /\ Len(cl.todo) \in Nat /\ Head(cl.todo) = cl.todo[1] /\ Len(cl.todo) >= 1
        /\ IsList(Tail(cl.todo)) /\ Len(Tail(cl.todo)) = Len(cl.todo) - 1
        /\ \A i \in 1..Len(cl.todo) - 1 : Tail(cl.todo)[i] = cl.todo[i + 1]
    BY <1>1, ListFacts DEF Formed
  <1>3. 1 \in 1..Len(cl.todo)
    BY <1>2
  <1>4. QED
    BY <1>1, <1>2, <1>3 DEF Formed, First

OpKept ==
    /\ {"call", "conn", "pc", "pat", "data", "count", "left", "waited", "err"} \subseteq DOMAIN op'
    /\ op'.call = op.call /\ op'.conn = op.conn

SocksKept ==
    /\ SockTypes'
    /\ \A c \in Conns : sock'[c].fd = sock[c].fd /\ sock'[c].tls = sock[c].tls

LEMMA NothingJust ==
  ASSUME op.pc # "done" \/ op.err # "" \/ First.do # "handshake"
  PROVE  \A c : ~Just(c)
  BY DEF Just

\* While an operation goes on, only what it does to the sockets matters.
LEMMA Quiet ==
  ASSUME CInv, op.call # "none", op.pc # "done", OpKept, SocksKept, cl' = cl
  PROVE  CInv'
  <1>1. SockTypes' /\ ClTypes'
    BY DEF CInv, SocksKept, ClTypes
  <1>2. OpFollows'
    BY DEF CInv, OpFollows, OpKept, First, c0
  <1>3. cl.result = "running"
    BY DEF CInv, OpFollows
  <1>4. \A c : ~Just(c)
    BY DEF Just
  <1>5. \A c \in Conns : Unsecured(c) => Unsecured(c)'
    BY <1>4 DEF Unsecured, SocksKept
  <1>6. Owned'
    BY <1>3 DEF CInv, Owned, SocksKept
  <1>7. Guarded'
    BY <1>3, <1>5 DEF CInv, Guarded, SocksKept
  <1>8. PlainUnsecured'
    BY <1>3, <1>5 DEF CInv, PlainUnsecured, SocksKept
  <1>9. Starting'
    BY <1>3 DEF CInv, Starting, SocksKept
  <1>10. Rest(cl.todo)' /\ SocketsClosed'
    BY <1>3 DEF CInv, SocketsClosed
  <1>11. QED
    BY <1>1, <1>2, <1>6, <1>7, <1>8, <1>9, <1>10 DEF CInv

LEMMA FinishedKept ==
  ASSUME CInv, NEW err, op' = Finished(err)
  PROVE  OpKept
  BY DEF CInv, OpFollows, OpKept, Finished

LEMMA WaitingKept ==
  ASSUME CInv, NEW sw, op' = Waiting(sw)
  PROVE  OpKept
  BY DEF CInv, OpFollows, OpKept, Waiting

LEMMA NextAddressKept ==
  ASSUME CInv, NEW err, NextAddress(err)
  PROVE  OpKept
  <1>1. CASE op' = Finished(err)
    BY <1>1, FinishedKept
  <1>2. CASE op' = [op EXCEPT !.left = Tail(@), !.waited = 0, !.pc = "call"]
    BY <1>2 DEF CInv, OpFollows, OpKept
  <1>3. QED
    BY <1>1, <1>2 DEF NextAddress

LEMMA ConnectKept ==
  ASSUME CInv, NEW c, NEW n, socket_connect(c, n)
  PROVE  OpKept
  <1>1. \/ \E err : NextAddress(err)
        \/ \E sw : op' = Waiting(sw)
        \/ op' = Finished("")
    BY DEF socket_connect
  <1>2. QED
    BY <1>1, NextAddressKept, FinishedKept, WaitingKept

\* The socket is new, so it is not secured; and if it is opened under a
\* finalizer, that knows of it.
LEMMA ConnectInv ==
  ASSUME CInv, Connect, cl' = cl
  PROVE  CInv'
  <1> DEFINE family == Head(op.left)
  <1>0. PICK c : c = op.conn
    OBVIOUS
  <1>1. op.call = "connect" /\ op.pc = "call"
    BY DEF Connect, Calling
  <1>2. /\ cl.result = "running" /\ cl.todo # <<>> /\ First.do = "connect" /\ c0 = c
        /\ First = cl.todo[1] /\ 1 \in 1..Len(cl.todo) /\ WellFormed(First)
        /\ Rest(cl.todo) /\ Owned /\ Guarded /\ PlainUnsecured /\ Starting
    BY <1>0, <1>1, FirstFacts DEF CInv, OpFollows
  <1>3. OpKept
    <2>1. \E n : socket_connect(c, n)
      BY <1>0 DEF Connect
    <2>2. QED
      BY <2>1, ConnectKept
  <1>4. sock' = sock \/ sock' = [sock EXCEPT ![c].fd = "open", ![c].family = family]
    BY <1>0 DEF Connect
  <1>5. CASE sock' = sock
    <2>1. SocksKept
      BY <1>5 DEF SocksKept, CInv, SockTypes
    <2>2. QED
      BY <1>1, <1>3, <2>1, Quiet
  <1>6. CASE sock' = [sock EXCEPT ![c].fd = "open", ![c].family = family]
    <2>1. /\ SockTypes'
          /\ \A d \in Conns : d # c => sock'[d] = sock[d]
          /\ \A d \in Conns : sock'[d].tls = sock[d].tls
      BY <1>6 DEF CInv, SockTypes
    <2>2. \A d : ~Just(d)
      BY <1>1 DEF Just
    <2>3. \A d \in Conns : Unsecured(d) => Unsecured(d)'
      BY <2>1, <2>2 DEF Unsecured
    <2>4. c \in Conns => sock[c].tls = "no"
      BY <1>2 DEF Starting, c0
    <2>5. OpFollows' /\ ClTypes'
      BY <1>1, <1>3 DEF CInv, OpFollows, OpKept, First, c0, ClTypes
    <2>6. Owned'
      <3>1. PICK j \in 2..Len(cl.todo) : WillClose(cl.todo[j], c)
        BY <1>2 DEF Rest, Closing, c0
      <3>2. j \in 1..Len(cl.todo)
        BY <1>2, FirstFacts
      <3>3. QED
        BY <1>2, <2>1, <3>1, <3>2 DEF Owned
    <2>7. Guarded'
      <3>1. CASE First.try = "guard"
        <4>1. c \in cl.closes
          BY <1>2, <3>1 DEF Starting, c0
        <4>2. QED
          BY <1>2, <2>1, <2>3, <4>1 DEF Guarded
      <3>2. CASE First.try = "plain"
        <4>1. cl.request.scheme = "https"
          BY <1>2, <3>2 DEF PlainUnsecured
        <4>2. c \in Conns => Unsecured(c)'
          BY <2>1, <2>4 DEF Unsecured
        <4>3. QED
          BY <1>2, <2>1, <2>3, <4>1, <4>2 DEF Guarded
      <3>3. QED
        BY <1>2, <3>1, <3>2 DEF WellFormed
    <2>8. PlainUnsecured'
      <3>1. c \in Conns => Unsecured(c)'
        BY <2>1, <2>4 DEF Unsecured
      <3>2. QED
        BY <1>2, <2>1, <2>3, <3>1 DEF PlainUnsecured
    <2>9. Starting'
      BY <1>2, <2>1 DEF Starting
    <2>10. Rest(cl.todo)' /\ SocketsClosed'
      BY <1>2 DEF SocketsClosed
    <2>11. QED
      BY <2>1, <2>5, <2>6, <2>7, <2>8, <2>9, <2>10 DEF CInv
  <1>7. QED
    BY <1>4, <1>5, <1>6

\* When the handshake ends the socket is secured, and the next step of the
\* client makes it known to the finalizer.
LEMMA HandshakeInv ==
  ASSUME CInv, Handshake, cl' = cl
  PROVE  CInv'
  <1>0. PICK c : c = op.conn
    OBVIOUS
  <1>1. op.call = "handshake" /\ op.pc = "call"
    BY DEF Handshake, Calling
  <1>2. /\ cl.result = "running" /\ cl.todo # <<>> /\ First.do = "handshake" /\ c0 = c
        /\ Rest(cl.todo) /\ Owned /\ Guarded /\ PlainUnsecured /\ Starting
    BY <1>0, <1>1 DEF CInv, OpFollows
  <1>3. CASE sock' = sock /\ (op' = Waiting("WAITFD_R") \/ \E err : op' = Finished(err))
    <2>1. SocksKept
      BY <1>3 DEF SocksKept, CInv, SockTypes
    <2>2. OpKept
      BY <1>3, WaitingKept, FinishedKept
    <2>3. QED
      BY <1>1, <2>1, <2>2, Quiet
  <1>4. CASE sock' = [sock EXCEPT ![c].tls = "connected"] /\ op' = Finished("")
    <2>1. /\ SockTypes'
          /\ \A d \in Conns : d # c => sock'[d] = sock[d]
          /\ \A d \in Conns : sock'[d].fd = sock[d].fd
      BY <1>4 DEF CInv, SockTypes
    <2>2. OpKept /\ op'.pc = "done" /\ op'.err = ""
      <3>1. op' = [op EXCEPT !.pc = "done", !.err = ""]
        BY <1>4 DEF Finished
      <3>2. QED
        BY <3>1 DEF CInv, OpFollows, OpKept
    <2>3. OpFollows' /\ ClTypes'
      BY <1>1, <2>2 DEF CInv, OpFollows, OpKept, First, c0, ClTypes
    <2>4. Just(c)'
      BY <1>2, <2>2 DEF Just, First, c0
    <2>5. \A d \in Conns : Unsecured(d) => Unsecured(d)'
      <3>1. \A d : ~Just(d)
        BY <1>1 DEF Just
      <3>2. QED
        BY <2>1, <2>4, <3>1 DEF Unsecured
    <2>6. Owned'
      BY <1>2, <2>1 DEF Owned
    <2>7. Guarded'
      BY <1>2, <2>1, <2>5 DEF Guarded
    <2>8. PlainUnsecured'
      BY <1>2, <2>1, <2>5 DEF PlainUnsecured
    <2>9. Starting'
      <3>1. ASSUME NEW i \in 1..Len(cl.todo), i <= 2, cl.todo[i].do = "connect", cl.todo[i].conn = c
            PROVE  FALSE
        <4>1. First = cl.todo[1] /\ Len(cl.todo) \in Nat
          BY <1>2, FirstFacts
        <4>2. i = 1 \/ i = 2
          BY <3>1, <4>1
        <4>3. i >= 2 => cl.todo[i - 1].do = "settimeout"
          BY <1>2, <3>1 DEF Rest, Prepared
        <4>4. QED
          BY <1>2, <3>1, <4>1, <4>2, <4>3
      <3>2. \A i \in 1..Len(cl.todo) : i <= 2 /\ cl.todo[i].do = "connect" => cl.todo[i].conn # c
        BY <3>1
      <3>3. QED
        BY <1>2, <2>1, <3>2 DEF Starting
    <2>10. Rest(cl.todo)' /\ SocketsClosed'
      BY <1>2 DEF SocketsClosed
    <2>11. QED
      BY <2>1, <2>3, <2>6, <2>7, <2>8, <2>9, <2>10 DEF CInv
  <1>5. QED
    BY <1>0, <1>3, <1>4 DEF Handshake

LEMMA SameSocks ==
  ASSUME CInv, sock' = sock
  PROVE  SocksKept
  BY DEF CInv, SocksKept, SockTypes

LEMMA ConsumeKept ==
  ASSUME CInv, NEW c, NEW data, Consume(c, data)
  PROVE  OpKept /\ SocksKept
  <1>1. OpKept
    <2> DEFINE t == Taken(data)
               more == [op EXCEPT !.data = @ \o t.add]
    <2>1. op' = [more EXCEPT !.pc = "done"] \/ op' = more
      BY DEF Consume
    <2> HIDE DEF t
    <2>2. QED
      BY <2>1 DEF CInv, OpFollows, OpKept
  <1>2. SocksKept
    <2> DEFINE rest == SubSeq(data, Taken(data).skip + 1, Len(data))
    <2>1. sock' = [sock EXCEPT ![c].buf = rest]
      BY DEF Consume
    <2> HIDE DEF rest
    <2>2. QED
      BY <2>1 DEF CInv, SocksKept, SockTypes
  <1>3. QED
    BY <1>1, <1>2

LEMMA ReceiveKept ==
  ASSUME CInv, Receive
  PROVE  OpKept /\ SocksKept
  <1> DEFINE Quietly == sock' = sock /\ ((\E sw : op' = Waiting(sw)) \/ \E err : op' = Finished(err))
  <1>1. ASSUME NEW err, ReceiveFails(err) PROVE Quietly
    BY <1>1 DEF ReceiveFails
  <1>2. ASSUME NEW c, WaitForData(c) PROVE Quietly
    BY <1>2 DEF WaitForData
  <1>3. ASSUME NEW c, TakeKernel(c) PROVE \E data : Consume(c, data)
    BY <1>3 DEF TakeKernel
  <1>4. ASSUME NEW c, socket_recv(c) \/ ssl_recv(c)
        PROVE  Quietly \/ \E data : Consume(c, data)
    <2>1. \/ (\E err : ReceiveFails(err)) \/ WaitForData(c) \/ TakeKernel(c)
          \/ op' = Waiting("WAITFD_W") /\ sock' = sock
      BY <1>4 DEF socket_recv, ssl_recv
    <2>2. op' = Waiting("WAITFD_W") /\ sock' = sock => Quietly
      OBVIOUS
    <2> HIDE DEF Quietly
    <2>3. QED
      BY <1>1, <1>2, <1>3, <2>1, <2>2
  <1>5. Quietly \/ \E c, data : Consume(c, data)
    <2>1. (\E c, data : Consume(c, data)) \/ \E c : socket_recv(c) \/ ssl_recv(c)
      BY DEF Receive
    <2> HIDE DEF Quietly
    <2>2. QED
      BY <1>4, <2>1
  <1>6. QED
    BY <1>5, ConsumeKept, SameSocks, WaitingKept, FinishedKept

LEMMA SendKept ==
  ASSUME CInv, Send
  PROVE  OpKept /\ SocksKept
  <1> DEFINE Quietly == (\E sw : op' = Waiting(sw)) \/ (\E err : op' = Finished(err)) \/ \E n : op' = [op EXCEPT !.count = n]
  <1>1. ASSUME NEW c, sendraw(c) PROVE Quietly
    <2>1. op' = [op EXCEPT !.count = op.count + Least(Least(STEPSIZE, Len(op.data) - op.count), net[c].room)]
      BY <1>1 DEF sendraw
    <2>2. QED
      BY <2>1, Zenon
  <1>2. ASSUME NEW c, socket_send(c) \/ ssl_send(c) PROVE Quietly
    <2>1. (\E err : SendFails(err)) \/ sendraw(c) \/ WaitForRoom(c) \/ op' = Waiting("WAITFD_R")
      BY <1>2 DEF socket_send, ssl_send
    <2>2. (\E err : SendFails(err)) \/ WaitForRoom(c) \/ op' = Waiting("WAITFD_R") => Quietly
      BY DEF SendFails, WaitForRoom
    <2> HIDE DEF Quietly
    <2>3. QED
      BY <1>1, <2>1, <2>2
  <1>3. Quietly /\ sock' = sock
    <2>1. op' = Finished("") \/ \E c : socket_send(c) \/ ssl_send(c)
      BY DEF Send
    <2>2. op' = Finished("") => Quietly
      OBVIOUS
    <2>3. sock' = sock
      BY DEF Send
    <2> HIDE DEF Quietly
    <2>4. QED
      BY <1>2, <2>1, <2>2, <2>3
  <1>4. OpKept
    <2>1. ASSUME NEW n, op' = [op EXCEPT !.count = n] PROVE OpKept
      BY <2>1 DEF CInv, OpFollows, OpKept
    <2>2. QED
      BY <1>3, <2>1, WaitingKept, FinishedKept
  <1>5. QED
    BY <1>3, <1>4, SameSocks

LEMMA WaitKept ==
  ASSUME CInv, Poll \/ Tick \/ TimeOut
  PROVE  OpKept /\ SocksKept
  <1>1. sock' = sock
    BY DEF Poll, Tick, TimeOut
  <1>2. \/ \E err : NextAddress(err) \/ op' = Finished(err)
        \/ op' = [op EXCEPT !.pc = "call"]
        \/ op' = [op EXCEPT !.waited = op.waited + 1]
    BY DEF Poll, Tick, TimeOut
  <1>3. CASE op' = [op EXCEPT !.pc = "call"] \/ op' = [op EXCEPT !.waited = op.waited + 1]
    <2>1. OpKept
      BY <1>3 DEF CInv, OpFollows, OpKept
    <2>2. QED
      BY <1>1, <2>1, SameSocks
  <1>4. QED
    BY <1>1, <1>2, <1>3, SameSocks, NextAddressKept, FinishedKept

LEMMA OperationInv ==
  ASSUME CInv, Io \/ Clock, cl' = cl
  PROVE  CInv'
  <1>1. CASE Connect
    BY <1>1, ConnectInv
  <1>2. CASE Handshake
    BY <1>2, HandshakeInv
  <1>3. CASE Receive
    <2>1. op.call # "none" /\ op.pc # "done"
      BY <1>3 DEF Receive, Calling
    <2>2. QED
      BY <1>3, <2>1, ReceiveKept, Quiet
  <1>4. CASE Send
    <2>1. op.call # "none" /\ op.pc # "done"
      BY <1>4 DEF Send, Calling
    <2>2. QED
      BY <1>4, <2>1, SendKept, Quiet
  <1>5. CASE Poll \/ Tick \/ TimeOut
    <2>1. op.pc \in {"WAITFD_R", "WAITFD_W", "WAITFD_C"}
      BY <1>5 DEF Poll, Tick, TimeOut, WAITFDS
    <2>2. op.call # "none" /\ op.pc # "done"
      BY <2>1 DEF CInv, OpFollows
    <2>3. QED
      BY <1>5, <2>2, WaitKept, Quiet
  <1>6. QED
    BY <1>1, <1>2, <1>3, <1>4, <1>5 DEF Io, Clock

LEMMA ResolveInv ==
  ASSUME CInv, Resolve, cl' = cl
  PROVE  CInv'
  <1>1. op.call # "none" /\ op.pc # "done"
    BY DEF Resolve, CInv, OpFollows
  <1>2. SocksKept
    BY SameSocks DEF Resolve
  <1>3. CASE \E err : op' = Finished(err)
    BY <1>1, <1>2, <1>3, FinishedKept, Quiet
  <1>4. CASE \E addresses : op' = [op EXCEPT !.pc = "call", !.left = addresses]
    <2>1. OpKept
      BY <1>4 DEF CInv, OpFollows, OpKept
    <2>2. QED
      BY <1>1, <1>2, <2>1, Quiet
  <1>5. QED
    BY <1>3, <1>4 DEF Resolve

LEMMA StutterInv ==
  ASSUME CInv, UNCHANGED <<sock, op, cl>>
  PROVE  CInv'
  <1>1. sock' = sock /\ op' = op /\ cl' = cl
    OBVIOUS
  <1>2. \A c : Unsecured(c)' <=> Unsecured(c)
    BY <1>1 DEF Unsecured, Just, First, c0
  <1>3. SockTypes' /\ ClTypes' /\ OpFollows'
    BY <1>1 DEF CInv, SockTypes, ClTypes, OpFollows, First, c0
  <1>4. cl.result = "running" => Rest(cl.todo)' /\ Owned' /\ Starting'
    BY <1>1 DEF CInv, Owned, Starting
  <1>5. cl.result = "running" => Guarded' /\ PlainUnsecured'
    BY <1>1, <1>2 DEF CInv, Guarded, PlainUnsecured
  <1>6. SocketsClosed'
    BY <1>1 DEF CInv, SocketsClosed
  <1>7. QED
    BY <1>1, <1>3, <1>4, <1>5, <1>6 DEF CInv

-----------------------------------------------------------------------------
(* Steps of the client                                                     *)

\* A client ends: whatever it leaves open was not to be closed yet.
LEMMA ThrowInv ==
  ASSUME CInv, cl.result = "running", Throw, op.err # "" \/ First.do # "handshake"
  PROVE  CInv'
  <1>1. \A c : ~Just(c)
    BY NothingJust
  <1>2. /\ cl'.result = "error" /\ op' = Idle /\ cl'.request = cl.request
        /\ ClTypes'
    BY DEF Throw, CInv, ClTypes
  <1>3. /\ SockTypes'
        /\ \A c \in Conns : sock'[c].tls = sock[c].tls
        /\ \A c \in Conns : sock'[c].fd = "open" => c \notin cl.closes /\ sock[c].fd = "open"
    BY DEF Throw, CInv, SockTypes, destroyed
  <1>4. SocketsClosed'
    BY <1>1, <1>2, <1>3 DEF CInv, SocketsClosed, Guarded, Unsecured
  <1>5. QED
    BY <1>2, <1>3, <1>4 DEF CInv, OpFollows, Idle

LEMMA FailInv ==
  ASSUME CInv, Fail
  PROVE  CInv'
  <1>1. /\ cl.result = "running" /\ cl.todo # <<>> /\ op.pc = "done" /\ op.err # ""
        /\ First = cl.todo[1] /\ 1 \in 1..Len(cl.todo)
        /\ SockTypes /\ ClTypes /\ Guarded /\ PlainUnsecured
    BY FirstFacts DEF Fail, Over, Running, CInv
  <1>2. CASE Throw
    BY <1>1, <1>2, ThrowInv
  <1>3. CASE /\ cl' = [cl EXCEPT !.result = IF First.try = "raise" THEN "raised" ELSE "error"]
             /\ First.try \in {"plain", "raise"} /\ op' = Idle /\ UNCHANGED <<sock, net, permitted>>
    <2>1. /\ cl'.result = IF First.try = "raise" THEN "raised" ELSE "error"
          /\ cl'.request = cl.request /\ ClTypes'
      BY <1>1, <1>3 DEF ClTypes
    <2>2. SocketsClosed'
      <3>1. CASE First.try = "raise"
        BY <2>1, <3>1 DEF SocketsClosed
      <3>2. CASE First.try = "plain"
        <4>1. \A c : ~Just(c)
          BY <1>1, NothingJust
        <4>2. \A j \in 1..(1 - 1) : FALSE
          OBVIOUS
        <4>3. cl.request.scheme = "https" /\ \A c \in Conns : sock[c].fd = "open" => sock[c].tls # "connected"
          BY <1>1, <3>2, <4>1, <4>2 DEF PlainUnsecured, Unsecured
        <4>4. QED
          BY <1>3, <2>1, <4>3 DEF SocketsClosed
      <3>3. QED
        BY <1>3, <3>1, <3>2
    <2>3. SockTypes'
      BY <1>1, <1>3 DEF SockTypes
    <2>4. cl'.result # "running"
      BY <2>1
    <2>5. OpFollows'
      BY <1>3 DEF OpFollows, Idle
    <2>6. QED
      BY <2>1, <2>2, <2>3, <2>4, <2>5 DEF CInv
  <1>4. QED
    BY <1>2, <1>3 DEF Fail

LEMMA ReturnInv ==
  ASSUME CInv, Return
  PROVE  CInv'
  <1>1. /\ cl.result = "running" /\ cl.todo = <<>> /\ UNCHANGED <<sock, op>>
        /\ cl'.result = "ok" /\ cl'.request = cl.request /\ cl'.todo = cl.todo /\ ClTypes'
    BY DEF Return, CInv, ClTypes
  <1>2. op.call = "none" /\ SockTypes' /\ OpFollows'
    BY <1>1 DEF CInv, OpFollows, SockTypes
  <1>3. \A c \in Conns : sock[c].fd # "open"
    <2>1. Len(cl.todo) = 0
      BY <1>1
    <2>2. \A i \in 1..Len(cl.todo) : FALSE
      BY <2>1
    <2>3. QED
      BY <1>1, <2>2 DEF CInv, Owned
  <1>4. QED
    BY <1>1, <1>2, <1>3 DEF CInv, SocketsClosed

LEMMA FreshStarts ==
  ASSUME Plan(cl'.todo)
  PROVE  Starting'
  <1>1. \A i \in 1..Len(cl'.todo) : cl'.todo[i].do = "connect" => i >= 3
    BY DEF Plan, Fresh
  <1>2. \A i \in 1..Len(cl'.todo) : ~(i >= 3 /\ i <= 2)
    OBVIOUS
  <1>3. QED
    BY <1>1, <1>2 DEF Starting

\* What follows a step whose end was looked at, and the rest of the client.
Follows(steps) ==
    /\ Talk(steps)
    /\ \A i \in 1..Len(steps) : HeadLine(steps[i]) => i = Len(steps) /\ HeadLine(First)
    /\ HeadLine(First) \/ First.try = "closed" => Ends(steps, c0)

KeepsClient(new) ==
    /\ {"todo", "result", "asked", "request", "code", "headers", "sunk", "closes"} \subseteq DOMAIN new
    /\ new.result = cl.result /\ new.request = cl.request /\ new.closes = cl.closes

LEMMA ReplaceInv ==
  ASSUME CInv, Running, First.do \in {"receive", "preliminary"},
         NEW steps, NEW new, Follows(steps), KeepsClient(new),
         cl' = [new EXCEPT !.todo = steps \o Tail(cl.todo)],
         op' = Idle \/ (op' = op /\ op.call = "none"), sock' = sock
  PROVE  CInv'
  <1> DEFINE t == Tail(cl.todo)
  <1>1. /\ cl.result = "running" /\ cl.todo # <<>>
        /\ WellFormed(First) /\ First = cl.todo[1] /\ 1 \in 1..Len(cl.todo)
        /\ Len(cl.todo) \in Nat
        /\ IsList(t) /\ Len(t) = Len(cl.todo) - 1
        /\ \A i \in 1..Len(cl.todo) - 1 : t[i] = cl.todo[i + 1]
        /\ Rest(cl.todo) /\ Owned /\ Guarded
    BY FirstFacts DEF Running, CInv
  <1>2. /\ cl'.todo = steps \o t /\ cl'.result = "running" /\ cl'.request = cl.request
        /\ cl'.closes = cl.closes /\ ClTypes'
    BY <1>1 DEF KeepsClient, CInv, ClTypes
  <1>3. Plan(t) /\ NonePlain(t)
    BY <1>1, RestOfTail DEF Plan, Openers, First
  <1>4. HeadLine(First) => t = <<>>
    <2>1. ASSUME HeadLine(First) PROVE t = <<>>
      <3>1. 1 = Len(cl.todo)
        BY <1>1, <2>1 DEF Rest, HeadLast
      <3>2. Len(t) = 0
        BY <1>1, <3>1
      <3>3. QED
        BY <1>1, <3>2, ListFacts
    <2>2. QED
      BY <2>1
  <1>5. IsList(steps) /\ Len(steps) \in Nat
    BY ListFacts DEF Follows, Talk
  <1> HIDE DEF t
  <1>6. Plan(steps \o t) /\ NonePlain(steps \o t)
    <2>1. Plan(steps \o t)
      BY <1>3, <1>4, TalkJoined DEF Follows
    <2>2. Formed(steps) /\ NonePlain(steps)
      BY TalkFacts DEF Follows
    <2>3. NonePlain(steps \o t)
      BY <1>1, <1>3, <1>5, <2>2, NonePlainJoined
    <2>4. QED
      BY <2>1, <2>3
  <1>7. SockTypes' /\ OpFollows' /\ SocketsClosed'
    <2>1. SockTypes' /\ SocketsClosed'
      BY <1>2 DEF CInv, SockTypes, SocketsClosed
    <2>2. CASE op' = Idle
      BY <2>1, <2>2 DEF OpFollows, Idle
    <2>3. CASE op' = op /\ op.call = "none"
      BY <2>1, <2>3 DEF CInv, OpFollows
    <2>4. QED
      BY <2>2, <2>3
  <1>8. \A c : ~Just(c)
    BY NothingJust
  <1>9. Owned'
    <2> SUFFICES ASSUME NEW c \in Conns, sock[c].fd = "open"
                 PROVE  Ends(steps \o t, c)
      BY <1>2 DEF Owned, Ends
    <2>1. PICK i \in 1..Len(cl.todo) : WillClose(cl.todo[i], c)
      BY <1>1 DEF Owned
    <2>2. CASE i = 1
      <3>1. (HeadLine(First) \/ First.try = "closed") /\ c = c0
        BY <1>1, <2>1, <2>2 DEF WillClose, c0
      <3>2. Ends(steps, c)
        BY <3>1 DEF Follows
      <3>3. QED
        BY <1>1, <1>5, <3>2, EndsBefore
    <2>3. CASE i # 1
      <3>1. i - 1 \in 1..Len(t) /\ (i - 1) + 1 = i
        BY <1>1, <2>3
      <3>2. t[i - 1] = cl.todo[i]
        BY <1>1, <3>1
      <3>3. Ends(t, c)
        BY <2>1, <3>1, <3>2 DEF Ends
      <3>4. QED
        BY <1>1, <1>5, <3>3, EndsJoined
    <2>4. QED
      BY <2>2, <2>3
  <1>10. Guarded'
    BY <1>1, <1>2, <1>8 DEF Guarded, Unsecured
  <1>11. PlainUnsecured'
    BY <1>2, <1>6 DEF PlainUnsecured, NonePlain
  <1>12. Starting'
    BY <1>2, <1>6, FreshStarts
  <1>13. Rest(cl.todo)'
    BY <1>2, <1>6 DEF Plan
  <1>14. QED
    BY <1>2, <1>7, <1>9, <1>10, <1>11, <1>12, <1>13 DEF CInv

LEMMA ProceedInv ==
  ASSUME CInv, Running, First.do = "receive",
         NEW steps, NEW new, Follows(steps), KeepsClient(new), Proceed(steps, new)
  PROVE  CInv'
  BY ReplaceInv DEF Proceed

\* A step is done. What it closed is closed, and what is open now was open.
LEMMA TailInv ==
  ASSUME CInv, Running,
         cl'.todo = Tail(cl.todo), cl'.result = "running", cl'.request = cl.request,
         SockTypes', ClTypes', OpFollows', Starting',
         \A d \in Conns : sock'[d].fd = "open" => sock[d].fd = "open" /\ ~WillClose(First, d),
         \A d \in Conns : sock'[d].fd = "open" /\ d \notin cl'.closes =>
             d \notin cl.closes /\ (Unsecured(d) => sock'[d].tls # "connected"),
         \/ NonePlain(Tail(cl.todo))
         \/ \A d \in Conns : sock'[d].fd = "open" => (Unsecured(d) => sock'[d].tls # "connected")
  PROVE  CInv'
  <1> DEFINE t == Tail(cl.todo)
  <1>1. /\ cl.result = "running" /\ cl.todo # <<>>
        /\ First = cl.todo[1] /\ Len(cl.todo) \in Nat
        /\ Len(t) = Len(cl.todo) - 1
        /\ \A i \in 1..Len(cl.todo) - 1 : t[i] = cl.todo[i + 1]
        /\ Rest(cl.todo) /\ Owned /\ Guarded /\ PlainUnsecured
    BY FirstFacts DEF Running, CInv
  <1>2. Rest(cl.todo)'
    BY <1>1, RestOfTail
  <1> HIDE DEF t
  <1>3. cl'.todo = t
    BY DEF t
  <1>4. Owned'
    <2> SUFFICES ASSUME NEW c \in Conns, sock'[c].fd = "open"
                 PROVE  \E i \in 1..Len(t) : WillClose(t[i], c)
      BY <1>3 DEF Owned
    <2>1. PICK i \in 1..Len(cl.todo) : WillClose(cl.todo[i], c)
      BY <1>1 DEF Owned
    <2>2. i # 1
      BY <1>1, <2>1
    <2>3. i - 1 \in 1..Len(t) /\ i - 1 \in 1..Len(cl.todo) - 1 /\ (i - 1) + 1 = i
      BY <1>1, <2>2
    <2>4. t[i - 1] = cl.todo[i]
      BY <1>1, <2>3
    <2>5. QED
      BY <2>1, <2>3, <2>4
  <1>5. Guarded'
    <2>1. \A d \in Conns : sock'[d].fd = "open" /\ d \notin cl'.closes =>
              cl.request.scheme = "https" /\ sock'[d].tls # "connected"
      BY <1>1 DEF Guarded
    <2>2. QED
      BY <2>1 DEF Guarded, Unsecured
  <1>6. PlainUnsecured'
    <2>1. CASE NonePlain(t)
      <3>1. \A k \in 1..Len(cl'.todo) : cl'.todo[k].try # "plain"
        BY <1>3, <2>1 DEF NonePlain
      <3>2. QED
        BY <3>1 DEF PlainUnsecured
    <2>2. CASE \A d \in Conns : sock'[d].fd = "open" => (Unsecured(d) => sock'[d].tls # "connected")
      <3> SUFFICES ASSUME NEW k \in 1..Len(cl'.todo), cl'.todo[k].try = "plain"
                   PROVE  /\ cl'.request.scheme = "https"
                          /\ \A d \in Conns : sock'[d].fd = "open" =>
                                \/ Unsecured(d)'
                                \/ \E j \in 1..(k - 1) : cl'.todo[j].do = "close" /\ cl'.todo[j].conn = d
        BY Zenon DEF PlainUnsecured
      <3>a. k \in 1..Len(t) /\ t[k].try = "plain" /\ cl'.request = cl.request
        BY <1>3
      <3>1. k + 1 \in 1..Len(cl.todo) /\ cl.todo[k + 1].try = "plain"
        BY <1>1, <3>a
      <3>2. cl.request.scheme = "https"
        BY <1>1, <3>1 DEF PlainUnsecured
      <3>3. ASSUME NEW d \in Conns, sock'[d].fd = "open", sock'[d].tls = "connected"
            PROVE  \E j \in 1..(k - 1) : t[j].do = "close" /\ t[j].conn = d
        <4>1. ~Unsecured(d) /\ sock[d].fd = "open" /\ ~WillClose(First, d)
          BY <2>2, <3>3
        <4>2. PICK j \in 1..((k + 1) - 1) : cl.todo[j].do = "close" /\ cl.todo[j].conn = d
          BY <1>1, <3>1, <4>1 DEF PlainUnsecured
        <4>3. j # 1
          BY <1>1, <4>1, <4>2 DEF WillClose
        <4>4. j - 1 \in 1..(k - 1) /\ j - 1 \in 1..Len(cl.todo) - 1 /\ (j - 1) + 1 = j
          <5>1. Len(cl.todo) \in Nat /\ Len(t) = Len(cl.todo) - 1 /\ k \in 1..Len(t)
            BY <1>1, <3>a
          <5>2. QED
            BY <5>1, <4>2, <4>3
        <4>5. t[j - 1] = cl.todo[j]
          BY <1>1, <4>4
        <4>6. QED
          BY <4>2, <4>4, <4>5
      <3>4. QED
        BY <3>a, <3>2, <3>3, <1>3 DEF Unsecured
    <2>3. QED
      BY <2>1, <2>2 DEF t
  <1>7. SocketsClosed'
    BY DEF SocketsClosed
  <1>8. QED
    BY <1>2, <1>4, <1>5, <1>6, <1>7 DEF CInv

LEMMA FreshTail ==
  ASSUME CInv, Running, First.do \notin {"create", "settimeout"}
  PROVE  /\ Plan(Tail(cl.todo))
         /\ First.do \notin Openers => NonePlain(Tail(cl.todo))
  <1>1. Rest(cl.todo) /\ cl.todo # <<>>
    BY DEF CInv, Running
  <1>2. QED
    BY <1>1, RestOfTail DEF Plan, First

LEMMA DoneInv ==
  ASSUME CInv, Done
  PROVE  CInv'
  <1>1. /\ Running /\ cl.result = "running" /\ cl.todo # <<>> /\ op.pc = "done"
        /\ First.do \in {"connect", "handshake", "send"} /\ WellFormed(First)
        /\ IsList(Tail(cl.todo)) /\ ClTypes /\ SockTypes
    BY FirstFacts DEF Done, Over, Running, CInv, OpFollows
  <1> DEFINE new == [cl EXCEPT !.closes = IF First.do = "handshake" THEN @ \cup {c0} ELSE @]
             t == Tail(cl.todo)
  <1>2. cl' = [new EXCEPT !.todo = <<>> \o t] /\ op' = Idle /\ sock' = sock
    BY DEF Done, Proceed
  <1>3. <<>> \o t = t
    <2>1. PICK S : t \in Seq(S)
      BY <1>1 DEF IsList
    <2> HIDE DEF t
    <2>2. QED
      BY <2>1
  <1> HIDE DEF t
  <1>4. /\ cl'.todo = t /\ cl'.result = "running" /\ cl'.request = cl.request /\ ClTypes'
        /\ cl'.closes = IF First.do = "handshake" THEN cl.closes \cup {c0} ELSE cl.closes
    BY <1>1, <1>2, <1>3 DEF ClTypes
  <1>5. SockTypes' /\ OpFollows'
    BY <1>1, <1>2 DEF SockTypes, OpFollows, Idle
  <1>6. Starting'
    BY <1>1, <1>4, FreshTail, FreshStarts DEF t
  <1>7. \A d \in Conns : sock'[d].fd = "open" => sock[d].fd = "open" /\ ~WillClose(First, d)
    BY <1>1, <1>2 DEF WillClose, WellFormed, HeadLine
  <1>8. \A d : Just(d) => First.do = "handshake" /\ d = c0
    BY DEF Just
  <1>9. \A d \in Conns : sock'[d].fd = "open" /\ d \notin cl'.closes =>
            d \notin cl.closes /\ (Unsecured(d) => sock'[d].tls # "connected")
    BY <1>2, <1>4, <1>8 DEF Unsecured
  <1>10. \/ NonePlain(t)
         \/ \A d \in Conns : sock'[d].fd = "open" => (Unsecured(d) => sock'[d].tls # "connected")
    <2>1. CASE First.do = "connect"
      BY <1>2, <1>8, <2>1 DEF Unsecured
    <2>2. CASE First.do \in {"handshake", "send"}
      BY <1>1, <2>2, FreshTail DEF Openers, t
    <2>3. QED
      BY <1>1, <2>1, <2>2
  <1>11. QED
    BY <1>1, <1>4, <1>5, <1>6, <1>7, <1>9, <1>10, TailInv DEF t

LEMMA ClosedInv ==
  ASSUME CInv, Closed
  PROVE  CInv'
  <1>1. /\ Running /\ cl.result = "running" /\ cl.todo # <<>> /\ op.err # ""
        /\ First.try = "closed" /\ First.do = "receive"
        /\ ClTypes /\ SockTypes
    BY FirstFacts DEF Closed, Over, Running, CInv, WellFormed
  <1>2. CASE Throw
    BY <1>1, <1>2, ThrowInv
  <1>3. CASE /\ sock' = [sock EXCEPT ![c0] = destroyed(@)]
             /\ cl' = [Sink(op.data) EXCEPT !.todo = Tail(@)]
             /\ op' = Idle
    <2>1. /\ cl'.todo = Tail(cl.todo) /\ cl'.result = "running" /\ cl'.request = cl.request
          /\ ClTypes' /\ cl'.closes = cl.closes
      BY <1>1, <1>3 DEF ClTypes, Sink
    <2>2. /\ SockTypes' /\ OpFollows'
          /\ \A d \in Conns : d # c0 => sock'[d] = sock[d]
          /\ c0 \in Conns => sock'[c0].fd = "closed"
      BY <1>1, <1>3 DEF SockTypes, OpFollows, Idle, destroyed
    <2>3. Starting'
      BY <1>1, <2>1, FreshTail, FreshStarts
    <2>4. NonePlain(Tail(cl.todo))
      BY <1>1, FreshTail DEF Openers
    <2>5. \A d \in Conns : sock'[d].fd = "open" => d # c0 /\ sock'[d] = sock[d]
      BY <2>2
    <2>6. \A d : ~Just(d)
      BY <1>1, NothingJust
    <2>7. \A d \in Conns : sock'[d].fd = "open" => sock[d].fd = "open" /\ ~WillClose(First, d)
      BY <2>5 DEF WillClose, c0
    <2>8. \A d \in Conns : sock'[d].fd = "open" /\ d \notin cl'.closes =>
              d \notin cl.closes /\ (Unsecured(d) => sock'[d].tls # "connected")
      BY <2>1, <2>5, <2>6 DEF Unsecured
    <2>9. QED
      BY <1>1, <2>1, <2>2, <2>3, <2>4, <2>7, <2>8, TailInv
  <1>4. QED
    BY <1>2, <1>3 DEF Closed

LEMMA ImmediateInv ==
  ASSUME CInv, Immediate
  PROVE  CInv'
  <1> DEFINE t == Tail(cl.todo)
             closes == IF First.do = "create" /\ First.try = "guard" THEN cl.closes \cup {c0} ELSE cl.closes
  <1>1. /\ Running /\ cl.result = "running" /\ cl.todo # <<>> /\ op.call = "none" /\ op' = op
        /\ WellFormed(First) /\ First = cl.todo[1] /\ Len(cl.todo) \in Nat
        /\ Len(t) = Len(cl.todo) - 1
        /\ \A i \in 1..Len(cl.todo) - 1 : t[i] = cl.todo[i + 1]
        /\ ClTypes /\ SockTypes /\ Rest(cl.todo) /\ Starting
    BY FirstFacts DEF Immediate, Running, CInv
  <1>2. op.pc = "call" /\ OpFollows'
    BY <1>1 DEF CInv, OpFollows
  <1>3. \A d : ~Just(d)
    BY <1>2, NothingJust
  <1>4. CASE First.do = "preliminary" /\ sock' = sock
    <2> DEFINE steps == IF cl.code \div 100 = 1 THEN <<Check(c0, {2}, "")>> ELSE <<>>
    <2>1. closes = cl.closes
      BY <1>4
    <2>2. cl' = [cl EXCEPT !.todo = IF cl.code \div 100 = 1 THEN <<Check(c0, {2}, "")>> \o t ELSE t,
                           !.closes = cl.closes]
      BY <1>4 DEF Immediate
    <2>3. t = <<>> \o t
      <3>1. PICK S : t \in Seq(S)
        BY FirstFacts, <1>1 DEF IsList
      <3> HIDE DEF t
      <3>2. QED
        BY <3>1
    <2>4. cl' = [[cl EXCEPT !.closes = cl.closes] EXCEPT !.todo = steps \o t]
      <3> HIDE DEF t
      <3>1. QED
        BY <2>2, <2>3, <1>1 DEF ClTypes
    <2>5. KeepsClient([cl EXCEPT !.closes = cl.closes])
      BY <1>1 DEF KeepsClient, ClTypes
    <2>6. Follows(steps)
      <3>1. ~HeadLine(First) /\ First.try # "closed"
        BY <1>1, <1>4 DEF HeadLine, WellFormed
      <3>2. CASE cl.code \div 100 = 1
        <4> DEFINE s == Check(c0, {2}, "")
        <4>1. Talking(s) /\ s.then = "reply"
          <5>1. Says(Check(c0, {2}, ""), c0, "receive") /\ Check(c0, {2}, "").then = "reply"
            BY Checked, Zenon
          <5>2. QED
            BY <5>1 DEF Says
        <4> HIDE DEF s
        <4>2. Talk(<<s>>) /\ Len(<<s>>) = 1 /\ <<s>>[1] = s
          BY <4>1, Single
        <4>3. steps = <<s>>
          BY <3>2 DEF s
        <4> HIDE DEF steps
        <4>4. Talk(steps) /\ \A i \in 1..Len(steps) : ~HeadLine(steps[i])
          BY <4>1, <4>2, <4>3 DEF HeadLine
        <4>5. QED
          BY <3>1, <4>4 DEF Follows
      <3>3. CASE cl.code \div 100 # 1
        <4>1. steps = <<>> /\ Len(steps) = 0 /\ steps \in Seq({})
          BY <3>3
        <4> HIDE DEF steps
        <4>2. IsList(steps)
          BY <4>1 DEF IsList
        <4>3. Talk(steps) /\ \A i \in 1..Len(steps) : ~HeadLine(steps[i])
          BY <4>1, <4>2 DEF Talk
        <4>4. QED
          BY <3>1, <4>3 DEF Follows
      <3>4. QED
        BY <3>2, <3>3
    <2> HIDE DEF steps, t
    <2>7. QED
      BY <1>1, <1>4, <2>4, <2>5, <2>6, ReplaceInv DEF t
  <1>5. ASSUME First.do # "preliminary"
        PROVE  cl'.todo = t /\ cl'.result = "running" /\ cl'.request = cl.request /\ ClTypes' /\ cl'.closes = closes
    <2>1. cl' = [cl EXCEPT !.todo = t, !.closes = closes]
      BY <1>5 DEF Immediate
    <2> HIDE DEF t, closes
    <2>2. QED
      BY <1>1, <2>1 DEF ClTypes
  <1>6. ASSUME First.do \in {"create", "settimeout", "wrap", "close"},
               SockTypes', Starting',
               \A d \in Conns : d # c0 => sock'[d] = sock[d],
               c0 \in Conns =>
                  \/ sock'[c0].fd # "open"
                  \/ /\ First.do # "close" /\ sock'[c0].fd = sock[c0].fd
                     /\ sock[c0].tls # "connected" => sock'[c0].tls # "connected"
        PROVE  CInv'
    <2>1. /\ cl'.todo = t /\ cl'.result = "running" /\ cl'.request = cl.request /\ ClTypes'
          /\ cl.closes \subseteq cl'.closes
      BY <1>5, <1>6
    <2>2. \A d \in Conns : sock'[d].fd = "open" => sock[d].fd = "open" /\ ~WillClose(First, d)
      BY <1>1, <1>6 DEF WillClose, HeadLine, WellFormed, c0
    <2>3. \A d \in Conns : sock'[d].fd = "open" => (Unsecured(d) => sock'[d].tls # "connected")
      BY <1>3, <1>6 DEF Unsecured
    <2>4. QED
      BY <1>1, <1>2, <1>6, <2>1, <2>2, <2>3, TailInv
  <1>7. CASE First.do = "create" /\ sock' = [sock EXCEPT ![c0] = NewSock]
    <2>1. /\ SockTypes' /\ \A d \in Conns : d # c0 => sock'[d] = sock[d]
          /\ c0 \in Conns => sock'[c0].fd = "invalid" /\ sock'[c0].tls = "no"
      BY <1>1, <1>7 DEF SockTypes, NewSock
    <2>2. Starting'
      <3> SUFFICES ASSUME NEW i \in 1..Len(t), i <= 2, t[i].do = "connect"
                   PROVE  /\ t[i].conn \in Conns => sock'[t[i].conn].tls = "no"
                          /\ t[i].try = "guard" => t[i].conn \in cl'.closes
        BY <1>5, <1>7 DEF Starting
      <3>1. i + 1 \in 1..Len(cl.todo) /\ t[i] = cl.todo[i + 1] /\ i \in {1, 2}
        BY <1>1
      <3>2. i + 1 >= 2 => cl.todo[(i + 1) - 1].do = "settimeout"
        BY <1>1, <3>1 DEF Rest, Prepared
      <3>3. i = 2
        <4>1. ASSUME i = 1 PROVE FALSE
          <5>1. (i + 1) - 1 = 1 /\ i + 1 >= 2
            BY <4>1
          <5>2. cl.todo[1].do = "settimeout"
            BY <3>2, <5>1
          <5>3. QED
            BY <1>1, <1>7, <5>2
        <4>2. QED
          BY <3>1, <4>1
      <3>4. /\ cl.todo[(i + 1) - 2].conn = cl.todo[i + 1].conn
            /\ cl.todo[i + 1].try = "guard" => cl.todo[(i + 1) - 2].try = "guard"
        BY <1>1, <3>1, <3>3 DEF Rest, Prepared
      <3>5. t[i].conn = c0 /\ (t[i].try = "guard" => First.try = "guard")
        BY <1>1, <3>1, <3>3, <3>4 DEF c0
      <3>6. QED
        BY <1>5, <1>7, <2>1, <3>5
    <2>3. QED
      BY <1>6, <1>7, <2>1, <2>2
  <1>8. CASE First.do = "settimeout" /\ sock' = [sock EXCEPT ![c0] = timed(@)]
    <2>1. /\ SockTypes' /\ \A d \in Conns : d # c0 => sock'[d] = sock[d]
          /\ \A d \in Conns : sock'[d].fd = sock[d].fd /\ sock'[d].tls = sock[d].tls
      BY <1>1, <1>8 DEF SockTypes, timed
    <2>2. Starting'
      <3> SUFFICES ASSUME NEW i \in 1..Len(t), i <= 2, t[i].do = "connect"
                   PROVE  /\ t[i].conn \in Conns => sock'[t[i].conn].tls = "no"
                          /\ t[i].try = "guard" => t[i].conn \in cl'.closes
        BY <1>5, <1>8 DEF Starting
      <3>1. i + 1 \in 1..Len(cl.todo) /\ t[i] = cl.todo[i + 1] /\ i \in {1, 2}
        BY <1>1
      <3>2. i = 2 => cl.todo[(i + 1) - 2].do = "create"
        BY <1>1, <3>1 DEF Rest, Prepared
      <3>3. i = 1
        BY <1>1, <1>8, <3>1, <3>2
      <3>4. i + 1 <= 2
        BY <3>3
      <3>5. /\ t[i].conn \in Conns => sock[t[i].conn].tls = "no"
            /\ t[i].try = "guard" => t[i].conn \in cl.closes
        BY <1>1, <3>1, <3>4 DEF Starting
      <3>6. QED
        BY <1>5, <1>8, <2>1, <3>5
    <2>3. QED
      BY <1>6, <1>8, <2>1, <2>2
  <1>9. CASE First.do = "wrap" /\ sock' = [sock EXCEPT ![c0] = wrapped(@)]
    <2>1. /\ SockTypes' /\ \A d \in Conns : d # c0 => sock'[d] = sock[d]
          /\ c0 \in Conns => sock'[c0].fd = sock[c0].fd /\ sock'[c0].tls = "new"
      BY <1>1, <1>9 DEF SockTypes, wrapped
    <2>2. Starting'
      BY <1>1, <1>5, <1>9, FreshTail, FreshStarts
    <2>3. QED
      BY <1>6, <1>9, <2>1, <2>2
  <1>10. CASE First.do = "close" /\ sock' = [sock EXCEPT ![c0] = destroyed(@)]
    <2>1. /\ SockTypes' /\ \A d \in Conns : d # c0 => sock'[d] = sock[d]
          /\ c0 \in Conns => sock'[c0].fd = "closed"
      BY <1>1, <1>10 DEF SockTypes, destroyed
    <2>2. Starting'
      BY <1>1, <1>5, <1>10, FreshTail, FreshStarts
    <2>3. QED
      BY <1>6, <1>10, <2>1, <2>2
  <1>11. QED
    BY <1>4, <1>7, <1>8, <1>9, <1>10 DEF Immediate

LEMMA BeginInv ==
  ASSUME CInv, Begin
  PROVE  CInv'
  <1>1. /\ cl.result = "running" /\ cl.todo # <<>> /\ op.call = "none" /\ cl' = cl /\ sock' = sock
        /\ op.pc = "call"
    BY DEF Begin, Running, CInv, OpFollows
  <1>2. /\ {"call", "conn", "pc", "pat", "data", "count", "left", "waited", "err"} \subseteq DOMAIN op'
        /\ op'.call = First.do /\ op'.conn = c0
        /\ First.do \in {"connect", "handshake", "receive", "send"}
        /\ First.do = "handshake" => op'.pc = "call"
    <2>1. CASE First.do = "connect" /\ StartConnect(c0)
      BY <2>1 DEF StartConnect, Idle
    <2>2. CASE First.do = "handshake" /\ StartHandshake(c0)
      BY <2>2 DEF StartHandshake, Idle
    <2>3. CASE First.do = "receive" /\ StartReceive(c0, First.pat, First.count, First.data)
      BY <2>3 DEF StartReceive, Idle
    <2>4. CASE First.do = "send" /\ StartSend(c0, First.data)
      BY <2>4 DEF StartSend, Idle
    <2>5. QED
      BY <2>1, <2>2, <2>3, <2>4 DEF Begin
  <1>3. (\A c : ~Just(c)) /\ (\A c : ~Just(c)')
    BY <1>1, <1>2 DEF Just, First, c0
  <1>4. OpFollows'
    BY <1>1, <1>2 DEF OpFollows, First, c0
  <1>5. \A c : Unsecured(c)' <=> Unsecured(c)
    BY <1>1, <1>3 DEF Unsecured
  <1>6. SockTypes' /\ ClTypes' /\ Rest(cl.todo)' /\ Owned' /\ Starting' /\ SocketsClosed'
    BY <1>1 DEF CInv, SockTypes, ClTypes, Owned, Starting, SocketsClosed
  <1>7. Guarded' /\ PlainUnsecured'
    BY <1>1, <1>5 DEF CInv, Guarded, PlainUnsecured
  <1>8. QED
    BY <1>4, <1>6, <1>7 DEF CInv

LEMMA SucceededFacts ==
  ASSUME CInv, NEW then, Succeeded(then)
  PROVE  /\ Running /\ cl.result = "running" /\ cl.todo # <<>>
         /\ First.do = "receive" /\ First.then = then /\ WellFormed(First)
         /\ ClTypes /\ (First.try = "closed" => then = "until-closed")
  BY FirstFacts DEF Succeeded, Over, Running, CInv, WellFormed

LEMMA OneFollows ==
  ASSUME NEW s, Talking(s), HeadLine(s) => HeadLine(First),
         HeadLine(First) \/ First.try = "closed" => WillClose(s, c0)
  PROVE  Follows(<<s>>)
  <1> DEFINE steps == <<s>>
  <1>1. Talk(steps) /\ Len(steps) = 1 /\ steps[1] = s
    BY Single
  <1> HIDE DEF steps
  <1>2. QED
    BY <1>1 DEF Follows, Ends, steps

LEMMA QuietFollows ==
  ASSUME NEW steps, Talk(steps), NoHeadLine(steps),
         HeadLine(First) \/ First.try = "closed" => Ends(steps, c0)
  PROVE  Follows(steps)
  BY DEF Follows, NoHeadLine

LEMMA NoSteps == Talk(<<>>) /\ NoHeadLine(<<>>)
  <1> DEFINE s == <<>>
  <1>1. s \in Seq({}) /\ Len(s) = 0
    OBVIOUS
  <1> HIDE DEF s
  <1>2. QED
    BY <1>1 DEF Talk, NoHeadLine, IsList, s

LEMMA QuietOne ==
  ASSUME NEW s, Talking(s), ~HeadLine(s)
  PROVE  Talk(<<s>>) /\ NoHeadLine(<<s>>) /\ \A c : WillClose(s, c) => Ends(<<s>>, c)
  <1> DEFINE steps == <<s>>
  <1>1. Talk(steps) /\ Len(steps) = 1 /\ steps[1] = s
    BY Single
  <1> HIDE DEF steps
  <1>2. QED
    BY <1>1 DEF NoHeadLine, Ends, steps

LEMMA QuietTwo ==
  ASSUME NEW s, NEW t, Talking(s), Talking(t), ~HeadLine(s), ~HeadLine(t)
  PROVE  Talk(<<s, t>>) /\ NoHeadLine(<<s, t>>)
  <1> DEFINE steps == <<s, t>>
  <1>1. steps \in Seq({s, t}) /\ Len(steps) = 2 /\ steps[1] = s /\ steps[2] = t
    OBVIOUS
  <1> HIDE DEF steps
  <1>2. IsList(steps)
    BY <1>1 DEF IsList
  <1>3. QED
    BY <1>1, <1>2 DEF Talk, NoHeadLine, steps

LEMMA UntilClosedQuiet ==
  ASSUME NEW c
  PROVE  Talk(until_closed(c)) /\ NoHeadLine(until_closed(c)) /\ Ends(until_closed(c), c)
  <1> DEFINE s == [Bytes(c, BLOCKSIZE, "until-closed") EXCEPT !.try = "closed"]
  <1>1. Talking(s) /\ ~HeadLine(s) /\ WillClose(s, c)
    BY DEF Bytes, Step, Talking, WellFormed, HeadLine, WillClose
  <1>2. until_closed(c) = <<s>>
    BY DEF until_closed
  <1> HIDE DEF s
  <1>3. QED
    BY <1>1, <1>2, QuietOne

LEMMA ByLengthQuiet ==
  ASSUME NEW c, NEW n
  PROVE  Talk(by_length(c, n)) /\ NoHeadLine(by_length(c, n))
  <1> DEFINE s == [Bytes(c, Least(BLOCKSIZE, n), "by-length") EXCEPT !.next = n]
  <1>1. Talking(s) /\ ~HeadLine(s)
    BY DEF Bytes, Step, Talking, WellFormed, HeadLine
  <1>2. by_length(c, n) = IF n <= 0 THEN <<>> ELSE <<s>>
    BY DEF by_length
  <1> HIDE DEF s
  <1>3. QED
    BY <1>1, <1>2, QuietOne, NoSteps

LEMMA ChunkedQuiet ==
  ASSUME NEW c
  PROVE  Talk(chunked(c)) /\ NoHeadLine(chunked(c))
  <1> DEFINE s == Line(c, "size", "")
  <1>1. Talking(s) /\ ~HeadLine(s)
    BY DEF Line, Step, Talking, WellFormed, HeadLine
  <1>2. chunked(c) = <<s>>
    BY DEF chunked
  <1> HIDE DEF s
  <1>3. QED
    BY <1>1, <1>2, QuietOne

LEMMA ReceiveBodyQuiet ==
  ASSUME NEW c, NEW headers
  PROVE  Talk(receivebody(c, headers)) /\ NoHeadLine(receivebody(c, headers))
  <1>1. CASE headers.encoding \notin {"none", "identity"}
    BY <1>1, ChunkedQuiet DEF receivebody
  <1>2. CASE headers.encoding \in {"none", "identity"} /\ headers.length >= 0
    BY <1>2, ByLengthQuiet DEF receivebody
  <1>3. CASE headers.encoding \in {"none", "identity"} /\ ~(headers.length >= 0)
    BY <1>3, UntilClosedQuiet DEF receivebody
  <1>4. QED
    BY <1>1, <1>2, <1>3

LEMMA KeptClients ==
  ASSUME ClTypes
  PROVE  /\ KeepsClient(cl)
         /\ \A chunk : KeepsClient(Sink(chunk))
         /\ \A x, y : KeepsClient([cl EXCEPT !.sunk = x, !.code = y])
         /\ \A x, y : KeepsClient([cl EXCEPT !.code = x, !.headers = y])
         /\ \A x, y : KeepsClient([cl EXCEPT !.code = x, !.sunk = y])
         /\ \A x : KeepsClient([cl EXCEPT !.headers = x])
  <1>1. KeepsClient(cl)
    BY DEF ClTypes, KeepsClient
  <1>2. ASSUME NEW chunk PROVE KeepsClient(Sink(chunk))
    BY DEF ClTypes, KeepsClient, Sink
  <1>3. ASSUME NEW x, NEW y
        PROVE  /\ KeepsClient([cl EXCEPT !.sunk = x, !.code = y])
               /\ KeepsClient([cl EXCEPT !.code = x, !.headers = y])
               /\ KeepsClient([cl EXCEPT !.code = x, !.sunk = y])
    BY DEF ClTypes, KeepsClient
  <1>4. ASSUME NEW x PROVE KeepsClient([cl EXCEPT !.headers = x])
    BY DEF ClTypes, KeepsClient
  <1>5. QED
    BY <1>1, <1>2, <1>3, <1>4

LEMMA RaisedInv ==
  ASSUME CInv, cl' = [cl EXCEPT !.result = "raised"], op' = Idle, sock' = sock
  PROVE  CInv'
  <1>1. ClTypes /\ SockTypes
    BY DEF CInv
  <1>2. cl'.result = "raised" /\ ClTypes'
    BY <1>1 DEF ClTypes
  <1>3. SockTypes' /\ OpFollows' /\ SocketsClosed'
    BY <1>1, <1>2 DEF SockTypes, OpFollows, Idle, SocketsClosed
  <1>4. QED
    BY <1>2, <1>3 DEF CInv


-----------------------------------------------------------------------------
(* What a response leads to, step by step.                                 *)

LEMMA StatusStartInv ==
  ASSUME CInv, StatusStart
  PROVE  CInv'
  <1>1. /\ Running /\ First.do = "receive" /\ First.then = "http" /\ WellFormed(First)
        /\ ClTypes
    BY SucceededFacts DEF StatusStart
  <1>2. HeadLine(First)
    BY <1>1 DEF HeadLine, WellFormed
  <1>3. CASE op.data = <<<<"HTTP/">>>>
    <2> DEFINE s == [Line(c0, "status", "") EXCEPT !.data = op.data]
    <2>1. Talking(s) /\ WillClose(s, c0)
      BY DEF Line, Step, Talking, WellFormed, WillClose, HeadLine
    <2>2. Proceed(<<s>>, cl)
      BY <1>3 DEF StatusStart
    <2> HIDE DEF s
    <2>3. Follows(<<s>>)
      BY <1>2, <2>1, OneFollows
    <2>4. KeepsClient(cl)
      BY <1>1, KeptClients
    <2>5. QED
      BY <1>1, <2>2, <2>3, <2>4, ProceedInv
  <1>4. CASE op.data # <<<<"HTTP/">>>> /\ First.next = "again"
    <2> DEFINE s == Line(c0, "first", "nilcode")
    <2>1. Talking(s) /\ WillClose(s, c0)
      BY DEF Line, Step, Talking, WellFormed, WillClose, HeadLine
    <2>2. Proceed(<<s>>, cl)
      BY <1>4 DEF StatusStart
    <2> HIDE DEF s
    <2>3. Follows(<<s>>)
      BY <1>2, <2>1, OneFollows
    <2>4. KeepsClient(cl)
      BY <1>1, KeptClients
    <2>5. QED
      BY <1>1, <2>2, <2>3, <2>4, ProceedInv
  <1>5. CASE op.data # <<<<"HTTP/">>>> /\ First.next # "again"
    <2> DEFINE new == [cl EXCEPT !.sunk = @ \o op.data, !.code = 200]
    <2>1. Proceed(until_closed(c0), new)
      BY <1>5 DEF StatusStart
    <2>2. Follows(until_closed(c0))
      BY UntilClosedQuiet, QuietFollows
    <2>3. KeepsClient(new)
      <3>1. \A x, y : KeepsClient([cl EXCEPT !.sunk = x, !.code = y])
        BY <1>1, KeptClients
      <3>2. QED
        BY <3>1
    <2> HIDE DEF new
    <2>4. QED
      BY <1>1, <2>1, <2>2, <2>3, ProceedInv
  <1>6. QED
    BY <1>3, <1>4, <1>5

LEMMA StatusInv ==
  ASSUME CInv, Status
  PROVE  CInv'
  <1>1. /\ Running /\ cl.result = "running"
        /\ First.do = "receive" /\ First.then = "status" /\ WellFormed(First) /\ ClTypes
    BY SucceededFacts DEF Status
  <1>2. HeadLine(First)
    BY <1>1 DEF HeadLine, WellFormed
  <1>3. CASE Len(op.data) < 2 \/ op.data[2][1] # "status"
    BY <1>1, <1>3, ThrowInv DEF Status
  <1>4. CASE ~(Len(op.data) < 2 \/ op.data[2][1] # "status")
    <2> DEFINE s == Line(c0, "first", IF op.data[2][2] = 100 THEN "again" ELSE "body")
               new == [cl EXCEPT !.code = op.data[2][2], !.headers = NoHeaders]
    <2>1. Talking(s) /\ WillClose(s, c0)
      BY DEF Line, Step, Talking, WellFormed, WillClose, HeadLine
    <2>2. Proceed(<<s>>, new)
      BY <1>4 DEF Status
    <2>3. KeepsClient(new)
      BY <1>1, KeptClients
    <2> HIDE DEF s, new
    <2>4. Follows(<<s>>)
      BY <1>2, <2>1, OneFollows
    <2>5. QED
      BY <1>1, <2>2, <2>3, <2>4, ProceedInv
  <1>5. QED
    BY <1>3, <1>4

\* A line of headers or trailers.
LEMMA HeaderFacts ==
  ASSUME CInv, NEW then \in {"first", "next", "unfold"}, Succeeded(then)
  PROVE  /\ Running /\ cl.result = "running" /\ First.do = "receive" /\ ClTypes
         /\ HeadLine(First) <=> First.next # "trailers"
         /\ First.try # "closed"
  <1>1. /\ Running /\ cl.result = "running"
        /\ First.do = "receive" /\ First.then = then /\ ClTypes
        /\ First.try = "closed" => then = "until-closed"
    BY SucceededFacts
  <1>2. QED
    BY <1>1 DEF HeadLine

LEMMA HeaderLineInv ==
  ASSUME CInv, HeaderLine
  PROVE  CInv'
  <1>1. PICK then \in {"first", "next", "unfold"} : Succeeded(then)
    BY DEF HeaderLine
  <1>2. /\ Running /\ cl.result = "running" /\ First.do = "receive" /\ ClTypes
        /\ HeadLine(First) <=> First.next # "trailers"
        /\ First.try # "closed"
    BY <1>1, HeaderFacts
  <1>3. CASE First.then # "first" /\ op.data[1] = <<" ">>
    <2> DEFINE s == [Line(c0, "unfold", First.next) EXCEPT !.try = "raise"]
               new == [cl EXCEPT !.headers = unfolded(@, op.data)]
    <2>1. /\ Talking(s) /\ s.conn = c0
          /\ HeadLine(s) <=> First.next # "trailers"
      BY DEF Line, Step, Talking, WellFormed, HeadLine
    <2>2. Proceed(<<s>>, new)
      BY <1>3 DEF HeaderLine
    <2>3. KeepsClient(new)
      BY <1>2, KeptClients
    <2> HIDE DEF s, new
    <2>4. Follows(<<s>>)
      BY <1>2, <2>1, OneFollows DEF WillClose
    <2>5. QED
      BY <1>2, <2>2, <2>3, <2>4, ProceedInv
  <1>4. CASE ~(First.then # "first" /\ op.data[1] = <<" ">>) /\ op.data[1][1] = "header"
    <2> DEFINE s == Line(c0, "next", First.next)
               new == [cl EXCEPT !.headers = withheader(@, op.data[1])]
    <2>1. /\ Talking(s) /\ s.conn = c0
          /\ HeadLine(s) <=> First.next # "trailers"
      BY DEF Line, Step, Talking, WellFormed, HeadLine
    <2>2. Proceed(<<s>>, new)
      BY <1>4 DEF HeaderLine
    <2>3. KeepsClient(new)
      BY <1>2, KeptClients
    <2> HIDE DEF s, new
    <2>4. Follows(<<s>>)
      BY <1>2, <2>1, OneFollows DEF WillClose
    <2>5. QED
      BY <1>2, <2>2, <2>3, <2>4, ProceedInv
  <1>5. CASE ~(First.then # "first" /\ op.data[1] = <<" ">>) /\ op.data[1][1] # "header"
    BY <1>2, <1>5, ThrowInv DEF HeaderLine
  <1>6. QED
    BY <1>3, <1>4, <1>5

LEMMA BlankFacts ==
  ASSUME CInv, Blank
  PROVE  /\ Running /\ cl.result = "running" /\ First.do = "receive" /\ ClTypes
         /\ HeadLine(First) <=> First.next # "trailers"
         /\ First.try # "closed"
         /\ KeepsClient(cl)
  <1>1. PICK then \in {"first", "next", "unfold"} : Succeeded(then)
    BY DEF Blank
  <1>2. ClTypes
    BY DEF CInv
  <1>3. KeepsClient(cl)
    BY <1>2, KeptClients
  <1>4. QED
    BY <1>1, <1>3, HeaderFacts

LEMMA Continue100Inv ==
  ASSUME CInv, Continue100
  PROVE  CInv'
  <1> DEFINE s == statusline(c0, "again")
  <1>1. Blank /\ First.next = "again" /\ Proceed(<<s>>, cl)
    BY DEF Continue100
  <1>2. /\ Talking(s) /\ s.do = "receive" /\ s.conn = c0 /\ s.then = "http" /\ s.next = "again"
    BY StatusLine
  <1> HIDE DEF s
  <1>3. WillClose(s, c0)
    BY <1>2 DEF WillClose, HeadLine
  <1>4. /\ Running /\ First.do = "receive" /\ KeepsClient(cl) /\ HeadLine(First)
    BY <1>1, BlankFacts
  <1>5. Follows(<<s>>)
    BY <1>2, <1>3, <1>4, OneFollows
  <1>6. QED
    BY <1>1, <1>4, <1>5, ProceedInv

LEMMA NilCodeInv ==
  ASSUME CInv, NilCode
  PROVE  CInv'
  <1>1. Blank
    BY DEF NilCode
  <1>2. Running /\ First.do = "receive" /\ KeepsClient(cl)
    BY <1>1, BlankFacts
  <1>3. CASE cl.request.method = "HEAD"
    <2> DEFINE s == Close(c0)
    <2>1. Proceed(<<s>>, cl)
      BY <1>3 DEF NilCode
    <2>2. Talking(s) /\ ~HeadLine(s) /\ WillClose(s, c0)
      BY DEF Close, Step, Talking, WellFormed, HeadLine, WillClose
    <2> HIDE DEF s
    <2>3. Follows(<<s>>)
      BY <2>2, OneFollows
    <2>4. QED
      BY <1>2, <2>1, <2>3, ProceedInv
  <1>4. CASE cl.request.method # "HEAD"
    BY <1>4, RaisedInv DEF NilCode
  <1>5. QED
    BY <1>3, <1>4

LEMMA TrailersInv ==
  ASSUME CInv, Trailers
  PROVE  CInv'
  <1>1. Blank /\ First.next = "trailers" /\ Proceed(<<>>, cl)
    BY DEF Trailers
  <1>2. /\ Running /\ First.do = "receive" /\ KeepsClient(cl)
        /\ ~HeadLine(First) /\ First.try # "closed"
    BY <1>1, BlankFacts
  <1>3. Follows(<<>>)
    BY <1>2, NoSteps, QuietFollows
  <1>4. QED
    BY <1>1, <1>2, <1>3, ProceedInv

LEMMA BodyInv ==
  ASSUME CInv, Body
  PROVE  CInv'
  <1> DEFINE b == IF shouldreceivebody(cl.request, cl.code) THEN receivebody(c0, cl.headers) ELSE <<>>
             s == Close(c0)
             l == <<s>>
  <1>1. Blank /\ First.next = "body" /\ Proceed(b \o l, cl)
    BY DEF Body
  <1>2. Talk(b) /\ NoHeadLine(b)
    BY ReceiveBodyQuiet, NoSteps
  <1>3. Talking(s) /\ ~HeadLine(s) /\ WillClose(s, c0)
    BY DEF Close, Step, Talking, WellFormed, HeadLine, WillClose
  <1>4. /\ Running /\ First.do = "receive" /\ KeepsClient(cl)
    BY <1>1, BlankFacts
  <1> HIDE DEF b, s
  <1>5. Talk(l) /\ NoHeadLine(l) /\ Ends(l, c0)
    BY <1>3, QuietOne
  <1> HIDE DEF l
  <1>6. Talk(b \o l) /\ NoHeadLine(b \o l)
    BY <1>2, <1>5, QuietJoined
  <1>7. Ends(b \o l, c0)
    BY <1>2, <1>5, EndsJoined DEF Talk
  <1>8. Follows(b \o l)
    BY <1>6, <1>7, QuietFollows
  <1>9. QED
    BY <1>1, <1>4, <1>8, ProceedInv

-----------------------------------------------------------------------------
(* The body.                                                               *)

LEMMA ByLengthInv ==
  ASSUME CInv, ByLength
  PROVE  CInv'
  <1> DEFINE n == First.next - Len(op.data)
  <1>1. Succeeded("by-length") /\ Proceed(by_length(c0, n), Sink(op.data))
    BY DEF ByLength
  <1>2. /\ Running /\ First.do = "receive" /\ First.then = "by-length" /\ ClTypes
        /\ First.try # "closed"
    BY <1>1, SucceededFacts
  <1>3. ~HeadLine(First) /\ KeepsClient(Sink(op.data))
    BY <1>2, KeptClients DEF HeadLine
  <1> HIDE DEF n
  <1>4. Follows(by_length(c0, n))
    BY <1>2, <1>3, ByLengthQuiet, QuietFollows
  <1>5. QED
    BY <1>1, <1>2, <1>3, <1>4, ProceedInv

LEMMA UntilClosedInv ==
  ASSUME CInv, UntilClosed
  PROVE  CInv'
  <1>1. Succeeded("until-closed") /\ Proceed(until_closed(c0), Sink(op.data))
    BY DEF UntilClosed
  <1>2. Running /\ First.do = "receive" /\ ClTypes
    BY <1>1, SucceededFacts
  <1>3. KeepsClient(Sink(op.data))
    BY <1>2, KeptClients
  <1>4. Follows(until_closed(c0))
    BY UntilClosedQuiet, QuietFollows
  <1>5. QED
    BY <1>1, <1>2, <1>3, <1>4, ProceedInv

LEMMA ChunkSizeInv ==
  ASSUME CInv, ChunkSize
  PROVE  CInv'
  <1>1. Succeeded("size")
    BY DEF ChunkSize
  <1>2. /\ Running /\ cl.result = "running" /\ First.do = "receive" /\ First.then = "size"
        /\ ClTypes /\ First.try # "closed"
    BY <1>1, SucceededFacts
  <1>3. ~HeadLine(First) /\ KeepsClient(cl)
    BY <1>2, KeptClients DEF HeadLine
  <1>4. CASE op.data = <<>> \/ op.data[1][1] # "size"
    BY <1>2, <1>4, ThrowInv DEF ChunkSize
  <1>5. CASE ~(op.data = <<>> \/ op.data[1][1] # "size")
    <2> DEFINE s == IF op.data[1][2] > 0 THEN Bytes(c0, op.data[1][2], "chunk")
                    ELSE Line(c0, "first", "trailers")
    <2>1. Talking(s) /\ ~HeadLine(s)
      BY DEF Bytes, Line, Step, Talking, WellFormed, HeadLine
    <2>2. Proceed(<<s>>, cl)
      BY <1>5 DEF ChunkSize
    <2> HIDE DEF s
    <2>3. Follows(<<s>>)
      BY <1>2, <1>3, <2>1, OneFollows
    <2>4. QED
      BY <1>2, <1>3, <2>2, <2>3, ProceedInv
  <1>6. QED
    BY <1>4, <1>5

LEMMA ChunkInv ==
  ASSUME CInv, Chunk
  PROVE  CInv'
  <1> DEFINE s == [Line(c0, "crlf", "") EXCEPT !.try = "ignore"]
             l == <<s>>
  <1>1. Succeeded("chunk") /\ Proceed(l \o chunked(c0), Sink(op.data))
    BY DEF Chunk
  <1> HIDE DEF s, l
  <1>2. /\ Running /\ First.do = "receive" /\ First.then = "chunk" /\ ClTypes
        /\ First.try # "closed"
    BY <1>1, SucceededFacts
  <1>3. ~HeadLine(First) /\ KeepsClient(Sink(op.data))
    BY <1>2, KeptClients DEF HeadLine
  <1>4. Talking(s) /\ ~HeadLine(s)
    BY DEF Line, Step, Talking, WellFormed, HeadLine, s
  <1>5. Talk(l) /\ NoHeadLine(l)
    BY <1>4, QuietOne DEF l
  <1>6. Follows(l \o chunked(c0))
    BY <1>2, <1>3, <1>5, ChunkedQuiet, QuietJoined, QuietFollows
  <1>7. QED
    BY <1>1, <1>2, <1>3, <1>6, ProceedInv

LEMMA AfterChunkInv ==
  ASSUME CInv, AfterChunk
  PROVE  CInv'
  <1>1. /\ Running /\ cl.result = "running" /\ cl.todo # <<>> /\ First.then = "crlf"
        /\ Proceed(<<>>, cl)
    BY DEF AfterChunk, Over, Running
  <1>2. WellFormed(First) /\ ClTypes
    BY <1>1, FirstFacts DEF CInv
  <1>3. First.do = "receive" /\ First.try # "closed" /\ ~HeadLine(First)
    BY <1>1, <1>2 DEF WellFormed, HeadLine
  <1>4. KeepsClient(cl)
    BY <1>2, KeptClients
  <1>5. Follows(<<>>)
    BY <1>3, NoSteps, QuietFollows
  <1>6. QED
    BY <1>1, <1>3, <1>4, <1>5, ProceedInv

-----------------------------------------------------------------------------
(* Replies, and where a response sends the request.                        *)

LEMMA LoginQuiet ==
  ASSUME NEW c, NEW code
  PROVE  Talk(login(c, code)) /\ NoHeadLine(login(c, code))
  <1> DEFINE x == command(c, "pass")
             y == Check(c, {2}, "")
  <1>1. Chat(x) /\ Chat(y)
    BY Chats
  <1>2. login(c, code) = IF code = 331 THEN <<x, y>> ELSE <<>>
    BY DEF login
  <1> HIDE DEF x, y
  <1>3. Talking(x) /\ Talking(y) /\ ~HeadLine(x) /\ ~HeadLine(y)
    BY <1>1 DEF Chat, HeadLine
  <1>4. QED
    BY <1>2, <1>3, QuietTwo, NoSteps

LEMMA RetrQuiet ==
  ASSUME NEW code
  PROVE  Talk(retr(code)) /\ NoHeadLine(retr(code))
  <1> DEFINE x == IfPreliminary(c0)
             y == Close(2)
             l == <<x, y>>
             u == until_closed(2)
  <1>1. Chat(x) /\ Chat(y)
    BY Chats
  <1>2. retr(code) = IF code \div 100 = 2 THEN <<>> ELSE u \o l
    BY DEF retr
  <1>3. Talk(u) /\ NoHeadLine(u)
    BY UntilClosedQuiet
  <1> HIDE DEF x, y, u
  <1>4. Talking(x) /\ Talking(y) /\ ~HeadLine(x) /\ ~HeadLine(y)
    BY <1>1 DEF Chat, HeadLine
  <1>5. Talk(l) /\ NoHeadLine(l)
    BY <1>4, QuietTwo
  <1> HIDE DEF l
  <1>6. Talk(u \o l) /\ NoHeadLine(u \o l)
    BY <1>3, <1>5, QuietJoined
  <1>7. QED
    BY <1>2, <1>6, NoSteps

LEMMA ReplyInv ==
  ASSUME CInv, Reply
  PROVE  CInv'
  <1>1. Succeeded("reply")
    BY DEF Reply
  <1>2. /\ Running /\ cl.result = "running" /\ First.do = "receive" /\ First.then = "reply"
        /\ WellFormed(First) /\ ClTypes /\ First.try # "closed"
    BY <1>1, SucceededFacts
  <1>3. ~HeadLine(First)
    BY <1>2 DEF HeadLine
  <1>4. CASE Throw
    BY <1>2, <1>4, ThrowInv
  <1>5. CASE \E n : Proceed(<<[First EXCEPT !.count = n]>>, cl)
    <2>1. PICK n : Proceed(<<[First EXCEPT !.count = n]>>, cl)
      BY <1>5
    <2> DEFINE s == [First EXCEPT !.count = n]
    <2>2. Talking(s) /\ ~HeadLine(s)
      BY <1>2 DEF Talking, WellFormed, HeadLine
    <2>3. Proceed(<<s>>, cl)
      BY <2>1
    <2> HIDE DEF s
    <2>4. Follows(<<s>>)
      BY <1>2, <1>3, <2>2, OneFollows
    <2>5. KeepsClient(cl)
      BY <1>2, KeptClients
    <2>6. QED
      BY <1>2, <2>3, <2>4, <2>5, ProceedInv
  <1>6. CASE \E code, sunk :
               Proceed(CASE First.next = "login" -> login(c0, code)
                         [] First.next = "retr" -> retr(code)
                         [] OTHER -> <<>>, [cl EXCEPT !.code = code, !.sunk = sunk])
    <2>1. PICK code, sunk :
               Proceed(CASE First.next = "login" -> login(c0, code)
                         [] First.next = "retr" -> retr(code)
                         [] OTHER -> <<>>, [cl EXCEPT !.code = code, !.sunk = sunk])
      BY <1>6
    <2> DEFINE steps == CASE First.next = "login" -> login(c0, code)
                          [] First.next = "retr" -> retr(code)
                          [] OTHER -> <<>>
               new == [cl EXCEPT !.code = code, !.sunk = sunk]
    <2>2. KeepsClient(new)
      BY <1>2, KeptClients
    <2>3. Talk(steps) /\ NoHeadLine(steps)
      BY LoginQuiet, RetrQuiet, NoSteps
    <2>4. Proceed(steps, new)
      BY <2>1
    <2> HIDE DEF steps, new
    <2>5. Follows(steps)
      BY <1>2, <1>3, <2>3, QuietFollows
    <2>6. QED
      BY <1>2, <2>2, <2>4, <2>5, ProceedInv
  <1>7. QED
    BY <1>4, <1>5, <1>6 DEF Reply

LEMMA RedirectInv ==
  ASSUME CInv, Redirect
  PROVE  CInv'
  <1> DEFINE r == tredirect(cl.request, cl.headers.location)
             s == Close(c0)
             a == <<s>>
             t == trequest(c0 + 1, r)
             u == a \o t
             new == [cl EXCEPT !.request = r]
  <1>1. /\ Blank /\ First.next = "body" /\ Proceed(u, new)
        /\ cl.request.scheme = "https" => cl.headers.location = "https"
    BY DEF Redirect, shouldredirect
  <1>2. /\ Running /\ cl.result = "running" /\ cl.todo # <<>>
        /\ First.do = "receive" /\ ClTypes /\ HeadLine(First)
    BY <1>1, BlankFacts DEF Running
  <1>3. Bodied(r) /\ (cl.request.scheme = "https" => r.scheme = "https")
    <2>1. Len(<<>>) \in Nat
      OBVIOUS
    <2>2. /\ {"kind", "scheme", "method", "source", "chunked", "redirects"} \subseteq DOMAIN r
          /\ r.source = <<>> /\ r.scheme = IF cl.headers.location = "relative" THEN cl.request.scheme
                                           ELSE cl.headers.location
      BY <1>2 DEF ClTypes, tredirect
    <2>3. QED
      BY <1>1, <2>1, <2>2 DEF Bodied
  <1>4. /\ cl'.todo = u \o Tail(cl.todo) /\ op' = Idle /\ sock' = sock
        /\ cl'.request = r /\ cl'.result = "running" /\ cl'.closes = cl.closes
        /\ {"todo", "result", "asked", "request", "code", "headers", "sunk", "closes"} \subseteq DOMAIN cl'
    BY <1>1, <1>2 DEF Proceed, ClTypes
  <1>5. Talking(s) /\ ~HeadLine(s) /\ s.do = "close" /\ s.conn = c0 /\ s.try = "guard"
    BY DEF Close, Step, Talking, WellFormed, HeadLine
  <1> HIDE DEF r, s, new
  <1>6. Plan(t) /\ (r.scheme # "https" => NonePlain(t))
    BY <1>3, RequestPlan
  <1> HIDE DEF t
  <1>7. Talk(a) /\ Len(a) = 1 /\ a[1] = s
    BY <1>5, Single
  <1> HIDE DEF a
  <1>8. Plan(u)
    BY <1>5, <1>6, <1>7, TalkFacts, Joined DEF Openers
  <1>9. IsList(a) /\ IsList(t) /\ Len(t) \in Nat
    BY <1>6, <1>7, ListFacts DEF Talk, Plan, Rest, Formed
  <1>10. /\ IsList(u) /\ Len(u) = 1 + Len(t)
         /\ u[1] = s /\ \A i \in 1..Len(t) : u[1 + i] = t[i]
    <2>1. /\ IsList(a \o t) /\ Len(a \o t) = Len(a) + Len(t)
          /\ \A i \in 1..Len(a) : (a \o t)[i] = a[i]
          /\ \A i \in 1..Len(t) : (a \o t)[Len(a) + i] = t[i]
      <3> HIDE DEF u
      <3>1. QED
        BY <1>9, JoinFacts
    <2>2. /\ IsList(u) /\ Len(u) = Len(a) + Len(t)
          /\ \A i \in 1..Len(a) : u[i] = a[i]
          /\ \A i \in 1..Len(t) : u[Len(a) + i] = t[i]
      BY <2>1
    <2> HIDE DEF u
    <2>3. QED
      BY <1>7, <2>2
  <1> HIDE DEF u
  <1>11. /\ First = cl.todo[1] /\ Len(cl.todo) = 1 /\ Tail(cl.todo) = <<>>
    <2>1. /\ First = cl.todo[1] /\ 1 \in 1..Len(cl.todo)
          /\ IsList(Tail(cl.todo)) /\ Len(Tail(cl.todo)) = Len(cl.todo) - 1
          /\ Rest(cl.todo)
      BY <1>2, FirstFacts DEF CInv
    <2>2. Len(cl.todo) = 1
      BY <1>2, <2>1 DEF Rest, HeadLast
    <2>3. Len(Tail(cl.todo)) = 0
      BY <2>1, <2>2
    <2>4. Tail(cl.todo) = <<>>
      BY <2>1, <2>3, ListFacts, Zenon
    <2>5. QED
      BY <2>1, <2>2, <2>4
  <1>12. cl'.todo = u
    <2>1. PICK S : u \in Seq(S)
      BY <1>10 DEF IsList
    <2>2. u \o <<>> = u
      BY <2>1
    <2>3. QED
      BY <1>4, <1>11, <2>2
  <1>13. \A c \in Conns : sock[c].fd = "open" => c = c0
    BY <1>2, <1>11 DEF CInv, Owned, WillClose, c0
  <1>14. \A c : ~Just(c)
    BY <1>2, NothingJust
  <1>15. SockTypes' /\ OpFollows' /\ SocketsClosed' /\ ClTypes'
    <2>1. SockTypes' /\ SocketsClosed'
      BY <1>4 DEF CInv, SockTypes, SocketsClosed
    <2>2. OpFollows'
      BY <1>4 DEF OpFollows, Idle
    <2>3. ClTypes'
      BY <1>3, <1>4 DEF ClTypes, Bodied
    <2>4. QED
      BY <2>1, <2>2, <2>3
  <1>16. Owned'
    <2>1. 1 \in 1..Len(u) /\ WillClose(u[1], c0)
      BY <1>5, <1>9, <1>10 DEF WillClose
    <2>2. QED
      BY <1>4, <1>12, <1>13, <2>1 DEF Owned
  <1>17. Guarded'
    <2>1. Guarded
      BY <1>2 DEF CInv
    <2>2. QED
      BY <1>3, <1>4, <1>14, <2>1 DEF Guarded, Unsecured
  <1>18. PlainUnsecured'
    <2> SUFFICES ASSUME NEW k \in 1..Len(u), u[k].try = "plain"
                 PROVE  /\ r.scheme = "https"
                        /\ \A c \in Conns : sock[c].fd = "open" =>
                             \E j \in 1..(k - 1) : u[j].do = "close" /\ u[j].conn = c
      BY <1>4, <1>12 DEF PlainUnsecured
    <2>1. k # 1
      BY <1>5, <1>10
    <2>2. k - 1 \in 1..Len(t) /\ u[k] = t[k - 1] /\ 1 \in 1..(k - 1)
      <3>1. k - 1 \in 1..Len(t) /\ 1 + (k - 1) = k /\ 1 \in 1..(k - 1)
        BY <1>9, <1>10, <2>1
      <3>2. QED
        BY <1>10, <3>1
    <2>3. r.scheme = "https"
      BY <1>6, <2>2 DEF NonePlain
    <2>4. QED
      BY <1>5, <1>10, <1>13, <2>2, <2>3
  <1>19. Starting'
    BY <1>8, <1>12, FreshStarts
  <1>20. Rest(cl.todo)'
    BY <1>8, <1>12 DEF Plan
  <1>21. QED
    BY <1>4, <1>15, <1>16, <1>17, <1>18, <1>19, <1>20 DEF CInv

-----------------------------------------------------------------------------

LEMMA CInvStep == CInv /\ [Next]_vars => CInv'
  <1> SUFFICES ASSUME CInv, [Next]_vars PROVE CInv'
    OBVIOUS
  <1>1. CASE UNCHANGED vars
    BY <1>1, StutterInv DEF vars
  <1>2. CASE Client
    <2>1. CASE Immediate
      BY <2>1, ImmediateInv
    <2>2. CASE Begin
      BY <2>2, BeginInv
    <2>3. CASE Return
      BY <2>3, ReturnInv
    <2>4. CASE Fail
      BY <2>4, FailInv
    <2>5. CASE Done
      BY <2>5, DoneInv
    <2>6. CASE StatusStart \/ Status \/ HeaderLine
      BY <2>6, StatusStartInv, StatusInv, HeaderLineInv
    <2>7. CASE Continue100 \/ NilCode \/ Trailers
      BY <2>7, Continue100Inv, NilCodeInv, TrailersInv
    <2>8. CASE Redirect
      BY <2>8, RedirectInv
    <2>9. CASE Body \/ ByLength \/ UntilClosed \/ Closed
      BY <2>9, BodyInv, ByLengthInv, UntilClosedInv, ClosedInv
    <2>10. CASE ChunkSize \/ Chunk \/ AfterChunk
      BY <2>10, ChunkSizeInv, ChunkInv, AfterChunkInv
    <2>11. CASE Reply
      BY <2>11, ReplyInv
    <2>12. QED
      BY <1>2, <2>1, <2>2, <2>3, <2>4, <2>5, <2>6, <2>7, <2>8, <2>9, <2>10, <2>11 DEF Client
  <1>3. CASE (Io \/ Clock) /\ cl' = cl
    BY <1>3, OperationInv
  <1>4. CASE (\E c \in Conns : PeerSends(c) \/ Peer(c)) /\ UNCHANGED cl
    <2>1. UNCHANGED <<sock, op, cl>>
      BY <1>4 DEF PeerSends, Peer
    <2>2. QED
      BY <2>1, StutterInv
  <1>5. CASE Resolve /\ cl' = cl
    BY <1>5, ResolveInv
  <1>6. QED
    BY <1>1, <1>2, <1>3, <1>4, <1>5 DEF Next, Process, Time, Environment

\* However a request ends, in a result or in an error that the finalizer of
\* newtry() saw, its sockets are closed (http.lua, smtp.lua, ftp.lua, tp.lua
\* on buffer.c), but for those of an https connection that was never secured.
THEOREM SocketsAreClosed == Spec => []SocketsClosed
  <1>1. CInv => SocketsClosed
    BY DEF CInv
  <1>2. QED
    BY <1>1, CInvInit, CInvStep, PTL DEF Spec

=============================================================================
