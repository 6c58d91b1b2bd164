------------------------------ MODULE TableLayout ------------------------------
(***************************************************************************)
(* A Lua table as ltable.c lays it out: an array, and a hash part of nodes *)
(* in chains (Brent's variation), which rehash() sizes anew when no node   *)
(* is free. Numbers are keys 1, 2, ...; the rest are names. What a key     *)
(* hashes to is given; the value of a key is the key itself.               *)
(*   The program sets and clears fields, or goes through the table with    *)
(* next(), and then only assigns to fields that are there.                 *)
(***************************************************************************)
EXTENDS Integers, FiniteSets, SequencesExt
LOCAL INSTANCE TLC

CONSTANTS
    Number,     \* the keys that are numbers, 1..n
    Key,        \* all keys, tagged <<"number", i>> or <<"name", s>>
    Hash,
    nil

VARIABLE tab    \* [t, contents, at, visited, staying]

isnum(key) == key[1] = "number"
Num(i) == <<"number", i>>

Free == [key |-> nil, val |-> nil, next |-> 0]
IsDummy(t) == t.node = <<>>
NotANode == 0

\* Nodes are numbered from 1.
mainposition(t, key) == (Hash[key] % Len(t.node)) + 1

inarray(t, key) == isnum(key) /\ key[2] \in DOMAIN t.array

RECURSIVE inchain(_, _, _)
inchain(t, n, key) ==
    IF n = NotANode \/ t.node[n].key = key THEN n ELSE inchain(t, t.node[n].next, key)

FindNode(t, key) == IF IsDummy(t) THEN NotANode ELSE inchain(t, mainposition(t, key), key)

luaH_get(t, key) ==
    IF inarray(t, key) THEN t.array[key[2]]
    ELSE LET n == FindNode(t, key) IN IF n = NotANode THEN nil ELSE t.node[n].val

-----------------------------------------------------------------------------
(* Sizes. nums[i] counts the keys in (2^(i-1), 2^i].                       *)

MAXBITS == 3    \* 26 in the code
Slice(lg) == IF lg = 0 THEN {1} ELSE (2^(lg - 1) + 1)..(2^lg)

ArrayKeys(t) == {i \in DOMAIN t.array : t.array[i] # nil}
HashKeys(t) == {t.node[n].key : n \in {m \in DOMAIN t.node : t.node[m].val # nil}}

numuse(t, key) ==
    LET ints == ArrayKeys(t) \cup {k[2] : k \in {h \in HashKeys(t) \cup {key} : isnum(h)}}
    IN [lg \in 0..MAXBITS |-> Cardinality(ints \cap Slice(lg))]

Below(nums, lg) == FoldLeft(LAMBDA a, i : a + nums[i - 1], 0, [i \in 1..(lg + 1) |-> i])

\* The largest power of which more than a half would be used.
computesizes(nums) ==
    LET fits == {lg \in 0..MAXBITS : nums[lg] > 0 /\ Below(nums, lg) > 2^lg \div 2}
    IN IF fits = {} THEN [size |-> 0, used |-> 0]
       ELSE [size |-> 2^Max(fits), used |-> Below(nums, Max(fits))]

ceillog2(n) == CHOOSE lg \in 0..MAXBITS : n <= 2^lg /\ (lg = 0 \/ n > 2^(lg - 1))

setnodevector(t, size) ==
    LET length == IF size = 0 THEN 0 ELSE 2^ceillog2(size)
    IN [t EXCEPT !.node = [n \in 1..length |-> Free], !.lastfree = length + 1]

-----------------------------------------------------------------------------
RECURSIVE getfreepos(_)
getfreepos(t) ==
    IF t.lastfree <= 1 THEN [t |-> t, n |-> NotANode]
    ELSE LET down == [t EXCEPT !.lastfree = @ - 1]
         IN IF down.node[down.lastfree].key = nil THEN [t |-> down, n |-> down.lastfree]
            ELSE getfreepos(down)

RECURSIVE previous(_, _, _)
previous(t, n, mp) == IF t.node[n].next = mp THEN n ELSE previous(t, t.node[n].next, mp)

\* Mutant: the node that is moved stays in its chain as well.
movecollidingUnlinked(t, mp, n, key) ==
    [t EXCEPT !.node[n] = t.node[mp],
              !.node[mp] = [key |-> key, val |-> nil, next |-> 0]]

\* The colliding node leaves for n, and its chain follows it.
movecolliding(t, mp, n, key) ==
    LET before == previous(t, mainposition(t, t.node[mp].key), mp)
    IN [t EXCEPT !.node[before].next = n,
                 !.node[n] = t.node[mp],
                 !.node[mp] = [key |-> key, val |-> nil, next |-> 0]]

chainnew(t, mp, n, key) ==
    [t EXCEPT !.node[n] = [key |-> key, val |-> nil, next |-> t.node[mp].next],
              !.node[mp].next = n]

RECURSIVE Set(_, _, _), newkey(_, _), reinsert(_, _), rehash(_, _)

newkey(t, key) ==
    LET free == getfreepos(t)
        mp == mainposition(t, key)
    IN IF ~IsDummy(t) /\ t.node[mp].val = nil THEN [t EXCEPT !.node[mp].key = key]
       ELSE IF free.n = NotANode THEN Set(rehash(free.t, key), key, nil)
       ELSE IF mainposition(t, t.node[mp].key) # mp THEN movecolliding(free.t, mp, free.n, key)
       ELSE chainnew(free.t, mp, free.n, key)

\* luaH_set(), and the assignment to the place it finds or makes.
Set(t, key, val) ==
    LET made == IF inarray(t, key) \/ FindNode(t, key) # NotANode THEN t ELSE newkey(t, key)
    IN IF inarray(made, key) THEN [made EXCEPT !.array[key[2]] = val]
       ELSE [made EXCEPT !.node[FindNode(made, key)].val = val]

reinsert(t, keys) == FoldLeft(LAMBDA s, key : Set(s, key, key), t, keys)

resize(t, nasize, nhsize) ==
    LET kept == IF nasize < Len(t.array) THEN nasize ELSE Len(t.array)
        array == [i \in 1..nasize |-> IF i <= kept THEN t.array[i] ELSE nil]
        vanishing == SelectSeq(SubSeq(t.array, kept + 1, Len(t.array)), LAMBDA v : v # nil)
        old == SelectSeq(Reverse([n \in DOMAIN t.node |-> t.node[n].val]), LAMBDA v : v # nil)
    IN reinsert(setnodevector([t EXCEPT !.array = array], nhsize), vanishing \o old)

rehash(t, key) ==
    LET sizes == computesizes(numuse(t, key))
        total == Cardinality(ArrayKeys(t)) + Cardinality(HashKeys(t)) + 1
    IN resize(t, sizes.size, total - sizes.used)

luaH_new == setnodevector([array |-> <<>>, node |-> <<>>, lastfree |-> 1], 0)

-----------------------------------------------------------------------------
(* Traversal and length.                                                   *)

findindex(t, key) ==
    IF key = nil THEN 0 ELSE IF inarray(t, key) THEN key[2] ELSE Len(t.array) + FindNode(t, key)

\* The next key, or nil.
luaH_next(t, key) ==
    LET values == t.array \o [n \in DOMAIN t.node |-> t.node[n].val]
        left == {i \in DOMAIN values : i > findindex(t, key) /\ values[i] # nil}
    IN IF left = {} THEN nil
       ELSE IF Min(left) <= Len(t.array) THEN Num(Min(left))
       ELSE t.node[Min(left) - Len(t.array)].key

RECURSIVE binary(_, _, _), unbound_search(_, _, _)
binary(t, i, j) ==
    IF j - i <= 1 THEN i
    ELSE LET m == (i + j) \div 2
         IN IF luaH_get(t, Num(m)) = nil THEN binary(t, i, m) ELSE binary(t, m, j)

unbound_search(t, i, j) ==
    IF Num(j) \in Key /\ luaH_get(t, Num(j)) # nil THEN unbound_search(t, j, 2 * j)
    ELSE IF j - i <= 1 THEN i
    ELSE LET m == (i + j) \div 2
         IN IF Num(m) \in Key /\ luaH_get(t, Num(m)) # nil THEN binary(t, m, j) ELSE binary(t, i, m)

luaH_getn(t) ==
    LET j == Len(t.array)
    IN IF j > 0 /\ t.array[j] = nil THEN binary(t, 0, j)
       ELSE IF IsDummy(t) THEN j
       ELSE unbound_search(t, j, j + 1)

-----------------------------------------------------------------------------
TableInit ==
    tab = [t |-> luaH_new, contents |-> {}, at |-> nil, going |-> FALSE,
           visited |-> <<>>, staying |-> {}]

SetField(key) ==
    /\ ~tab.going
    /\ tab' = [tab EXCEPT !.t = Set(@, key, key), !.contents = @ \cup {key}]

\* Also of a field that is not there, which makes a node for it.
ClearField(key) ==
    /\ ~tab.going \/ key \in tab.contents
    /\ tab' = [tab EXCEPT !.t = Set(@, key, nil), !.contents = @ \ {key}, !.staying = @ \ {key}]

next ==
    LET key == luaH_next(tab.t, tab.at)
    IN tab' = IF key = nil THEN [tab EXCEPT !.going = FALSE, !.at = nil, !.visited = <<>>, !.staying = {}]
              ELSE [tab EXCEPT !.at = key, !.going = TRUE, !.visited = Append(@, key),
                               !.staying = IF tab.going THEN @ ELSE tab.contents]

TableNext == next \/ \E key \in Key : SetField(key) \/ ClearField(key)

-----------------------------------------------------------------------------
\* A table gives back what was assigned last, through collisions, moved nodes,
\* dead nodes and rehashes (ltable.c:398); its length is a boundary; and a
\* traversal meets every field that stays exactly once, although fields are
\* cleared on the way.
TablesAreMaps ==
    LET n == luaH_getn(tab.t)
    IN /\ \A key \in Key : luaH_get(tab.t, key) = IF key \in tab.contents THEN key ELSE nil
       /\ n = 0 \/ Num(n) \in tab.contents
       /\ Num(n + 1) \notin tab.contents
       /\ IsInjective(tab.visited)
       /\ tab.going /\ luaH_next(tab.t, tab.at) = nil => tab.staying \subseteq ToSet(tab.visited)

-----------------------------------------------------------------------------
(* ltablib.c: what the functions of the table library do to a table, here  *)
(* a function of its integer keys. A comparison of table.sort is any       *)
(* relation lt, which may hold of nil too.                                 *)

TableOf(seq) == [i \in DOMAIN seq |-> seq[i]]

rawgeti(t, i) == IF i \in DOMAIN t THEN t[i] ELSE nil
rawseti(t, i, v) ==
    IF v = nil THEN [k \in DOMAIN t \ {i} |-> t[k]] ELSE (i :> v) @@ t

\* The border the table was given by appending; see TableLayout for the others.
aux_getn(t) ==
    CHOOSE n \in 0..Cardinality(DOMAIN t) : 1..n \subseteq DOMAIN t /\ n + 1 \notin DOMAIN t

maxn(t) == Max({0} \cup DOMAIN t)

foreachi(t, stop) ==
    LET hits == {i \in 1..aux_getn(t) : t[i] \in stop} IN IF hits = {} THEN nil ELSE Min(hits)

tinsert(t, at, v) ==
    LET e == IF at > aux_getn(t) + 1 THEN at ELSE aux_getn(t) + 1
        moved == FoldLeft(LAMBDA u, k : rawseti(u, e + 1 - k, rawgeti(u, e - k)), t,
                          [k \in 1..(e - at) |-> k])
    IN rawseti(moved, at, v)

tremove(t, at) ==
    LET e == aux_getn(t)
        moved == FoldLeft(LAMBDA u, i : rawseti(u, at + i - 1, rawgeti(u, at + i)), t,
                          [i \in 1..(e - at) |-> i])
    IN IF at \notin 1..e THEN [table |-> t, value |-> nil]
       ELSE [table |-> rawseti(moved, e, nil), value |-> t[at]]

\* nil when some element is not a string.
tconcat(t, sep, first, last) ==
    IF \E i \in first..last : rawgeti(t, i) = nil THEN nil
    ELSE FlattenSeq([i \in 1..(last - first + 1) |->
             <<t[first + i - 1]>> \o (IF first + i - 1 < last THEN sep ELSE <<>>)])

-----------------------------------------------------------------------------
(* The quicksort.                                                          *)

Raised == -100    \* "invalid order function for sorting"
sort_comp(lt, a, b) == <<a, b>> \in lt
set2(t, i, j) == rawseti(rawseti(t, i, rawgeti(t, j)), j, rawgeti(t, i))

\* a[l], a[(l+u)/2] and a[u] in order.
median(t, lt, l, u) ==
    LET a == IF sort_comp(lt, rawgeti(t, u), rawgeti(t, l)) THEN set2(t, l, u) ELSE t
        i == (l + u) \div 2
    IN IF u - l = 1 THEN a
       ELSE IF sort_comp(lt, rawgeti(a, i), rawgeti(a, l)) THEN set2(a, i, l)
       ELSE IF sort_comp(lt, rawgeti(a, u), rawgeti(a, i)) THEN set2(a, i, u) ELSE a

RECURSIVE rise(_, _, _, _, _), fall(_, _, _, _, _), partition(_, _, _, _, _, _, _)
rise(t, lt, p, i, u) ==
    IF ~sort_comp(lt, rawgeti(t, i + 1), p) THEN i + 1
    ELSE IF i + 1 > u THEN Raised ELSE rise(t, lt, p, i + 1, u)

fall(t, lt, p, j, l) ==
    IF ~sort_comp(lt, p, rawgeti(t, j - 1)) THEN j - 1
    ELSE IF j - 1 < l THEN Raised ELSE fall(t, lt, p, j - 1, l)

\* a[l..i] <= p <= a[j..u]; at is where the pivot belongs.
partition(t, lt, p, i, j, l, u) ==
    LET up == rise(t, lt, p, i, u)
        down == fall(t, lt, p, j, l)
    IN IF up = Raised \/ down = Raised THEN [t |-> t, at |-> Raised]
       ELSE IF down < up THEN [t |-> t, at |-> up]
       ELSE partition(set2(t, up, down), lt, p, up, down, l, u)

RECURSIVE auxsort(_, _, _, _)
auxsort(t, lt, l, u) ==
    IF l >= u THEN [t |-> t, at |-> l]
    ELSE LET m == median(t, lt, l, u)
             mid == (l + u) \div 2
             cut == partition(set2(m, mid, u - 1), lt, rawgeti(m, mid), l, u - 1, l, u)
             i == cut.at
             placed == set2(cut.t, u - 1, i)
             small == IF i - l < u - i THEN <<l, i - 1>> ELSE <<i + 1, u>>
             large == IF i - l < u - i THEN <<i + 1, u>> ELSE <<l, i - 1>>
             one == auxsort(placed, lt, small[1], small[2])
         IN IF u - l <= 2 THEN [t |-> m, at |-> l]
            ELSE IF i = Raised THEN cut
            ELSE IF one.at = Raised THEN one
            ELSE auxsort(one.t, lt, large[1], large[2])

sort(t, lt) == auxsort(t, lt, 1, aux_getn(t))

-----------------------------------------------------------------------------
Ordered(lt, values) ==
    /\ \A a \in values : <<a, a>> \notin lt
    /\ \A a, b, c \in values :
         /\ <<a, b>> \in lt /\ <<b, c>> \in lt => <<a, c>> \in lt
         /\ <<a, b>> \in lt => <<a, c>> \in lt \/ <<c, b>> \in lt
    /\ \A a \in values : <<nil, a>> \notin lt /\ <<a, nil>> \notin lt

Holding(t, v) == Cardinality({i \in DOMAIN t : t[i] = v})

\* table.sort loses no value, whatever the comparison (ltablib.c:188), and
\* sorts by every comparison that is a strict weak order, without an error.
SortsAsMeant(seq, lt) ==
    LET r == sort(TableOf(seq), lt)
    IN /\ \A v \in ToSet(seq) : Holding(r.t, v) = Holding(TableOf(seq), v)
       /\ Ordered(lt, ToSet(seq)) =>
            /\ r.at # Raised
            /\ DOMAIN r.t = DOMAIN seq
            /\ \A i, j \in DOMAIN seq : i < j => <<r.t[j], r.t[i]>> \notin lt

\* insert() and remove() keep the order of what they do not touch; a position
\* outside of the sequence is not one of them.
MovesAsMeant(seq, at, v) ==
    /\ at \in 1..(Len(seq) + 1) => tinsert(TableOf(seq), at, v) = TableOf(InsertAt(seq, at, v))
    /\ at \in DOMAIN seq =>
         tremove(TableOf(seq), at) = [table |-> TableOf(RemoveAt(seq, at)), value |-> seq[at]]
    /\ at \notin DOMAIN seq => tremove(TableOf(seq), at).table = TableOf(seq)
    /\ at > 0 => tconcat(TableOf(seq), <<v>>, at, Len(seq))
                   = FlattenSeq([i \in 1..(Len(seq) - at + 1) |->
                        IF i = 1 THEN <<seq[at]>> ELSE <<v, seq[at + i - 1]>>])
    /\ maxn(TableOf(seq)) = Len(seq)
    /\ foreachi(TableOf(seq), {v}) = (IF v \in ToSet(seq)
          THEN CHOOSE i \in DOMAIN seq : seq[i] = v /\ \A j \in 1..(i - 1) : seq[j] # v ELSE nil)
=============================================================================
