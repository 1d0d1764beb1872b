--------------------------- MODULE DashboardProofs ---------------------------
(* What holds of the dashboard for any number of workspaces, names, drops,  *)
(* failed dials and keys.                                                   *)
EXTENDS DashboardProps, SequenceTheorems, FiniteSetTheorems, TLAPS

-----------------------------------------------------------------------------
(* Sequences and sets. *)

LEMMA RemoveAtProperties ==
  ASSUME NEW S, NEW q \in Seq(S), NEW i \in DOMAIN q
  PROVE  /\ RemoveAt(q, i) \in Seq(S)
         /\ Len(RemoveAt(q, i)) = Len(q) - 1
         /\ \A k \in 1 .. Len(q) - 1 :
              RemoveAt(q, i)[k] = IF k < i THEN q[k] ELSE q[k + 1]
<1>1. Len(q) \in Nat /\ i \in 1..Len(q) /\ \A k \in 1..Len(q) : q[k] \in S
  OBVIOUS
<1> DEFINE a == SubSeq(q, 1, i - 1)
           b == SubSeq(q, i + 1, Len(q))
<1>2. /\ a \in Seq(S) /\ Len(a) = i - 1
      /\ \A k \in 1..(i - 1) : a[k] = q[k]
  <2>1. 1 \in Int /\ i - 1 \in Int /\ \A k \in 1..(i - 1) : q[k] \in S
    BY <1>1
  <2>2. /\ a \in Seq(S)
        /\ Len(a) = IF 1 <= i - 1 THEN (i - 1) - 1 + 1 ELSE 0
        /\ \A k \in 1..((i - 1) - 1 + 1) : a[k] = q[1 + k - 1]
    BY <2>1, SubSeqProperties, SMTT(20)
  <2> QED  BY <1>1, <2>2
<1>3. /\ b \in Seq(S) /\ Len(b) = Len(q) - i
      /\ \A k \in 1..(Len(q) - i) : b[k] = q[i + k]
  <2>1. i + 1 \in Int /\ Len(q) \in Int /\ \A k \in (i + 1)..Len(q) : q[k] \in S
    BY <1>1
  <2>2. /\ b \in Seq(S)
        /\ Len(b) = IF i + 1 <= Len(q) THEN Len(q) - (i + 1) + 1 ELSE 0
        /\ \A k \in 1..(Len(q) - (i + 1) + 1) : b[k] = q[(i + 1) + k - 1]
    BY <2>1, SubSeqProperties, SMTT(20)
  <2> QED  BY <1>1, <2>2
<1>4. RemoveAt(q, i) = a \o b
  BY DEF RemoveAt
<1> HIDE DEF a, b
<1>5. /\ a \o b \in Seq(S)
      /\ Len(a \o b) = Len(a) + Len(b)
      /\ \A k \in 1..(Len(a) + Len(b)) :
           (a \o b)[k] = IF k <= Len(a) THEN a[k] ELSE b[k - Len(a)]
  <2>1. a \in Seq(S) /\ b \in Seq(S)
    BY <1>2, <1>3
  <2> QED  BY ONLY <2>1, ConcatProperties
<1> DEFINE d == a \o b
<1>6. Len(a) + Len(b) = Len(q) - 1
  BY <1>1, <1>2, <1>3
<1>7. d \in Seq(S) /\ Len(d) = Len(q) - 1
  BY <1>5, <1>6
<1>8. ASSUME NEW k \in 1..(Len(q) - 1)
      PROVE  d[k] = IF k < i THEN q[k] ELSE q[k + 1]
  <2>1. d[k] = IF k <= Len(a) THEN a[k] ELSE b[k - Len(a)]
    BY <1>5, <1>6
  <2>2. CASE k < i
    <3>1. k <= Len(a) /\ k \in 1..(i - 1)
      BY <1>1, <1>2, <2>2
    <3> QED  BY <1>2, <2>1, <2>2, <3>1
  <2>3. CASE ~(k < i)
    <3>1. ~(k <= Len(a)) /\ k - Len(a) = k + 1 - i /\ k + 1 - i \in 1..(Len(q) - i)
      BY <1>1, <1>2, <2>3
    <3>2. d[k] = b[k + 1 - i]
      BY <2>1, <3>1
    <3>3. b[k + 1 - i] = q[i + (k + 1 - i)]
      BY <1>3, <3>1
    <3>4. i + (k + 1 - i) = k + 1
      BY <1>1
    <3> QED  BY <2>3, <3>2, <3>3, <3>4
  <2> QED  BY <2>2, <2>3
<1> HIDE DEF d
<1> QED
  BY <1>4, <1>7, <1>8 DEF d

(* A set of numbers has a member of every rank. *)
LEMMA EveryRank ==
  ASSUME NEW V \in SUBSET Nat, IsFiniteSet(V), NEW n \in Nat, n < Cardinality(V)
  PROVE  \E k \in V : Cardinality({j \in V : j < k}) = n
<1> DEFINE below(k) == {j \in V : j < k}
           R == 0 .. (Cardinality(V) - 1)
           rank == [k \in V |-> Cardinality(below(k))]
<1> SUFFICES ASSUME \A k \in V : rank[k] # n  PROVE FALSE
  OBVIOUS
<1>1. Cardinality(V) \in Nat
  BY FS_CardinalityType
<1>2. \A k \in V : IsFiniteSet(below(k)) /\ Cardinality(below(k)) \in Nat
  BY FS_Subset, FS_CardinalityType
<1>3. ASSUME NEW k \in V, NEW S \in SUBSET V, below(k) \cup {k} \subseteq S
      PROVE  Cardinality(below(k)) < Cardinality(S)
  <2>1. k \notin below(k)
    OBVIOUS
  <2>2. /\ IsFiniteSet(below(k) \cup {k})
        /\ Cardinality(below(k) \cup {k}) = Cardinality(below(k)) + 1
    BY <1>2, <2>1, FS_AddElement
  <2>3. IsFiniteSet(S) /\ Cardinality(S) \in Nat
    BY FS_Subset, FS_CardinalityType
  <2>4. Cardinality(below(k) \cup {k}) <= Cardinality(S)
    BY <1>3, <2>3, FS_Subset
  <2> QED  BY <1>2, <2>2, <2>3, <2>4
<1>4. rank \in [V -> R \ {n}]
  <2>1. ASSUME NEW k \in V  PROVE Cardinality(below(k)) \in R
    <3>1. below(k) \cup {k} \subseteq V
      OBVIOUS
    <3>2. Cardinality(below(k)) < Cardinality(V)
      BY <1>3, <3>1
    <3> QED  BY <1>1, <1>2, <3>2
  <2> QED  BY <2>1
<1>5. IsFiniteSet(R \ {n}) /\ Cardinality(R \ {n}) < Cardinality(V)
  <2>1. 0 \in Int /\ Cardinality(V) - 1 \in Int /\ n \in R
    BY <1>1
  <2>2. IsFiniteSet(R) /\ Cardinality(R) = Cardinality(V)
    BY <1>1, <2>1, FS_Interval
  <2>3. IsFiniteSet(R \ {n}) /\ Cardinality(R \ {n}) = Cardinality(R) - 1
    BY <2>1, <2>2, FS_RemoveElement
  <2> QED  BY <1>1, <2>2, <2>3
<1> HIDE DEF below, R, rank
<1> DEFINE T == R \ {n}
<1>6. PICK k \in V, l \in V : k # l /\ rank[k] = rank[l]
  <2>1. IsFiniteSet(V) /\ IsFiniteSet(T) /\ Cardinality(T) < Cardinality(V) /\ rank \in [V -> T]
    BY <1>4, <1>5
  <2> HIDE DEF T
  <2> QED  BY ONLY <2>1, FS_PigeonHole
<1>7. PICK k1 \in V, l1 \in V : k1 < l1 /\ rank[k1] = rank[l1]
  <2>1. k \in Nat /\ l \in Nat /\ (k < l \/ l < k)
    BY <1>6
  <2> QED  BY <1>6, <2>1
<1>8. below(k1) \cup {k1} \subseteq below(l1) /\ below(l1) \subseteq V
  <2>1. k1 \in Nat /\ l1 \in Nat /\ \A j \in V : j \in Nat
    OBVIOUS
  <2>2. \A j \in V : j < k1 => j < l1
    BY <1>7, <2>1
  <2> QED  BY <1>7, <2>2 DEF below
<1>9. Cardinality(below(k1)) < Cardinality(below(l1))
  BY <1>3, <1>8
<1> QED
  BY <1>2, <1>7, <1>9 DEF rank

(* The sorted list of a set has each of its members once. *)
LEMMA OrdersProperties ==
  ASSUME NEW S, IsFiniteSet(S), NEW r \in Orders(S)
  PROVE  /\ r \in Seq(S) /\ Sorted(r)
         /\ \A i, j \in DOMAIN r : r[i] = r[j] => i = j
         /\ \A x \in S : \E i \in DOMAIN r : r[i] = x
<1> DEFINE n == Cardinality(S)
<1>1. n \in Nat
  BY FS_CardinalityType
<1>2. /\ r \in [1 .. n -> S] /\ Sorted(r)
      /\ \A i, j \in 1 .. n : i # j => r[i] # r[j]
  BY DEF Orders, SetToSeqs
<1>3. r \in Seq(S) /\ DOMAIN r = 1 .. n
  BY <1>1, <1>2
<1>4. ASSUME NEW x \in S, \A i \in 1 .. n : r[i] # x  PROVE FALSE
  <2>1. r \in [1 .. n -> S \ {x}]
    BY <1>2, <1>4
  <2>2. IsFiniteSet(S \ {x}) /\ Cardinality(S \ {x}) = n - 1
    BY FS_RemoveElement
  <2>3. IsFiniteSet(1 .. n) /\ Cardinality(1 .. n) = n
    BY <1>1, FS_Interval
  <2>4. Cardinality(S \ {x}) < Cardinality(1 .. n)
    BY <1>1, <2>2, <2>3
  <2> HIDE DEF n
  <2>5. PICK i \in 1 .. n, j \in 1 .. n : i # j /\ r[i] = r[j]
    BY <2>1, <2>2, <2>3, <2>4, FS_PigeonHole
  <2> QED  BY <1>2, <2>5
<1> QED
  BY <1>2, <1>3, <1>4

-----------------------------------------------------------------------------
(* The invariant, a part for each group of variables.  The list is the one *)
(* that needs more than it promises: the answer of a list request waits    *)
(* beside the loop before it becomes the rows, so it must name a workspace *)
(* once as well.                                                           *)
Unique(r) == \A j, k \in DOMAIN r : r[j].id = r[k].id => j = k

OnARow(n, r, f) == n = 0 \/ n < Cardinality(Filtered(r, f))

SocketInv  == SocketTypes /\ OneSocket
ListInv    == ListTypes /\ OneLineEach /\ CursorOnARow
AnswersInv ==
  /\ RequestTypes
  /\ \A s \in Slots : /\ IsFiniteSet(fetch[s].list)
                      /\ \A x, y \in fetch[s].list : x.id = y.id => x = y

IInv == PlatformTypes /\ SocketInv /\ ListInv /\ AnswersInv

LEMMA Untouched ==
  /\ PlatformTypes /\ UNCHANGED platform => PlatformTypes'
  /\ SocketInv /\ UNCHANGED <<socket, wsVars>> => SocketInv'
  /\ ListInv /\ UNCHANGED <<listVars, keyVars>> => ListInv'
  /\ AnswersInv /\ UNCHANGED httpVars => AnswersInv'
<1>1. ASSUME PlatformTypes, UNCHANGED platform  PROVE PlatformTypes'
  BY <1>1 DEF PlatformTypes, platform
<1>2. ASSUME SocketInv, UNCHANGED <<socket, wsVars>>  PROVE SocketInv'
  BY <1>2 DEF SocketInv, SocketTypes, OneSocket, socket, wsVars
<1>3. ASSUME ListInv, UNCHANGED <<listVars, keyVars>>  PROVE ListInv'
  BY <1>3 DEF ListInv, ListTypes, OneLineEach, CursorOnARow, Sorted, Filtered, listVars, keyVars
<1>4. ASSUME AnswersInv, UNCHANGED httpVars  PROVE AnswersInv'
  BY <1>4 DEF AnswersInv, RequestTypes, httpVars
<1> QED
  BY <1>1, <1>2, <1>3, <1>4

-----------------------------------------------------------------------------
(* The list and its cursor. *)

LEMMA FilteredIsFinite ==
  ASSUME NEW r \in Seq(Row), NEW f
  PROVE  IsFiniteSet(Filtered(r, f)) /\ Cardinality(Filtered(r, f)) \in Nat
<1>1. Filtered(r, f) \subseteq 1 .. Len(r) /\ 1 \in Int /\ Len(r) \in Int
  BY DEF Filtered
<1>2. IsFiniteSet(1 .. Len(r))
  BY <1>1, FS_Interval
<1> QED
  BY <1>1, <1>2, FS_Subset, FS_CardinalityType

LEMMA ClampProperties ==
  ASSUME selected \in Nat, NEW r \in Seq(Row), NEW f
  PROVE  Clamp(r, f) \in Nat /\ OnARow(Clamp(r, f), r, f)
<1>1. Cardinality(Filtered(r, f)) \in Nat
  BY FilteredIsFinite
<1> QED
  BY <1>1 DEF Clamp, OnARow

LEMMA WithoutProperties ==
  ASSUME NEW r \in Seq(Row), Sorted(r), Unique(r), NEW i
  PROVE  Without(r, i) \in Seq(Row) /\ Sorted(Without(r, i)) /\ Unique(Without(r, i))
<1>1. CASE Lines(r, i) = {}
  BY <1>1 DEF Without
<1>2. CASE Lines(r, i) # {}
  <2> DEFINE p == CHOOSE k \in Lines(r, i) : \A j \in Lines(r, i) : k <= j
             q == Without(r, i)
  <2>1. \E k \in Lines(r, i) : \A j \in Lines(r, i) : k <= j
    <3>1. PICK k \in Lines(r, i) : TRUE
      BY <1>2
    <3>2. \A j \in Lines(r, i) : j = k
      BY <3>1 DEF Lines, Unique
    <3>3. k \in Nat
      BY DEF Lines
    <3> QED  BY <3>2, <3>3
  <2>2. p \in DOMAIN r
    BY <2>1 DEF Lines
  <2>3. q = RemoveAt(r, p)
    BY <1>2 DEF Without
  <2> HIDE DEF p, q
  <2>4. /\ q \in Seq(Row) /\ Len(q) = Len(r) - 1
        /\ \A k \in 1 .. Len(r) - 1 : q[k] = IF k < p THEN r[k] ELSE r[k + 1]
    BY <2>2, <2>3, RemoveAtProperties
  <2> DEFINE o(k) == IF k < p THEN k ELSE k + 1
  <2>5. /\ Len(r) \in Nat /\ DOMAIN r = 1 .. Len(r) /\ DOMAIN q = 1 .. Len(r) - 1
        /\ p \in 1 .. Len(r)
    BY <2>2, <2>4
  <2>6. \A k \in DOMAIN q : o(k) \in DOMAIN r /\ q[k] = r[o(k)]
    <3>1. \A k \in DOMAIN q : o(k) \in 1 .. Len(r)
      BY <2>5
    <3>2. \A k \in DOMAIN q : q[k] = r[o(k)]
      BY <2>4, <2>5
    <3> QED  BY <2>5, <3>1, <3>2
  <2>7. \A j, k \in DOMAIN q : /\ o(j) = o(k) => j = k
                               /\ j < k => o(j) < o(k)
    BY <2>5
  <2> HIDE DEF o
  <2>8. ASSUME NEW j \in DOMAIN q, NEW k \in DOMAIN q, j < k
        PROVE  q[j].name <= q[k].name
    <3>1. o(j) \in DOMAIN r /\ o(k) \in DOMAIN r /\ o(j) < o(k)
      BY <2>6, <2>7, <2>8
    <3>2. r[o(j)].name <= r[o(k)].name
      BY <3>1 DEF Sorted
    <3> QED  BY <2>6, <3>2
  <2>9. ASSUME NEW j \in DOMAIN q, NEW k \in DOMAIN q, q[j].id = q[k].id
        PROVE  j = k
    <3>1. o(j) \in DOMAIN r /\ o(k) \in DOMAIN r /\ r[o(j)].id = r[o(k)].id
      BY <2>6, <2>9
    <3>2. o(j) = o(k)
      BY <3>1 DEF Unique
    <3> QED  BY <2>7, <3>2
  <2>10. Sorted(q) /\ Unique(q)
    BY <2>8, <2>9 DEF Sorted, Unique
  <2> QED  BY <2>4, <2>10 DEF q
<1> QED
  BY <1>1, <1>2

(* The sorted list of a set that names a workspace once. *)
LEMMA OrdersMakeLists ==
  ASSUME NEW S \in SUBSET Row, IsFiniteSet(S), \A x, y \in S : x.id = y.id => x = y,
         NEW r \in Orders(S)
  PROVE  r \in Seq(Row) /\ Sorted(r) /\ Unique(r)
<1>1. /\ r \in Seq(S) /\ Sorted(r)
      /\ \A i, j \in DOMAIN r : r[i] = r[j] => i = j
  BY OrdersProperties
<1>2. r \in Seq(Row) /\ \A i \in DOMAIN r : r[i] \in S
  BY <1>1
<1> QED
  BY <1>1, <1>2 DEF Unique

(* A line that is added hides none: with what was shown before the filter  *)
(* shows as much as before, at least.                                      *)
LEMMA AddedHidesNone ==
  ASSUME NEW r \in Seq(Row), Unique(r), NEW q \in Seq(Row), NEW f,
         \A x \in Range(r) : \E k \in DOMAIN q : q[k] = x
  PROVE  Cardinality(Filtered(r, f)) <= Cardinality(Filtered(q, f))
<1> DEFINE at(j) == CHOOSE k \in DOMAIN q : q[k] = r[j]
           V == Filtered(r, f)
           W == Filtered(q, f)
           g == [j \in V |-> at(j)]
<1>1. \A j \in V : j \in DOMAIN r /\ r[j].name \in f
  BY DEF Filtered
<1>2. \A j \in V : at(j) \in DOMAIN q /\ q[at(j)] = r[j]
  BY <1>1 DEF Range
<1>3. \A j \in V : at(j) \in W
  BY <1>1, <1>2 DEF Filtered
<1>4. \A i, j \in V : at(i) = at(j) => i = j
  BY <1>1, <1>2 DEF Unique
<1>5. IsFiniteSet(W)
  BY FilteredIsFinite
<1> HIDE DEF at, V, W
<1>6. g \in Injection(V, W)
  BY <1>3, <1>4 DEF Injection, IsInjective
<1> HIDE DEF g
<1>7. Cardinality(V) <= Cardinality(W)
  BY <1>5, <1>6, FS_Injection
<1> QED
  BY <1>7 DEF V, W

(* What an event does to the list. *)
LEMMA EventKeepsList ==
  ASSUME ListInv, NEW e \in Event, ApplyEvent(e), UNCHANGED keyVars
  PROVE  ListInv'
<1>1. /\ rows \in Seq(Row) /\ Sorted(rows) /\ Unique(rows)
      /\ selected \in Nat /\ OnARow(selected, rows, filter)
      /\ filter \in {Anything, Found} /\ mode \in {"list", "confirm", "spawn", "edit", "filter"}
      /\ filter' = filter /\ mode' = mode
  BY DEF ListInv, ListTypes, OneLineEach, Unique, CursorOnARow, OnARow, keyVars
<1> SUFFICES /\ rows' \in Seq(Row) /\ Sorted(rows') /\ Unique(rows')
             /\ selected' \in Nat /\ OnARow(selected', rows', filter)
  BY <1>1 DEF ListInv, ListTypes, OneLineEach, Unique, CursorOnARow, OnARow, Sorted, Filtered
<1>2. \A k \in DOMAIN rows : rows[k] \in Row
  BY <1>1
<1>3. CASE e.event = "removed" /\ e.id \in Shown
  <2>1. rows' = Without(rows, e.id) /\ selected' = Clamp(Without(rows, e.id), filter)
    BY <1>3 DEF ApplyEvent, ClampOnRemove
  <2> QED  BY <1>1, <2>1, WithoutProperties, ClampProperties
<1>4. CASE e.event \in {"provisioning", "online"} /\ e.id \notin Shown
  <2> DEFINE new == [id |-> e.id, status |-> e.event,
                     name |-> IF e.event = "provisioning" THEN e.name ELSE Unnamed]
             S == Range(rows) \cup {new}
  <2>1. rows' \in Orders(S) /\ selected' = selected
    BY <1>4 DEF ApplyEvent
  <2>2. new \in Row
    <3>1. e.id \in Ids /\ e.event \in Statuses \cup {"removed"} /\ e.name \in Names
      BY DEF Event
    <3>2. e.event # "removed"
      BY <1>4
    <3> QED  BY <3>1, <3>2 DEF Row, Anything
  <2>3. S \subseteq Row
    BY <1>2, <2>2 DEF Range
  <2>4. IsFiniteSet(S)
    <3>1. IsFiniteSet(DOMAIN rows)
      BY <1>1, FS_Interval
    <3>2. rows \in Surjection(DOMAIN rows, Range(rows))
      BY <1>1 DEF Range, Surjection
    <3>3. IsFiniteSet(Range(rows))
      BY <3>1, <3>2, FS_Surjection
    <3> HIDE DEF new
    <3> QED  BY <3>3, FS_AddElement
  <2>5. \A x \in Range(rows) : x.id \in Shown /\ x.id # new.id
    BY <1>4 DEF Range, Shown
  <2>6. \A x, y \in S : x.id = y.id => x = y
    BY <1>1, <2>5 DEF Range, Unique
  <2> HIDE DEF S, new
  <2>7. rows' \in Seq(Row) /\ Sorted(rows') /\ Unique(rows')
    BY <2>1, <2>3, <2>4, <2>6, OrdersMakeLists
  <2>8. \A x \in Range(rows) : \E k \in DOMAIN rows' : rows'[k] = x
    BY <2>1, <2>4, OrdersProperties DEF S
  <2>9. Cardinality(Filtered(rows, filter)) <= Cardinality(Filtered(rows', filter))
    BY <1>1, <2>7, <2>8, AddedHidesNone
  <2>10. /\ Cardinality(Filtered(rows, filter)) \in Nat
         /\ Cardinality(Filtered(rows', filter)) \in Nat
    BY <1>1, <2>7, FilteredIsFinite
  <2> QED  BY <1>1, <2>1, <2>7, <2>9, <2>10 DEF OnARow
<1>5. CASE /\ e.event \in {"online", "offline"} /\ e.id \in Shown
           /\ rows' = [k \in DOMAIN rows |-> IF rows[k].id = e.id
                         THEN [rows[k] EXCEPT !.status = e.event] ELSE rows[k]]
           /\ UNCHANGED selected
  <2>1. e.event \in Statuses
    BY <1>5 DEF Event
  <2>2. \A k \in DOMAIN rows : /\ rows'[k] \in Row
                               /\ rows'[k].id = rows[k].id /\ rows'[k].name = rows[k].name
    BY <1>2, <1>5, <2>1 DEF Row
  <2>3. DOMAIN rows' = DOMAIN rows /\ rows' \in Seq(Row)
    BY <1>1, <1>5, <2>2
  <2>4. Sorted(rows') /\ Unique(rows')
    BY <1>1, <2>2, <2>3 DEF Sorted, Unique
  <2>5. Filtered(rows', filter) = Filtered(rows, filter)
    BY <2>2, <2>3 DEF Filtered
  <2> QED  BY <1>1, <1>5, <2>3, <2>4, <2>5 DEF OnARow
<1>6. CASE UNCHANGED listVars
  BY <1>1, <1>6 DEF listVars
<1>7. \/ e.event = "removed" /\ e.id \in Shown
      \/ e.event \in {"provisioning", "online"} /\ e.id \notin Shown
      \/ /\ e.event \in {"online", "offline"} /\ e.id \in Shown
         /\ rows' = [k \in DOMAIN rows |-> IF rows[k].id = e.id
                       THEN [rows[k] EXCEPT !.status = e.event] ELSE rows[k]]
         /\ UNCHANGED selected
      \/ UNCHANGED listVars
  BY DEF ApplyEvent
<1> QED
  BY <1>3, <1>4, <1>5, <1>6, <1>7

-----------------------------------------------------------------------------
(* The socket.  One command is on its way at most, so what takes one off   *)
(* leaves none.                                                            *)

LEMMA TakenOff ==
  ASSUME SocketInv, NEW i \in DOMAIN ws
  PROVE  /\ At(i) = << >> /\ ws[i] \in Command /\ \A j \in DOMAIN ws : j = i
         /\ ws[i].kind # "connected" => open \subseteq {wsConn}
<1>1. ws \in Seq(Command) /\ Len(ws) \in Nat /\ Len(ws) <= 1 /\ i \in 1 .. Len(ws)
  BY DEF SocketInv, SocketTypes, OneSocket
<1>2. RemoveAt(ws, i) \in Seq(Command) /\ Len(RemoveAt(ws, i)) = Len(ws) - 1
  BY <1>1, RemoveAtProperties
<1>3. Len(ws) = 1 /\ Len(RemoveAt(ws, i)) = 0
  BY <1>1, <1>2
<1>4. RemoveAt(ws, i) = << >>
  BY <1>2, <1>3, EmptySeq
<1>5. \A j \in DOMAIN ws : j = i
  BY <1>1, <1>3
<1> QED
  BY <1>1, <1>4, <1>5 DEF At, SocketInv, OneSocket

LEMMA NextCommand ==
  ASSUME NEW c \in Command
  PROVE  /\ Append(<< >>, c) \in Seq(Command) /\ Len(Append(<< >>, c)) = 1
         /\ DOMAIN Append(<< >>, c) = {1} /\ Append(<< >>, c)[1] = c
<1>1. << >> \in Seq(Command) /\ Len(<< >>) = 0
  OBVIOUS
<1>2. /\ Append(<< >>, c) \in Seq(Command) /\ Len(Append(<< >>, c)) = 1
      /\ Append(<< >>, c)[1] = c
  BY <1>1, AppendProperties
<1> QED
  BY <1>2

LEMMA DialKeeps ==
  ASSUME SocketInv, NEW i \in DOMAIN ws, Dial(i)
  PROVE  SocketInv'
<1> DEFINE c == [kind |-> "connected", conn |-> conns + 1]
<1>1. /\ ws[i].kind = "dial" /\ conns' = conns + 1 /\ wire' = Append(wire, << >>)
      /\ open' = open \cup {conns + 1} /\ ws' = Append(At(i), c)
      /\ UNCHANGED <<faults, wsConn, wsGen, wsReady>>
  BY DEF Dial
<1>2. SocketTypes /\ wire \in Seq(Seq(Event)) /\ conns = Len(wire) /\ conns \in Nat
  BY DEF SocketInv, SocketTypes
<1>3. c \in Command
  BY <1>2 DEF Command
<1>4. ws' \in Seq(Command) /\ Len(ws') = 1 /\ DOMAIN ws' = {1} /\ ws'[1] = c
  BY <1>1, <1>3, TakenOff, NextCommand
<1>5. wire' \in Seq(Seq(Event)) /\ Len(wire') = Len(wire) + 1
  <2>1. << >> \in Seq(Event)
    OBVIOUS
  <2> QED  BY <1>1, <1>2, <2>1, AppendProperties
<1>6. SocketTypes'
  <2>1. open \subseteq 1 .. conns
    BY <1>2 DEF SocketTypes
  <2>2. \A x \in 1 .. conns : x \in 1 .. conns + 1
    BY <1>2
  <2>3. conns + 1 \in 1 .. conns + 1
    BY <1>2
  <2>4. open' \subseteq 1 .. conns'
    BY <1>1, <2>1, <2>2, <2>3
  <2>5. conns' = Len(wire')
    BY <1>1, <1>2, <1>5
  <2> QED  BY <1>1, <1>2, <1>4, <1>5, <2>4, <2>5 DEF SocketTypes
<1>7. OneSocket'
  <2>1. open \subseteq {wsConn}
    BY <1>1, TakenOff
  <2> QED  BY <1>1, <1>4, <2>1 DEF OneSocket
<1> QED
  BY <1>6, <1>7 DEF SocketInv

LEMMA WsConnectedKeeps ==
  ASSUME SocketInv, NEW i \in DOMAIN ws, WsConnected(i)
  PROVE  SocketInv'
<1> DEFINE c == [kind |-> "listen", conn |-> ws[i].conn, gen |-> wsGen + 1]
<1>1. /\ ws[i].kind = "connected" /\ open' = open \ {wsConn} /\ wsConn' = ws[i].conn
      /\ wsReady' = TRUE /\ wsGen' = wsGen + 1 /\ ws' = Append(At(i), c)
      /\ UNCHANGED <<wire, conns, faults>>
  BY DEF WsConnected
<1>2. SocketTypes /\ wsGen \in Nat
  BY DEF SocketInv, SocketTypes
<1>3. ws[i].conn \in Nat
  <2>1. ws[i] \in Command
    BY TakenOff
  <2> QED  BY <1>1, <2>1 DEF Command
<1>4. c \in Command
  BY <1>2, <1>3 DEF Command
<1>5. ws' \in Seq(Command) /\ Len(ws') = 1
  BY <1>1, <1>4, TakenOff, NextCommand
<1>6. SocketTypes'
  BY <1>1, <1>2, <1>3, <1>5 DEF SocketTypes
<1>7. OneSocket'
  <2>1. \A x \in open : x = wsConn \/ x = ws[i].conn
    BY <1>1, TakenOff DEF SocketInv, OneSocket
  <2> QED  BY <1>1, <1>5, <2>1 DEF OneSocket
<1> QED
  BY <1>6, <1>7 DEF SocketInv

LEMMA WsErrorKeeps ==
  ASSUME SocketInv, NEW i \in DOMAIN ws, ws[i].kind # "connected",
         NEW gen, WsError(gen, At(i)), UNCHANGED <<wire, conns>>, faults' \in Nat
  PROVE  SocketInv'
<1>1. SocketTypes /\ open \subseteq {wsConn} /\ At(i) = << >>
  BY TakenOff DEF SocketInv
<1>2. CASE gen # wsGen
  <2>1. ws' = << >> /\ UNCHANGED <<open, wsConn, wsGen, wsReady>>
    BY <1>1, <1>2 DEF WsError
  <2>2. ws' \in Seq(Command) /\ Len(ws') = 0
    BY <2>1
  <2>3. SocketTypes'
    BY <1>1, <2>1, <2>2 DEF SocketTypes
  <2> QED  BY <1>1, <2>1, <2>2, <2>3 DEF SocketInv, OneSocket
<1>3. CASE gen = wsGen
  <2>1. /\ open' = open \ {wsConn} /\ wsConn' = NoConn /\ wsReady' = FALSE
        /\ ws' = Append(<< >>, [kind |-> "tick"]) /\ wsGen' = wsGen
    BY <1>1, <1>3 DEF WsError
  <2>2. [kind |-> "tick"] \in Command
    BY DEF Command
  <2>3. ws' \in Seq(Command) /\ Len(ws') = 1
    BY <2>1, <2>2, NextCommand
  <2>4. SocketTypes'
    BY <1>1, <2>1, <2>3 DEF SocketTypes
  <2> QED  BY <1>1, <2>1, <2>3, <2>4 DEF SocketInv, OneSocket
<1> QED
  BY <1>2, <1>3

LEMMA ReconnectKeeps ==
  ASSUME SocketInv, NEW i \in DOMAIN ws, ReconnectTick(i)
  PROVE  SocketInv'
<1>1. /\ ws[i].kind = "tick" /\ ws' = Append(At(i), [kind |-> "dial"])
      /\ UNCHANGED <<socket, wsConn, wsGen, wsReady>>
  BY DEF ReconnectTick
<1>2. open \subseteq {wsConn} /\ At(i) = << >>
  BY <1>1, TakenOff
<1>3. [kind |-> "dial"] \in Command
  BY DEF Command
<1>4. ws' \in Seq(Command) /\ Len(ws') = 1
  BY <1>1, <1>2, <1>3, NextCommand
<1> QED
  BY <1>1, <1>2, <1>4 DEF SocketInv, SocketTypes, OneSocket, socket

LEMMA DropKeeps ==
  ASSUME SocketInv, Drop
  PROVE  SocketInv'
<1>1. PICK c \in open : open' = open \ {c} /\ wire' = [wire EXCEPT ![c] = << >>]
  BY DEF Drop
<1>2. faults' = faults + 1 /\ UNCHANGED <<conns, wsVars>>
  BY DEF Drop
<1>3. << >> \in Seq(Event) /\ wire \in Seq(Seq(Event)) /\ c \in 1 .. Len(wire)
  BY DEF SocketInv, SocketTypes
<1>4. wire' \in Seq(Seq(Event)) /\ Len(wire') = Len(wire)
  BY <1>1, <1>3
<1> QED
  BY <1>1, <1>2, <1>4 DEF SocketInv, SocketTypes, OneSocket, wsVars

LEMMA CastKeeps ==
  ASSUME SocketInv, NEW i \in Ids, NEW e \in Statuses \cup {"removed"}, NEW n \in Names,
         Cast(i, e, n), UNCHANGED <<open, conns, faults, wsVars>>
  PROVE  SocketInv'
<1> DEFINE m == [id |-> i, event |-> e, name |-> n]
<1>1. m \in Event
  BY DEF Event
<1>2. wire \in Seq(Seq(Event)) /\ Len(wire) \in Nat /\ DOMAIN wire = 1 .. Len(wire)
  BY DEF SocketInv, SocketTypes
<1>3. wire' = [c \in DOMAIN wire |-> IF c \in open THEN Append(wire[c], m) ELSE wire[c]]
  BY DEF Cast
<1> HIDE DEF m
<1>4. ASSUME NEW c \in DOMAIN wire  PROVE wire'[c] \in Seq(Event)
  <2>1. wire[c] \in Seq(Event)
    BY <1>2
  <2>2. Append(wire[c], m) \in Seq(Event)
    BY <1>1, <2>1, AppendProperties
  <2> QED  BY <1>3, <2>1, <2>2
<1>5. wire' \in Seq(Seq(Event)) /\ Len(wire') = Len(wire)
  BY <1>2, <1>3, <1>4
<1> QED
  BY <1>5 DEF SocketInv, SocketTypes, OneSocket, wsVars

LEMMA WsEventKeeps ==
  ASSUME SocketInv, ListInv, NEW i \in DOMAIN ws, WsEvent(i)
  PROVE  SocketInv' /\ ListInv'
<1> DEFINE c == ws[i].conn
<1>1. /\ ws[i].kind = "listen" /\ c \in open /\ wire[c] # << >>
      /\ wire' = [wire EXCEPT ![c] = Tail(@)]
      /\ UNCHANGED <<open, conns, faults, wsConn, wsGen, wsReady, keyVars>>
  BY DEF WsEvent
<1>2. At(i) = << >> /\ open \subseteq {wsConn}
  BY <1>1, TakenOff
<1>3. /\ wire \in Seq(Seq(Event)) /\ c \in DOMAIN wire /\ wire[c] \in Seq(Event)
      /\ wsGen \in Nat /\ wsConn \in Nat \cup {NoConn}
  <2>1. /\ wire \in Seq(Seq(Event)) /\ conns = Len(wire) /\ open \subseteq 1 .. conns
        /\ wsGen \in Nat \ {0} /\ wsConn \in Nat \cup {NoConn}
    BY DEF SocketInv, SocketTypes
  <2>2. c \in 1 .. conns
    BY <1>1, <2>1
  <2>3. c \in DOMAIN wire /\ wire[c] \in Seq(Event)
    BY <2>1, <2>2
  <2> QED  BY <2>1, <2>2, <2>3
<1>4. Head(wire[c]) \in Event /\ Tail(wire[c]) \in Seq(Event)
  BY <1>1, <1>3, HeadTailProperties
<1>5. wire' \in Seq(Seq(Event)) /\ Len(wire') = Len(wire)
  BY <1>1, <1>3, <1>4
<1>6. ws' \in Seq(Command) /\ Len(ws') <= 1
  <2>1. CASE ws' = << >>
    BY <2>1
  <2>2. CASE wsConn # NoConn /\ ws' = Append(<< >>, [kind |-> "listen", conn |-> wsConn, gen |-> wsGen])
    <3>1. [kind |-> "listen", conn |-> wsConn, gen |-> wsGen] \in Command
      BY <1>3, <2>2 DEF Command
    <3> QED  BY <2>2, <3>1, NextCommand
  <2> QED  BY <1>2, <2>1, <2>2 DEF WsEvent
<1>7. SocketInv'
  BY <1>1, <1>2, <1>5, <1>6 DEF SocketInv, SocketTypes, OneSocket
<1>8. ListInv'
  <2>1. CASE UNCHANGED listVars
    BY <1>1, <2>1, Untouched
  <2>2. CASE ApplyEvent(Head(wire[c]))
    BY <1>1, <1>4, <2>2, EventKeepsList
  <2> QED  BY <2>1, <2>2 DEF WsEvent
<1> QED
  BY <1>7, <1>8

-----------------------------------------------------------------------------
(* The list: answers of requests, and keys. *)

LEMMA ListFacts ==
  ASSUME ListInv
  PROVE  /\ rows \in Seq(Row) /\ Sorted(rows) /\ Unique(rows)
         /\ selected \in Nat /\ OnARow(selected, rows, filter)
         /\ filter \in {Anything, Found} /\ mode \in {"list", "confirm", "spawn", "edit", "filter"}
  BY DEF ListInv, ListTypes, OneLineEach, Unique, CursorOnARow, OnARow

LEMMA ListMade ==
  ASSUME rows' \in Seq(Row), Sorted(rows'), Unique(rows'),
         selected' \in Nat, OnARow(selected', rows', filter'),
         filter' \in {Anything, Found}, mode' \in {"list", "confirm", "spawn", "edit", "filter"}
  PROVE  ListInv'
  BY DEF ListInv, ListTypes, OneLineEach, Unique, CursorOnARow, OnARow, Sorted, Filtered

LEMMA DeletedKeepsList ==
  ASSUME ListInv, NEW r, DeletedMsg(r)
  PROVE  ListInv'
<1> DEFINE q == Without(rows, r.id)
<1>1. /\ rows' = q /\ selected' = Clamp(q, filter) /\ filter' = filter
      /\ mode' = IF mode = "confirm" THEN "list" ELSE mode
  BY DEF DeletedMsg
<1>2. q \in Seq(Row) /\ Sorted(q) /\ Unique(q)
  BY ListFacts, WithoutProperties
<1> HIDE DEF q
<1>3. Clamp(q, filter) \in Nat /\ OnARow(Clamp(q, filter), q, filter)
  BY <1>2, ListFacts, ClampProperties
<1> QED
  BY <1>1, <1>2, <1>3, ListFacts, ListMade

LEMMA WorkspacesKeepsList ==
  ASSUME ListInv, AnswersInv, NEW s \in Slots, WorkspacesMsg(s)
  PROVE  ListInv'
<1>1. PICK r \in Orders(fetch[s].list) : rows' = r
  BY DEF WorkspacesMsg
<1>2. selected' = Clamp(r, filter) /\ filter' = filter /\ mode' = mode
  BY <1>1 DEF WorkspacesMsg, keyVars
<1>3. /\ fetch[s].list \subseteq Row /\ IsFiniteSet(fetch[s].list)
      /\ \A x, y \in fetch[s].list : x.id = y.id => x = y
  BY DEF AnswersInv, RequestTypes, Fetch
<1>4. r \in Seq(Row) /\ Sorted(r) /\ Unique(r)
  BY <1>3, OrdersMakeLists
<1>5. Clamp(r, filter) \in Nat /\ OnARow(Clamp(r, filter), r, filter)
  BY <1>4, ListFacts, ClampProperties
<1> QED
  BY <1>1, <1>2, <1>4, <1>5, ListFacts, ListMade

LEMMA KeysKeepList ==
  ASSUME ListInv, Keys
  PROVE  ListInv'
<1> USE ListFacts
<1>1. CASE Move
  <2>1. /\ \/ selected > 0 /\ selected' = selected - 1
           \/ selected < Cardinality(Filtered(rows, filter)) - 1 /\ selected' = selected + 1
        /\ rows' = rows /\ filter' = filter /\ mode' = mode
    BY <1>1 DEF Move, keyVars
  <2>2. Cardinality(Filtered(rows, filter)) \in Nat
    BY FilteredIsFinite
  <2>3. selected' \in Nat /\ OnARow(selected', rows, filter)
    BY <2>1, <2>2 DEF OnARow
  <2> QED  BY <2>1, <2>3, ListMade
<1>2. CASE KeyR
  BY <1>2, Untouched DEF KeyR
<1>3. ASSUME UNCHANGED <<listVars, filter>>, mode' \in {"list", "confirm", "spawn", "edit", "filter"}
      PROVE  ListInv'
  BY <1>3, ListMade DEF listVars
<1>4. CASE KeyD \/ Answer \/ OpenForm \/ Submit \/ CancelForm
  BY <1>3, <1>4 DEF KeyD, Answer, OpenForm, Submit, CancelForm
<1>5. CASE Slash
  <2>1. mode' = "filter" /\ filter' = Anything /\ selected' = 0 /\ rows' = rows
    BY <1>5 DEF Slash
  <2> QED  BY <2>1, ListMade DEF OnARow
<1>6. CASE TypeFilter
  <2>1. filter' \in {Anything, Found} /\ selected' = 0 /\ rows' = rows /\ mode' = mode
    BY <1>6 DEF TypeFilter
  <2> QED  BY <2>1, ListMade DEF OnARow
<1>7. CASE LeaveFilter
  <2>1. mode' = "list" /\ selected' = Clamp(rows, filter) /\ rows' = rows /\ filter' = filter
    BY <1>7 DEF LeaveFilter
  <2> QED  BY <2>1, ClampProperties, ListMade
<1>8. CASE ClearFilter
  <2>1. /\ filter' = Anything /\ selected' = Clamp(rows, Anything)
        /\ rows' = rows /\ mode' = mode
    BY <1>8 DEF ClearFilter
  <2> QED  BY <2>1, ClampProperties, ListMade
<1> QED
  BY <1>1, <1>2, <1>4, <1>5, <1>6, <1>7, <1>8 DEF Keys

-----------------------------------------------------------------------------
(* Requests and their answers. *)

(* What the cursor is on is a row of the list, whenever it is on one.      *)
LEMMA SelectedIsARow ==
  ASSUME ListInv, HasSelected
  PROVE  Selected.id \in Ids
<1> DEFINE V == Filtered(rows, filter)
<1>1. rows \in Seq(Row) /\ selected \in Nat
  BY ListFacts
<1>2. V \in SUBSET Nat /\ IsFiniteSet(V) /\ \A k \in V : rows[k] \in Row
  <2>1. IsFiniteSet(V)
    BY <1>1, FilteredIsFinite
  <2>2. \A k \in V : k \in 1 .. Len(rows) /\ rows[k] \in Row
    BY <1>1 DEF Filtered
  <2> QED  BY <2>1, <2>2
<1>3. selected < Cardinality(V)
  BY DEF HasSelected
<1>4. \A k : Above(k) = {j \in V : j < k}
  BY DEF Above
<1>5. Selected = rows[CHOOSE k \in V : Cardinality(Above(k)) = selected]
  BY DEF Selected
<1> HIDE DEF V
<1>6. PICK k \in V : Cardinality({j \in V : j < k}) = selected
  BY <1>1, <1>2, <1>3, EveryRank
<1>7. (CHOOSE l \in V : Cardinality(Above(l)) = selected) \in V
  BY <1>4, <1>6
<1> QED
  BY <1>2, <1>5, <1>7 DEF Row

LEMMA ListingProperties ==
  ASSUME PlatformTypes
  PROVE  /\ Listing \subseteq Row /\ IsFiniteSet(Listing)
         /\ \A x, y \in Listing : x.id = y.id => x = y
<1>1. ASSUME NEW i \in Ids, status[i] # "removed"
      PROVE  [id |-> i, name |-> name[i], status |-> status[i]] \in Row
  BY <1>1 DEF PlatformTypes, Row, Anything
<1>2. Listing \subseteq Row
  BY <1>1 DEF Listing
<1>3. \A x, y \in Listing : x.id = y.id => x = y
  BY DEF Listing
<1>4. \A x \in Listing : x.id \in Ids
  BY <1>2 DEF Row
<1> DEFINE g == [x \in Listing |-> x.id]
<1>5. g \in Injection(Listing, Ids)
  BY <1>3, <1>4 DEF Injection, IsInjective
<1>6. IsFiniteSet(Listing)
  BY <1>5, DashboardAssumption, FS_Injection
<1> QED
  BY <1>2, <1>3, <1>6

(* A list request that is put in a state keeps the answers in order.       *)
LEMMA SlotKeeps ==
  ASSUME AnswersInv, NEW s \in Slots, NEW f \in Fetch, IsFiniteSet(f.list),
         \A x, y \in f.list : x.id = y.id => x = y,
         fetch' = [fetch EXCEPT ![s] = f],
         requests' \subseteq Asked, replies' \subseteq Asked, ops' \in Nat
  PROVE  AnswersInv'
<1>1. fetch \in [Slots -> Fetch]
  BY DEF AnswersInv, RequestTypes
<1>2. fetch' \in [Slots -> Fetch] /\ \A t \in Slots : fetch'[t] = IF t = s THEN f ELSE fetch[t]
  BY <1>1
<1> QED
  BY <1>2 DEF AnswersInv, RequestTypes

LEMMA EmptySlotKeeps ==
  ASSUME AnswersInv, NEW s \in Slots,
         fetch' = [fetch EXCEPT ![s] = Idle] \/ fetch' = [fetch EXCEPT ![s] = Waiting],
         requests' \subseteq Asked, replies' \subseteq Asked, ops' \in Nat
  PROVE  AnswersInv'
<1>1. Idle \in Fetch /\ Waiting \in Fetch /\ Idle.list = {} /\ Waiting.list = {}
  BY DEF Idle, Waiting, Fetch
<1>2. IsFiniteSet({})
  BY FS_EmptySet
<1> QED
  BY <1>1, <1>2, SlotKeeps

LEMMA RequestKeeps ==
  ASSUME AnswersInv, NEW r \in Asked, Request(r)
  PROVE  AnswersInv'
  BY DEF AnswersInv, RequestTypes, Request

LEMMA FetchAnsweredKeeps ==
  ASSUME AnswersInv, PlatformTypes, NEW s \in Slots, FetchAnswered(s)
  PROVE  AnswersInv'
<1> DEFINE f == [at |-> "answered", list |-> Listing]
<1>1. f \in Fetch /\ IsFiniteSet(f.list) /\ \A x, y \in f.list : x.id = y.id => x = y
  BY ListingProperties DEF Fetch
<1>2. fetch' = [fetch EXCEPT ![s] = f] /\ UNCHANGED <<requests, replies, ops>>
  BY DEF FetchAnswered
<1>3. requests' \subseteq Asked /\ replies' \subseteq Asked /\ ops' \in Nat
  BY <1>2 DEF AnswersInv, RequestTypes
<1> HIDE DEF f
<1> QED
  BY <1>1, <1>2, <1>3, SlotKeeps

LEMMA KeysKeepAnswers ==
  ASSUME ListInv, AnswersInv, Keys
  PROVE  AnswersInv'
<1>1. CASE UNCHANGED httpVars
  BY <1>1, Untouched
<1>2. CASE KeyR
  <2>1. /\ fetch' = [fetch EXCEPT !["asked"] = Waiting]
        /\ ops' = ops + 1 /\ UNCHANGED <<requests, replies>>
    BY <1>2 DEF KeyR, Ask
  <2>2. requests' \subseteq Asked /\ replies' \subseteq Asked /\ ops' \in Nat /\ "asked" \in Slots
    BY <2>1 DEF AnswersInv, RequestTypes, Slots
  <2> QED  BY <2>1, <2>2, EmptySlotKeeps
<1>3. CASE HasSelected /\ Request([op |-> "delete", id |-> Selected.id, name |-> Unnamed])
  <2>1. [op |-> "delete", id |-> Selected.id, name |-> Unnamed] \in Asked
    BY <1>3, SelectedIsARow DEF Asked
  <2> QED  BY <1>3, <2>1, RequestKeeps
<1>4. ASSUME NEW n \in Names, Request([op |-> "create", id |-> NoConn, name |-> n])
      PROVE  AnswersInv'
  <2>1. [op |-> "create", id |-> NoConn, name |-> n] \in Asked
    BY DEF Asked
  <2> QED  BY <1>4, <2>1, RequestKeeps
<1>5. ASSUME NEW n \in Names, HasSelected, Request([op |-> "update", id |-> Selected.id, name |-> n])
      PROVE  AnswersInv'
  <2>1. [op |-> "update", id |-> Selected.id, name |-> n] \in Asked
    BY <1>5, SelectedIsARow DEF Asked
  <2> QED  BY <1>5, <2>1, RequestKeeps
<1>6. CASE Answer
  BY <1>1, <1>3, <1>6 DEF Answer
<1>7. CASE Submit
  BY <1>1, <1>4, <1>5, <1>7 DEF Submit
<1>8. CASE Move \/ KeyD \/ OpenForm \/ CancelForm \/ Slash \/ TypeFilter \/ LeaveFilter \/ ClearFilter
  BY <1>1, <1>8 DEF Move, KeyD, OpenForm, CancelForm, Slash, TypeFilter, LeaveFilter, ClearFilter
<1> QED
  BY <1>2, <1>6, <1>7, <1>8 DEF Keys

(* The platform serves a change: its tables, what it tells the connections *)
(* and the answer.                                                         *)
LEMMA ServeKeeps ==
  ASSUME PlatformTypes, SocketInv, AnswersInv, NEW r \in requests, Serve(r)
  PROVE  PlatformTypes' /\ SocketInv' /\ AnswersInv'
<1>1. r \in Asked /\ requests \subseteq Asked /\ replies \subseteq Asked
  BY DEF AnswersInv, RequestTypes
<1>2. /\ requests' = requests \ {r} /\ UNCHANGED <<fetch, ops, changes>>
      /\ UNCHANGED <<open, conns, faults, wsVars>>
  BY DEF Serve
<1>3. replies' = replies \cup {r}
  BY DEF Serve, DeleteServed, CreateServed, UpdateServed
<1>4. AnswersInv'
  BY <1>1, <1>2, <1>3 DEF AnswersInv, RequestTypes
<1>5. CASE DeleteServed(r)
  <2>1. r.op = "delete" /\ status' = [status EXCEPT ![r.id] = "removed"] /\ name' = name
        /\ Cast(r.id, "removed", name[r.id])
    BY <1>5 DEF DeleteServed
  <2>2. r.id \in Ids
    BY <1>1, <2>1 DEF Asked
  <2>3. name[r.id] \in Names
    BY <2>2 DEF PlatformTypes
  <2>4. PlatformTypes'
    BY <1>2, <2>1, <2>2 DEF PlatformTypes
  <2> QED  BY <1>2, <1>4, <2>1, <2>2, <2>3, <2>4, CastKeeps
<1>6. CASE CreateServed(r)
  <2>1. PICK i \in Ids : /\ status' = [status EXCEPT ![i] = "provisioning"]
                         /\ name' = [name EXCEPT ![i] = r.name]
                         /\ Cast(i, "provisioning", r.name)
    BY <1>6 DEF CreateServed
  <2>2. r.name \in Names
    BY <1>1, <1>6 DEF Asked, CreateServed
  <2>3. "provisioning" \in Statuses \cup {"removed"}
    BY DashboardAssumption
  <2>4. PlatformTypes'
    BY <1>2, <2>1, <2>2, <2>3 DEF PlatformTypes
  <2> QED  BY <1>2, <1>4, <2>1, <2>2, <2>3, <2>4, CastKeeps
<1>7. CASE UpdateServed(r)
  <2>1. /\ r.op = "update" /\ name' = [name EXCEPT ![r.id] = r.name]
        /\ UNCHANGED <<status, wire>>
    BY <1>7 DEF UpdateServed
  <2>2. r.id \in Ids /\ r.name \in Names
    BY <1>1, <2>1 DEF Asked
  <2>3. PlatformTypes'
    BY <1>2, <2>1, <2>2 DEF PlatformTypes
  <2>4. SocketInv'
    BY <1>2, <2>1, Untouched DEF socket
  <2> QED  BY <1>4, <2>3, <2>4
<1> QED
  BY <1>5, <1>6, <1>7 DEF Serve

-----------------------------------------------------------------------------
(* The invariant holds at first, and every step keeps it. *)

LEMMA InitHolds == Init => IInv
<1> SUFFICES ASSUME Init  PROVE IInv
  OBVIOUS
<1> USE DashboardAssumption
<1>1. PlatformTypes
  BY DEF Init, PlatformTypes
<1>2. SocketInv
  <2>1. [kind |-> "dial"] \in Command
    BY DEF Command
  <2>2. ws \in Seq(Command) /\ Len(ws) = 1
    BY <2>1 DEF Init
  <2>3. wire \in Seq(Seq(Event)) /\ Len(wire) = 0
    BY DEF Init
  <2>4. open = {} /\ conns = 0 /\ faults = 0 /\ wsConn = NoConn /\ wsGen = 1
    BY DEF Init
  <2>5. wsReady \in BOOLEAN
    BY Zenon DEF Init
  <2>6. wsGen \in Nat \ {0}
    BY <2>4
  <2>7. SocketTypes
    BY <2>2, <2>3, <2>4, <2>5, <2>6 DEF SocketTypes
  <2> QED  BY <2>2, <2>4, <2>7 DEF SocketInv, OneSocket
<1>3. ListInv
  BY DEF Init, ListInv, ListTypes, OneLineEach, CursorOnARow, Sorted
<1>4. AnswersInv
  <2>1. Idle \in Fetch /\ Waiting \in Fetch /\ Idle.list = {} /\ Waiting.list = {}
    BY DEF Idle, Waiting, Fetch
  <2>2. IsFiniteSet({})
    BY FS_EmptySet
  <2> QED  BY <2>1, <2>2 DEF Init, AnswersInv, RequestTypes
<1> QED
  BY <1>1, <1>2, <1>3, <1>4 DEF IInv

LEMMA ChangeKeeps ==
  ASSUME PlatformTypes, SocketInv, Change
  PROVE  PlatformTypes' /\ SocketInv'
<1>1. PICK i \in Ids, s \in Statuses \cup {"removed"} :
        status' = [status EXCEPT ![i] = s] /\ Cast(i, s, name[i])
  BY DEF Change
<1>2. changes' = changes + 1 /\ name' = name /\ UNCHANGED <<open, conns, faults, wsVars>>
  BY DEF Change
<1>3. name[i] \in Names
  BY DEF PlatformTypes
<1>4. PlatformTypes'
  BY <1>1, <1>2 DEF PlatformTypes
<1> QED
  BY <1>1, <1>2, <1>3, <1>4, CastKeeps

LEMMA SocketStepsKeep ==
  ASSUME SocketInv, ListInv, NEW i \in DOMAIN ws, WsStep(i)
  PROVE  SocketInv' /\ ListInv'
<1>1. CASE WsEvent(i)
  BY <1>1, WsEventKeeps
<1>2. CASE Dial(i) \/ WsConnected(i) \/ ReconnectTick(i)
  <2>1. SocketInv'
    BY <1>2, DialKeeps, WsConnectedKeeps, ReconnectKeeps
  <2>2. UNCHANGED <<listVars, keyVars>>
    BY <1>2 DEF Dial, WsConnected, ReconnectTick
  <2> QED  BY <2>1, <2>2, Untouched
<1>3. CASE DialFails(i) \/ ReadFails(i)
  <2>1. /\ ws[i].kind # "connected" /\ UNCHANGED <<wire, conns>>
        /\ faults' = faults \/ faults' = faults + 1
        /\ UNCHANGED <<listVars, keyVars>>
    BY <1>3 DEF DialFails, ReadFails
  <2>2. faults' \in Nat
    BY <2>1 DEF SocketInv, SocketTypes
  <2>3. \E gen : WsError(gen, At(i))
    BY <1>3 DEF DialFails, ReadFails
  <2>4. SocketInv'
    BY <2>1, <2>2, <2>3, WsErrorKeeps
  <2> QED  BY <2>1, <2>4, Untouched
<1> QED
  BY <1>1, <1>2, <1>3 DEF WsStep

LEMMA NextKeeps == IInv /\ [Next]_vars => IInv'
<1> SUFFICES ASSUME IInv, [Next]_vars  PROVE IInv'
  OBVIOUS
<1>1. PlatformTypes /\ SocketInv /\ ListInv /\ AnswersInv
  BY DEF IInv
<1> USE <1>1
<1> SUFFICES PlatformTypes' /\ SocketInv' /\ ListInv' /\ AnswersInv'
  BY DEF IInv
<1>2. CASE Change
  <2>1. UNCHANGED <<listVars, keyVars>> /\ UNCHANGED httpVars
    BY <1>2 DEF Change
  <2> QED  BY <1>2, <2>1, ChangeKeeps, Untouched
<1>3. CASE Drop
  <2>1. UNCHANGED platform /\ UNCHANGED <<listVars, keyVars>> /\ UNCHANGED httpVars
    BY <1>3 DEF Drop
  <2> QED  BY <1>3, <2>1, DropKeeps, Untouched
<1>4. CASE Keys
  <2>1. UNCHANGED platform /\ UNCHANGED <<socket, wsVars>>
    BY <1>4 DEF Keys, Quiet, Move, KeyR, KeyD, Answer, OpenForm, Submit, CancelForm,
                Slash, TypeFilter, LeaveFilter, ClearFilter
  <2> QED  BY <1>4, <2>1, KeysKeepList, KeysKeepAnswers, Untouched
<1>5. CASE RefreshTick
  <2>1. /\ UNCHANGED platform /\ UNCHANGED <<socket, wsVars>> /\ UNCHANGED <<listVars, keyVars>>
        /\ fetch' = [fetch EXCEPT !["refresh"] = Waiting] /\ UNCHANGED <<requests, replies, ops>>
    BY <1>5 DEF RefreshTick, Ask
  <2>2. /\ requests' \subseteq Asked /\ replies' \subseteq Asked /\ ops' \in Nat
        /\ "refresh" \in Slots
    BY <2>1 DEF AnswersInv, RequestTypes, Slots
  <2> QED  BY <2>1, <2>2, EmptySlotKeeps, Untouched
<1>6. ASSUME NEW i \in DOMAIN ws, WsStep(i)
      PROVE  PlatformTypes' /\ SocketInv' /\ ListInv' /\ AnswersInv'
  <2>1. UNCHANGED platform /\ UNCHANGED httpVars
    BY <1>6 DEF WsStep, Dial, DialFails, WsConnected, ReadFails, ReconnectTick, WsEvent
  <2> QED  BY <1>6, <2>1, SocketStepsKeep, Untouched
<1>7. ASSUME NEW s \in Slots, FetchAnswered(s)
      PROVE  PlatformTypes' /\ SocketInv' /\ ListInv' /\ AnswersInv'
  <2>1. UNCHANGED platform /\ UNCHANGED <<socket, wsVars>> /\ UNCHANGED <<listVars, keyVars>>
    BY <1>7 DEF FetchAnswered
  <2> QED  BY <1>7, <2>1, FetchAnsweredKeeps, Untouched
<1>8. ASSUME NEW s \in Slots, FetchFails(s) \/ WorkspacesMsg(s)
      PROVE  PlatformTypes' /\ SocketInv' /\ ListInv' /\ AnswersInv'
  <2>1. /\ UNCHANGED platform /\ UNCHANGED <<socket, wsVars>>
        /\ fetch' = [fetch EXCEPT ![s] = Idle] /\ UNCHANGED <<requests, replies, ops>>
    BY <1>8 DEF FetchFails, WorkspacesMsg
  <2>2. requests' \subseteq Asked /\ replies' \subseteq Asked /\ ops' \in Nat
    BY <2>1 DEF AnswersInv, RequestTypes
  <2>3. ListInv'
    <3>1. FetchFails(s) => UNCHANGED <<listVars, keyVars>>
      BY DEF FetchFails
    <3> QED  BY <1>8, <3>1, WorkspacesKeepsList, Untouched
  <2> QED  BY <2>1, <2>2, <2>3, EmptySlotKeeps, Untouched
<1>9. ASSUME NEW r \in requests, Serve(r)
      PROVE  PlatformTypes' /\ SocketInv' /\ ListInv' /\ AnswersInv'
  <2>1. UNCHANGED <<listVars, keyVars>>
    BY <1>9 DEF Serve
  <2> QED  BY <1>9, <2>1, ServeKeeps, Untouched
<1>10. ASSUME NEW r \in requests, RequestFails(r)
       PROVE  PlatformTypes' /\ SocketInv' /\ ListInv' /\ AnswersInv'
  <2>1. /\ UNCHANGED platform /\ UNCHANGED <<socket, wsVars>> /\ UNCHANGED <<listVars, keyVars>>
        /\ requests' = requests \ {r} /\ UNCHANGED <<fetch, replies, ops>>
    BY <1>10 DEF RequestFails
  <2>2. AnswersInv'
    BY <2>1 DEF AnswersInv, RequestTypes
  <2> QED  BY <2>1, <2>2, Untouched
<1>11. ASSUME NEW r \in replies, DeletedMsg(r)
       PROVE  PlatformTypes' /\ SocketInv' /\ ListInv' /\ AnswersInv'
  <2>1. /\ UNCHANGED platform /\ UNCHANGED <<socket, wsVars>>
        /\ replies' = replies \ {r} /\ UNCHANGED <<fetch, requests, ops>>
    BY <1>11 DEF DeletedMsg
  <2>2. AnswersInv'
    BY <2>1 DEF AnswersInv, RequestTypes
  <2> QED  BY <1>11, <2>1, <2>2, DeletedKeepsList, Untouched
<1>12. ASSUME NEW r \in replies, ChangedMsg(r)
       PROVE  PlatformTypes' /\ SocketInv' /\ ListInv' /\ AnswersInv'
  <2>1. /\ UNCHANGED platform /\ UNCHANGED <<socket, wsVars>> /\ UNCHANGED <<listVars, keyVars>>
        /\ fetch' = [fetch EXCEPT !["asked"] = Waiting]
        /\ replies' = replies \ {r} /\ UNCHANGED <<requests, ops>>
    BY <1>12 DEF ChangedMsg, Ask
  <2>2. requests' \subseteq Asked /\ replies' \subseteq Asked /\ ops' \in Nat /\ "asked" \in Slots
    BY <2>1 DEF AnswersInv, RequestTypes, Slots
  <2> QED  BY <2>1, <2>2, EmptySlotKeeps, Untouched
<1>13. CASE UNCHANGED vars
  BY <1>13, Untouched DEF vars
<1> QED
  BY <1>2, <1>3, <1>4, <1>5, <1>6, <1>7, <1>8, <1>9, <1>10, <1>11, <1>12, <1>13 DEF Next

LEMMA AlwaysIInv == Spec => []IInv
  BY InitHolds, NextKeeps, PTL DEF Spec

(* The type invariant, what is on its way included: a request names a      *)
(* workspace there is, whatever the cursor was on when the key was pressed.*)
THEOREM DashboardTyped == Spec => []TypeOK
<1>1. IInv => TypeOK
  BY DEF IInv, SocketInv, ListInv, AnswersInv, TypeOK
<1> QED
  BY <1>1, AlwaysIInv, PTL

(* The cursor is on a shown row or at the top of the list, whatever        *)
(* refreshes, events, deletions and filters did to it (model.go:153).      *)
THEOREM CursorStaysOnARow == Spec => []CursorOnARow
<1>1. IInv => CursorOnARow
  BY DEF IInv, ListInv
<1> QED
  BY <1>1, AlwaysIInv, PTL

(* A workspace has one line, whether its row came with a list, with an     *)
(* event or with both.                                                     *)
THEOREM OneLinePerWorkspace == Spec => []OneLineEach
<1>1. IInv => OneLineEach
  BY DEF IInv, ListInv
<1> QED
  BY <1>1, AlwaysIInv, PTL

(* Never two commands about the socket, and no connection that is neither  *)
(* the model's nor on its way to it (update.go:137).                       *)
THEOREM NoSocketLeaks == Spec => []OneSocket
<1>1. IInv => OneSocket
  BY DEF IInv, SocketInv
<1> QED
  BY <1>1, AlwaysIInv, PTL
=============================================================================
