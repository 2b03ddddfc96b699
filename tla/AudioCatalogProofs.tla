-------------------------- MODULE AudioCatalogProofs --------------------------
(***************************************************************************)
(* Proofs about AudioCatalog, for any finite set of tracks, any number of  *)
(* lists and any limits: however the table changes between two pages, no   *)
(* list shows a track twice and none misses one that was in it throughout. *)
(***************************************************************************)
EXTENDS AudioCatalog, FiniteSetTheorems, WellFoundedInduction, TLAPS

TableType == [Audio -> Row \cup {Missing}]

Ahead(table, a, c) == c = NoCursor \/ Below([created |-> table[a].created, id |-> a], c)

\* A walk w through the list of a scope, and the tracks that stayed in it.
WalkOK(table, w, kept, scope) ==
    /\ w \in Walk
    /\ kept \subseteq Listed(table, scope)
    /\ \A a \in Audio : w.shown[a] <= 1
    /\ \A a \in Audio : w.shown[a] # 0 => /\ table[a] # Missing
                                          /\ w.more => ~Ahead(table, a, w.passed)
    /\ \A a \in kept : ~w.more \/ ~Ahead(table, a, w.passed) => w.shown[a] # 0

\* A page is only asked for after a walk that has one.
ListOK(table, list, kept) ==
    /\ list \in List
    /\ WalkOK(table, list.data, kept.data, list.scope)
    /\ WalkOK(table, list.built, kept.built, list.scope)
    /\ list.fetch = "next" => list.data.more
    /\ list.fetch = "all" => list.built.more

CatalogInv ==
    /\ rows \in TableType
    /\ lists \in [Reader -> List]
    /\ steady \in [Reader -> [data: SUBSET Audio, built: SUBSET Audio]]
    /\ \A r \in Reader : ListOK(rows, lists[r], steady[r])

-----------------------------------------------------------------------------
(* Finite sets                                                             *)

LEMMA Lowest ==
    ASSUME NEW S \in SUBSET Nat, S # {}
    PROVE  \E x \in S : \A y \in S : x <= y
<1>1. IsWellFoundedOn(OpToRel(<, Nat), Nat)
  BY NatLessThanWellFounded
<1>2. PICK less : less = OpToRel(<, Nat)
  OBVIOUS
<1>3. PICK x \in S : \A y \in S : ~(<<y, x>> \in less)
  BY <1>1, <1>2, WFMin
<1>4. \A y \in S : ~(y < x)
  BY <1>2, <1>3 DEF OpToRel
<1> QED BY <1>4

\* In a strict order a finite set has an element that none of the others precedes.
LEMMA Extreme ==
    ASSUME NEW T, IsFiniteSet(T), T # {}, NEW before,
           \A x \in T : <<x, x>> \notin before,
           \A x, y, z \in T : <<x, y>> \in before /\ <<y, z>> \in before => <<x, z>> \in before
    PROVE  \E a \in T : \A b \in T : <<b, a>> \notin before
<1> DEFINE Before(a) == {b \in T : <<b, a>> \in before}
           Counts == {Cardinality(Before(a)) : a \in T}
<1>1. \A a \in T : IsFiniteSet(Before(a)) /\ Cardinality(Before(a)) \in Nat
  <2> TAKE a \in T
  <2>1. IsFiniteSet(Before(a))
    BY FS_Subset
  <2> QED BY <2>1, FS_CardinalityType
<1>2. Counts \subseteq Nat /\ Counts # {}
  <2>1. PICK x \in T : TRUE
    OBVIOUS
  <2>2. Cardinality(Before(x)) \in Counts
    OBVIOUS
  <2>3. ASSUME NEW m \in Counts
        PROVE  m \in Nat
    <3>1. PICK a \in T : m = Cardinality(Before(a))
      OBVIOUS
    <3> HIDE DEF Before
    <3> QED BY <1>1, <3>1
  <2> HIDE DEF Counts
  <2> QED BY <2>2, <2>3
<1>3. PICK n \in Counts : \A m \in Counts : n <= m
  <2> HIDE DEF Counts
  <2> QED BY <1>2, Lowest
<1>4. PICK a \in T : n = Cardinality(Before(a))
  BY <1>3
<1>5. ASSUME NEW b \in T, <<b, a>> \in before
      PROVE  FALSE
  <2>1. Before(b) \subseteq Before(a) /\ b \in Before(a) /\ b \notin Before(b)
    BY <1>5
  <2>2. /\ Cardinality(Before(b)) <= Cardinality(Before(a))
        /\ Cardinality(Before(a)) # Cardinality(Before(b))
    <3> HIDE DEF Before
    <3> QED BY <1>1, <2>1, FS_Subset
  <2>3. Cardinality(Before(b)) \in Counts
    OBVIOUS
  <2>4. n <= Cardinality(Before(b))
    <3> HIDE DEF Counts
    <3> QED BY <1>3, <2>3
  <2> HIDE DEF Before
  <2> QED BY <1>1, <1>4, <2>2, <2>4
<1> QED BY <1>4, <1>5

-----------------------------------------------------------------------------
(* The order of the keys                                                   *)

LEMMA KeyType ==
    ASSUME rows \in TableType, NEW a \in Audio
    PROVE  /\ rows[a].created \in Nat /\ rows[a].created \in Time
           /\ Key(a) \in [created: Time, id: Audio]
           /\ Key(a).created = rows[a].created /\ Key(a).id = a
           /\ a \in Nat
           /\ Key(a) # NoCursor
<1>1. rows[a] \in Row \cup {Missing}
  BY DEF TableType
<1>2. rows[a].created \in Time
  BY <1>1, CatalogAssumption DEF Row, Missing, Time
<1> QED BY <1>2, CatalogAssumption DEF Key, NoCursor, Time

LEMMA KeyOrder ==
    ASSUME rows \in TableType
    PROVE  /\ \A a \in Audio : ~Below(Key(a), Key(a))
           /\ \A a, b \in Audio : a = b \/ Below(Key(a), Key(b)) \/ Below(Key(b), Key(a))
           /\ \A a, b \in Audio : Below(Key(a), Key(b)) => ~Below(Key(b), Key(a))
           /\ \A a, b, d \in Audio :
                Below(Key(a), Key(b)) /\ Below(Key(b), Key(d)) => Below(Key(a), Key(d))
BY KeyType DEF Below

LEMMA CursorOrder ==
    ASSUME rows \in TableType, NEW a \in Audio, NEW b \in Audio,
           NEW c \in [created: Time, id: Audio],
           Below(Key(b), c), ~Below(Key(a), c)
    PROVE  ~Below(Key(a), Key(b))
<1>1. Time \subseteq Nat /\ Audio \subseteq Nat
  BY CatalogAssumption DEF Time
<1>2. c.created \in Nat /\ c.id \in Nat
  BY <1>1
<1> QED BY <1>2, KeyType DEF Below

\* The rows of T that come before row a.
Above(a, T) == {b \in T : Below(Key(a), Key(b))}

LEMMA FirstRow ==
    ASSUME rows \in TableType, NEW T \in SUBSET Audio, T # {}
    PROVE  \E a \in T : Above(a, T) = {}
<1> DEFINE before == {p \in Audio \X Audio : Below(Key(p[2]), Key(p[1]))}
<1>1. \A x, y \in Audio : <<x, y>> \in before <=> Below(Key(y), Key(x))
  OBVIOUS
<1>2. IsFiniteSet(T)
  BY CatalogAssumption, FS_Subset
<1> HIDE DEF before
<1>3. \A x \in T : <<x, x>> \notin before
  BY <1>1, KeyOrder
<1>4. \A x, y, z \in T : <<x, y>> \in before /\ <<y, z>> \in before => <<x, z>> \in before
  BY <1>1, KeyOrder
<1>5. \E a \in T : \A b \in T : <<b, a>> \notin before
  BY <1>2, <1>3, <1>4, Extreme
<1> QED BY <1>1, <1>5 DEF Above

LEMMA LastRow ==
    ASSUME rows \in TableType, NEW T \in SUBSET Audio, T # {}
    PROVE  LastOf(T) \in T /\ \A b \in T : b = LastOf(T) \/ Below(Key(LastOf(T)), Key(b))
<1> DEFINE before == {p \in Audio \X Audio : Below(Key(p[1]), Key(p[2]))}
<1>1. \A x, y \in Audio : <<x, y>> \in before <=> Below(Key(x), Key(y))
  OBVIOUS
<1>2. IsFiniteSet(T)
  BY CatalogAssumption, FS_Subset
<1> HIDE DEF before
<1>3. \A x \in T : <<x, x>> \notin before
  BY <1>1, KeyOrder
<1>4. \A x, y, z \in T : <<x, y>> \in before /\ <<y, z>> \in before => <<x, z>> \in before
  BY <1>1, KeyOrder
<1>5. \E a \in T : \A b \in T : <<b, a>> \notin before
  BY <1>2, <1>3, <1>4, Extreme
<1>6. \E a \in T : \A b \in T : b = a \/ Below(Key(a), Key(b))
  BY <1>1, <1>5, KeyOrder
<1> QED BY <1>6 DEF LastOf

-----------------------------------------------------------------------------
(* One page                                                                *)

LEMMA Counted ==
    ASSUME rows \in TableType, NEW T \in SUBSET Audio, NEW a \in Audio
    PROVE  /\ IsFiniteSet(T) /\ Cardinality(T) \in Nat
           /\ IsFiniteSet(Above(a, T)) /\ Cardinality(Above(a, T)) \in Nat
<1>1. IsFiniteSet(T)
  BY CatalogAssumption, FS_Subset
<1>2. IsFiniteSet(Above(a, T))
  BY <1>1, FS_Subset DEF Above
<1> QED BY <1>1, <1>2, FS_CardinalityType

\* A row that comes before one of the first n is one of them.
LEMMA FirstOfIsUpward ==
    ASSUME rows \in TableType, NEW S \in SUBSET Audio, NEW n \in Nat,
           NEW a \in S, NEW b \in FirstOf(S, n), Below(Key(b), Key(a))
    PROVE  a \in FirstOf(S, n)
<1>1. b \in S /\ Cardinality(Above(b, S)) < n
  BY DEF FirstOf, Above
<1>2. Above(a, S) \subseteq Above(b, S)
  BY <1>1, KeyOrder DEF Above
<1>3. Cardinality(Above(a, S)) <= Cardinality(Above(b, S))
  BY <1>1, <1>2, Counted, FS_Subset
<1>4. Cardinality(Above(a, S)) < n
  BY <1>1, <1>3, Counted
<1> QED BY <1>4 DEF FirstOf, Above

LEMMA FirstOfNonempty ==
    ASSUME rows \in TableType, NEW S \in SUBSET Audio, S # {}, NEW n \in Nat \ {0}
    PROVE  FirstOf(S, n) # {}
<1>1. PICK a \in S : Above(a, S) = {}
  BY FirstRow
<1>2. Cardinality(Above(a, S)) < n
  BY <1>1, FS_EmptySet
<1> QED BY <1>2 DEF FirstOf, Above

\* The look-ahead row: when the page holds every row that was read, there are no more.
LEMMA LookAhead ==
    ASSUME rows \in TableType, NEW S \in SUBSET Audio, NEW n \in Nat \ {0},
           FirstOf(FirstOf(S, n + 1), n) = FirstOf(S, n + 1)
    PROVE  FirstOf(S, n + 1) = S
<1> DEFINE found == FirstOf(S, n + 1)
<1>1. found \subseteq S
  BY DEF FirstOf
<1>2. ASSUME found # S
      PROVE  FALSE
  <2>1. PICK x \in S \ found : Above(x, S \ found) = {}
    BY <1>1, <1>2, FirstRow
  <2>2. Above(x, S) \subseteq found
    BY <2>1 DEF Above
  <2>3. ~(Cardinality(Above(x, S)) < n + 1)
    BY <2>1 DEF FirstOf, Above
  <2>4. Cardinality(Above(x, S)) \in Nat /\ Cardinality(found) \in Nat /\ IsFiniteSet(found)
    BY <1>1, <2>1, Counted
  <2>5. Cardinality(Above(x, S)) <= Cardinality(found)
    BY <2>2, <2>4, FS_Subset
  <2>6. n + 1 <= Cardinality(found)
    BY <2>3, <2>4, <2>5
  <2>7. found # {}
    BY <2>6, FS_EmptySet
  <2> DEFINE y == LastOf(found)
  <2>8. y \in found /\ \A b \in found : b = y \/ Below(Key(y), Key(b))
    BY <1>1, <2>7, LastRow
  <2>9. Cardinality(Above(y, found)) < n
    <3>1. y \in FirstOf(found, n)
      BY <2>8
    <3> QED BY <3>1 DEF FirstOf, Above
  <2>10. Above(y, found) = found \ {y}
    BY <1>1, <2>8, KeyOrder DEF Above
  <2>11. Cardinality(found \ {y}) = Cardinality(found) - 1
    <3> HIDE DEF found, y
    <3> QED BY <2>4, <2>8, FS_RemoveElement
  <2> QED BY <2>4, <2>6, <2>9, <2>10, <2>11
<1> QED BY <1>2

LEMMA PageSizeType ==
    ASSUME NEW limit \in RequestedLimits
    PROVE  PageSize(limit) \in Nat \ {0}
BY CatalogAssumption DEF PageSize

\* The next page of a walk that has one.
LEMMA ListAudiosOK ==
    ASSUME rows \in TableType, NEW w, NEW kept, NEW scope, NEW limit \in RequestedLimits,
           WalkOK(rows, w, kept, scope), w.more
    PROVE  WalkOK(rows, ListAudios(w, scope, limit), kept, scope)
<1> DEFINE n == PageSize(limit)
           S == {a \in Listed(rows, scope) : Beyond(a, w.passed)}
           found == FirstOf(S, n + 1)
           items == FirstOf(found, n)
           shown == [a \in Audio |-> w.shown[a] + (IF a \in items THEN 1 ELSE 0)]
           passed == IF found = items THEN w.passed ELSE Key(LastOf(items))
           next == [pages |-> w.pages + 1, shown |-> shown, more |-> found # items,
                    passed |-> passed]
<1>1. /\ w \in Walk
      /\ kept \subseteq Listed(rows, scope)
      /\ \A a \in Audio : w.shown[a] # 0 => rows[a] # Missing /\ ~Beyond(a, w.passed)
      /\ \A a \in kept : ~Beyond(a, w.passed) => w.shown[a] # 0
      /\ \A a \in Audio : w.shown[a] <= 1
  BY DEF WalkOK, Ahead, Beyond, Key
<1>2. /\ w.pages \in Nat /\ w.passed \in Cursor
      /\ \A a \in Audio : w.shown[a] \in Nat
  BY <1>1 DEF Walk
<1>3. n \in Nat \ {0}
  BY PageSizeType
<1>4. /\ S \subseteq Audio
      /\ \A a \in S : rows[a] # Missing /\ Beyond(a, w.passed)
      /\ \A a \in kept : a \in Audio /\ (a \in S \/ ~Beyond(a, w.passed))
  BY <1>1 DEF Listed
<1>5. ListAudios(w, scope, limit) = next
  BY DEF ListAudios
<1> HIDE DEF n, S
<1>6. items \subseteq found /\ found \subseteq S
  BY DEF FirstOf
<1>7. found = items => items = S
  BY <1>3, <1>4, LookAhead
<1>8. found # items =>
        /\ LastOf(items) \in items
        /\ \A b \in items : b = LastOf(items) \/ Below(Key(LastOf(items)), Key(b))
        /\ \A b \in S : b = LastOf(items) \/ Below(Key(LastOf(items)), Key(b)) => b \in items
  <2> SUFFICES ASSUME found # items
               PROVE  /\ LastOf(items) \in items
                      /\ \A b \in items : b = LastOf(items) \/ Below(Key(LastOf(items)), Key(b))
                      /\ \A b \in S : b = LastOf(items) \/ Below(Key(LastOf(items)), Key(b))
                                        => b \in items
    OBVIOUS
  <2>1. items # {} /\ items \subseteq Audio /\ found \subseteq Audio
    BY <1>3, <1>4, <1>6, FirstOfNonempty
  <2>2. /\ LastOf(items) \in items
        /\ \A b \in items : b = LastOf(items) \/ Below(Key(LastOf(items)), Key(b))
    BY <2>1, LastRow
  <2>3. ASSUME NEW b \in S, Below(Key(LastOf(items)), Key(b))
        PROVE  b \in items
    <3>1. b \in found
      BY <1>3, <1>4, <1>6, <2>2, <2>3, FirstOfIsUpward
    <3> QED BY <1>3, <2>1, <2>2, <2>3, <3>1, FirstOfIsUpward
  <2> QED BY <2>2, <2>3
<1> HIDE DEF found, items
<1>9. passed \in Cursor
  BY <1>2, <1>4, <1>6, <1>8, KeyType DEF Cursor
<1>10. next \in Walk
  BY <1>2, <1>9 DEF Walk
<1>11. \A a \in Audio : shown[a] <= 1
  BY <1>1, <1>2, <1>4, <1>6
<1>12. ASSUME NEW a \in Audio, shown[a] # 0
       PROVE  rows[a] # Missing /\ (found # items => ~Beyond(a, passed))
  <2>1. rows[a] # Missing
    BY <1>1, <1>2, <1>4, <1>6, <1>12
  <2>2. ASSUME found # items
        PROVE  ~Beyond(a, passed)
    <3>1. passed = Key(LastOf(items)) /\ LastOf(items) \in Audio /\ LastOf(items) \in S
      BY <1>4, <1>6, <1>8, <2>2
    <3>2. ~Below(Key(a), Key(LastOf(items)))
      <4>1. CASE a \in items
        BY <1>8, <2>2, <3>1, <4>1, KeyOrder
      <4>2. CASE a \notin items
        <5>1. ~Beyond(a, w.passed)
          BY <1>1, <1>2, <1>12, <4>2
        <5>2. /\ w.passed \in [created: Time, id: Audio] /\ ~Below(Key(a), w.passed)
              /\ Below(Key(LastOf(items)), w.passed)
          BY <1>2, <1>4, <3>1, <5>1 DEF Beyond, Cursor
        <5> QED BY <3>1, <5>2, CursorOrder
      <4> QED BY <4>1, <4>2
    <3> QED BY <3>1, <3>2, KeyType DEF Beyond
  <2> QED BY <2>1, <2>2
<1>13. ASSUME NEW a \in kept, found = items \/ ~Beyond(a, passed)
       PROVE  shown[a] # 0
  <2>1. a \in Audio
    BY <1>4
  <2>2. CASE a \in items
    BY <1>2, <2>1, <2>2
  <2>3. CASE a \notin items
    <3>1. CASE ~Beyond(a, w.passed)
      BY <1>1, <1>2, <2>1, <2>3, <3>1
    <3>2. CASE a \in S
      <4>1. found # items
        BY <1>7, <2>3, <3>2
      <4>2. LastOf(items) \in Audio /\ ~Below(Key(a), Key(LastOf(items)))
        BY <1>4, <1>6, <1>8, <1>13, <4>1 DEF Beyond
      <4>3. a = LastOf(items) \/ Below(Key(LastOf(items)), Key(a))
        BY <2>1, <4>2, KeyOrder
      <4> QED BY <1>8, <2>3, <3>2, <4>1, <4>3
    <3> QED BY <1>4, <3>1, <3>2
  <2> QED BY <2>2, <2>3
<1> HIDE DEF shown, passed
<1>14. /\ next.shown = shown /\ next.passed = passed /\ next.more = (found # items)
  OBVIOUS
<1> HIDE DEF next
<1> QED BY <1>1, <1>5, <1>10, <1>11, <1>12, <1>13, <1>14 DEF WalkOK, Ahead, Beyond, Key

-----------------------------------------------------------------------------
(* Steps of the table                                                      *)

\* No row is taken away and none gets another time.
LEMMA TableStep ==
    ASSUME NEW table, NEW w, NEW kept, NEW scope,
           \A a \in Audio : rows[a] # Missing => /\ table[a] # Missing
                                                 /\ table[a].created = rows[a].created,
           WalkOK(rows, w, kept, scope)
    PROVE  WalkOK(table, w, kept \cap Listed(table, scope), scope)
<1>1. \A a \in Audio : rows[a] # Missing => Ahead(table, a, w.passed) = Ahead(rows, a, w.passed)
  BY DEF Ahead
<1>2. \A a \in kept : a \in Audio /\ rows[a] # Missing
  BY DEF WalkOK, Listed
<1> QED BY <1>1, <1>2 DEF WalkOK

LEMMA BecomesKeepsInv ==
    ASSUME CatalogInv, NEW table \in TableType, Becomes(table),
           \A a \in Audio : rows[a] # Missing => /\ table[a] # Missing
                                                 /\ table[a].created = rows[a].created
    PROVE  CatalogInv'
<1>1. rows' = table /\ lists' = lists
  BY DEF Becomes
<1>2. \A r \in Reader :
        steady'[r] = [data |-> steady[r].data \cap Listed(table, lists[r].scope),
                      built |-> steady[r].built \cap Listed(table, lists[r].scope)]
  BY DEF Becomes
<1>3. steady' \in [Reader -> [data: SUBSET Audio, built: SUBSET Audio]]
  BY DEF Becomes, Listed
<1>4. ASSUME NEW r \in Reader
      PROVE  ListOK(table, lists[r], steady'[r])
  <2>1. ListOK(rows, lists[r], steady[r])
    BY DEF CatalogInv
  <2>2. /\ steady'[r].data = steady[r].data \cap Listed(table, lists[r].scope)
        /\ steady'[r].built = steady[r].built \cap Listed(table, lists[r].scope)
    <3>1. PICK listed : listed = Listed(table, lists[r].scope)
      OBVIOUS
    <3>2. steady'[r] = [data |-> steady[r].data \cap listed,
                        built |-> steady[r].built \cap listed]
      BY <1>2, <3>1
    <3> QED BY <3>1, <3>2
  <2> QED BY <2>1, <2>2, TableStep DEF ListOK
<1> QED BY <1>1, <1>3, <1>4 DEF CatalogInv

LEMMA PresentRow ==
    ASSUME rows \in TableType, NEW a \in Audio, Present(a)
    PROVE  rows[a] \in Row
BY DEF TableType, Present

LEMMA RowIsNotMissing == \A row \in Row : row # Missing
BY CatalogAssumption DEF Row, Missing

\* A row that was there is written in place, at its time.
LEMMA RowStep ==
    ASSUME CatalogInv, NEW a \in Audio, NEW row \in Row,
           Present(a) => row.created = rows[a].created,
           Becomes([rows EXCEPT ![a] = row])
    PROVE  CatalogInv'
<1> DEFINE table == [rows EXCEPT ![a] = row]
<1>1. rows \in TableType
  BY DEF CatalogInv
<1>2. table \in TableType /\ table[a] = row /\ \A b \in Audio : b # a => table[b] = rows[b]
  BY <1>1 DEF TableType
<1>3. \A b \in Audio : rows[b] # Missing => /\ table[b] # Missing
                                            /\ table[b].created = rows[b].created
  BY <1>2, RowIsNotMissing DEF Present
<1> HIDE DEF table
<1>4. Becomes(table)
  BY DEF table
<1> QED BY <1>2, <1>3, <1>4, BecomesKeepsInv

-----------------------------------------------------------------------------
(* Steps of a list                                                         *)

LEMMA NoPagesOK ==
    ASSUME NEW table, NEW scope, NEW kept \in SUBSET Listed(table, scope)
    PROVE  WalkOK(table, NoPages, kept, scope)
<1>1. NoPages \in Walk
  BY DEF NoPages, Walk, Cursor
<1> QED BY <1>1 DEF WalkOK, NoPages, Ahead

LEMMA ListStep ==
    ASSUME CatalogInv, UNCHANGED rows, NEW r \in Reader, NEW list, NEW kept,
           lists' = [lists EXCEPT ![r] = list],
           steady' = [steady EXCEPT ![r] = kept],
           kept \in [data: SUBSET Audio, built: SUBSET Audio],
           ListOK(rows, list, kept)
    PROVE  CatalogInv'
<1>1. list \in List
  BY DEF ListOK
<1>2. /\ lists' \in [Reader -> List]
      /\ steady' \in [Reader -> [data: SUBSET Audio, built: SUBSET Audio]]
  BY <1>1 DEF CatalogInv
<1>3. \A q \in Reader : ListOK(rows, lists'[q], steady'[q])
  BY DEF CatalogInv
<1> QED BY <1>2, <1>3 DEF CatalogInv

LEMMA RestartedSteady ==
    ASSUME CatalogInv, NEW r \in Reader, NEW scope, lists'[r].scope = scope
    PROVE  Restarted(r) = [steady EXCEPT ![r] = [data |-> steady[r].data,
                                                 built |-> Listed(rows, scope)]]
<1> DEFINE listed == Listed(rows, scope)
<1>1. Restarted(r) = [steady EXCEPT ![r].built = listed]
  BY DEF Restarted
<1>2. steady \in [Reader -> [data: SUBSET Audio, built: SUBSET Audio]]
  BY DEF CatalogInv
<1> HIDE DEF listed
<1>3. [steady[r] EXCEPT !.built = listed] = [data |-> steady[r].data, built |-> listed]
  BY <1>2
<1>4. [steady EXCEPT ![r].built = listed] =
        [steady EXCEPT ![r] = [data |-> steady[r].data, built |-> listed]]
  BY <1>3
<1> QED BY <1>1, <1>4 DEF listed

\* A fetch of all pages, of a list whose data is in order.
LEMMA RefetchedOK ==
    ASSUME NEW list \in List, NEW kept \in SUBSET Audio,
           WalkOK(rows, list.data, kept, list.scope)
    PROVE  LET k == [data |-> kept, built |-> Listed(rows, list.scope)]
           IN  /\ k \in [data: SUBSET Audio, built: SUBSET Audio]
               /\ ListOK(rows, Refetched(list), k)
               /\ Refetched(list).scope = list.scope
<1> DEFINE k == [data |-> kept, built |-> Listed(rows, list.scope)]
           l == Refetched(list)
<1>1. WalkOK(rows, NoPages, Listed(rows, list.scope), list.scope)
  BY NoPagesOK
<1>2. NoPages \in Walk /\ NoPages.more
  BY <1>1 DEF WalkOK, NoPages
<1>3. /\ l \in List
      /\ l.data = list.data /\ l.built = NoPages /\ l.fetch = "all" /\ l.scope = list.scope
  BY <1>2 DEF Refetched, List
<1>4. k \in [data: SUBSET Audio, built: SUBSET Audio]
  BY DEF Listed
<1>5. k.data = kept /\ k.built = Listed(rows, list.scope)
  OBVIOUS
<1> HIDE DEF k, l
<1>6. ListOK(rows, l, k)
  BY <1>1, <1>2, <1>3, <1>5 DEF ListOK
<1> QED BY <1>3, <1>4, <1>6 DEF k, l

LEMMA OpenKeepsInv ==
    ASSUME CatalogInv, NEW r \in Reader, NEW scope \in Scope, Open(r, scope)
    PROVE  CatalogInv'
<1> DEFINE list == [NoList(scope) EXCEPT !.open = TRUE]
           kept == [data |-> {}, built |-> Listed(rows, scope)]
<1>1. WalkOK(rows, NoPages, {}, scope)
  BY NoPagesOK
<1>2. list \in List /\ list.data = NoPages /\ list.scope = scope
  BY <1>1 DEF WalkOK, NoList, List
<1> HIDE DEF list
<1>3. /\ kept \in [data: SUBSET Audio, built: SUBSET Audio]
      /\ ListOK(rows, Refetched(list), kept)
      /\ Refetched(list).scope = scope
  BY <1>1, <1>2, RefetchedOK
<1>4. lists' = [lists EXCEPT ![r] = Refetched(list)] /\ UNCHANGED rows
  BY DEF Open, list
<1>5. lists'[r].scope = scope
  BY <1>3, <1>4 DEF CatalogInv
<1>6. steady[r] \in [data: SUBSET Audio, built: SUBSET Audio]
  BY DEF CatalogInv
<1>7. steady' = [steady EXCEPT ![r] = kept]
  <2>1. steady' = [Restarted(r) EXCEPT ![r].data = {}]
    BY DEF Open
  <2>2. PICK listed : listed = Listed(rows, scope)
    OBVIOUS
  <2>3. Restarted(r) = [steady EXCEPT ![r] = [data |-> steady[r].data, built |-> listed]]
    BY <1>5, <2>2, RestartedSteady
  <2>4. steady \in [Reader -> [data: SUBSET Audio, built: SUBSET Audio]]
    BY DEF CatalogInv
  <2>5. PICK half : half = [data |-> steady[r].data, built |-> listed]
    OBVIOUS
  <2>6. [half EXCEPT !.data = {}] = [data |-> {}, built |-> listed]
    BY <2>5
  <2>7. steady' = [[steady EXCEPT ![r] = half] EXCEPT ![r].data = {}]
    BY <2>1, <2>3, <2>5
  <2>8. steady' = [steady EXCEPT ![r] = [half EXCEPT !.data = {}]]
    BY <2>4, <2>7
  <2> QED BY <2>2, <2>6, <2>8
<1> HIDE DEF kept
<1> QED BY <1>3, <1>4, <1>7, ListStep

\* Reopen and Reconnect.
LEMMA RefetchKeepsInv ==
    ASSUME CatalogInv, NEW r \in Reader, NEW list \in List,
           list.data = lists[r].data, list.scope = lists[r].scope,
           lists' = [lists EXCEPT ![r] = Refetched(list)],
           steady' = Restarted(r), UNCHANGED rows
    PROVE  CatalogInv'
<1> DEFINE kept == [data |-> steady[r].data, built |-> Listed(rows, list.scope)]
<1>1. /\ ListOK(rows, lists[r], steady[r])
      /\ steady[r] \in [data: SUBSET Audio, built: SUBSET Audio]
  BY DEF CatalogInv
<1>2. WalkOK(rows, list.data, steady[r].data, list.scope)
  BY <1>1 DEF ListOK
<1>3. /\ kept \in [data: SUBSET Audio, built: SUBSET Audio]
      /\ ListOK(rows, Refetched(list), kept)
      /\ Refetched(list).scope = list.scope
  BY <1>1, <1>2, RefetchedOK
<1>4. lists'[r].scope = list.scope
  BY <1>3 DEF CatalogInv
<1>5. steady' = [steady EXCEPT ![r] = kept]
  BY <1>4, RestartedSteady
<1> HIDE DEF kept
<1> QED BY <1>3, <1>5, ListStep

\* Opening and closing the page: the walks go on as they were.
LEMMA SameWalksKeepInv ==
    ASSUME CatalogInv, NEW r \in Reader, NEW open \in BOOLEAN,
           lists' = [lists EXCEPT ![r].open = open], UNCHANGED <<rows, steady>>
    PROVE  CatalogInv'
<1> DEFINE list == [lists[r] EXCEPT !.open = open]
<1>1. ListOK(rows, lists[r], steady[r]) /\ lists[r] \in List
  BY DEF CatalogInv
<1>2. /\ list \in List /\ list.data = lists[r].data /\ list.built = lists[r].built
      /\ list.scope = lists[r].scope /\ list.fetch = lists[r].fetch
  BY <1>1 DEF List
<1>3. lists' = [lists EXCEPT ![r] = list]
  BY DEF CatalogInv
<1> HIDE DEF list
<1>4. ListOK(rows, list, steady[r])
  BY <1>1, <1>2 DEF ListOK
<1>5. /\ steady' = [steady EXCEPT ![r] = steady[r]]
      /\ steady[r] \in [data: SUBSET Audio, built: SUBSET Audio]
  BY DEF CatalogInv
<1> QED BY <1>3, <1>4, <1>5, ListStep

\* The button, a page that is added, and a fetch that fails: what was built is dropped.
LEMMA DroppedKeepsInv ==
    ASSUME CatalogInv, NEW r \in Reader, NEW list \in List, UNCHANGED rows,
           lists' = [lists EXCEPT ![r] = list],
           list.built = NoPages, list.fetch \in {"none", "next"}, list.scope = lists[r].scope,
           list.fetch = "next" => list.data.more,
           WalkOK(rows, list.data, steady[r].data, list.scope),
           steady' = [steady EXCEPT ![r].built = {}]
    PROVE  CatalogInv'
<1> DEFINE kept == [steady[r] EXCEPT !.built = {}]
<1>1. steady[r] \in [data: SUBSET Audio, built: SUBSET Audio]
  BY DEF CatalogInv
<1>2. /\ kept \in [data: SUBSET Audio, built: SUBSET Audio]
      /\ kept.data = steady[r].data /\ kept.built = {}
  BY <1>1
<1>3. steady' = [steady EXCEPT ![r] = kept]
  BY DEF CatalogInv
<1>4. WalkOK(rows, NoPages, {}, list.scope)
  BY NoPagesOK
<1> HIDE DEF kept
<1>5. ListOK(rows, list, kept)
  BY <1>2, <1>4 DEF ListOK
<1> QED BY <1>2, <1>3, <1>5, ListStep

LEMMA NextPageKeepsInv ==
    ASSUME CatalogInv, NEW r \in Reader, NEW limit \in RequestedLimits, NextPage(r, limit)
    PROVE  CatalogInv'
<1> DEFINE walk == ListAudios(lists[r].data, lists[r].scope, limit)
           list == [lists[r] EXCEPT !.data = walk, !.fetch = "none", !.failed = FALSE]
<1>1. /\ ListOK(rows, lists[r], steady[r]) /\ lists[r] \in List /\ rows \in TableType
      /\ steady[r] \in [data: SUBSET Audio, built: SUBSET Audio]
  BY DEF CatalogInv
<1>2. WalkOK(rows, walk, steady[r].data, lists[r].scope)
  BY <1>1, ListAudiosOK DEF NextPage, ListOK
<1>3. lists' = [lists EXCEPT ![r] = list] /\ UNCHANGED <<rows, steady>>
  BY DEF NextPage, CatalogInv
<1> HIDE DEF walk
<1>4. walk \in Walk
  BY <1>2 DEF WalkOK
<1>5. /\ list \in List /\ list.data = walk /\ list.built = lists[r].built
      /\ list.scope = lists[r].scope /\ list.fetch = "none"
  BY <1>1, <1>4 DEF List
<1> HIDE DEF list
<1>6. ListOK(rows, list, steady[r])
  BY <1>1, <1>2, <1>5 DEF ListOK
<1>7. steady' = [steady EXCEPT ![r] = steady[r]]
  BY <1>3 DEF CatalogInv
<1> QED BY <1>1, <1>3, <1>6, <1>7, ListStep

LEMMA PageAgainKeepsInv ==
    ASSUME CatalogInv, NEW r \in Reader, NEW limit \in RequestedLimits, PageAgain(r, limit)
    PROVE  CatalogInv'
<1> DEFINE walk == ListAudios(lists[r].built, lists[r].scope, limit)
<1>1. /\ ListOK(rows, lists[r], steady[r]) /\ lists[r] \in List /\ rows \in TableType
      /\ steady[r] \in [data: SUBSET Audio, built: SUBSET Audio]
  BY DEF CatalogInv
<1>2. WalkOK(rows, walk, steady[r].built, lists[r].scope)
  BY <1>1, ListAudiosOK DEF PageAgain, ListOK
<1>3. walk \in Walk /\ UNCHANGED rows
  BY <1>2 DEF WalkOK, PageAgain
<1>4. CASE walk.more /\ walk.pages < lists[r].data.pages
  <2> DEFINE list == [lists[r] EXCEPT !.built = walk]
  <2>1. lists' = [lists EXCEPT ![r] = list] /\ UNCHANGED steady
    BY <1>4 DEF PageAgain, CatalogInv
  <2> HIDE DEF walk
  <2>2. /\ list \in List /\ list.data = lists[r].data /\ list.built = walk
        /\ list.scope = lists[r].scope /\ list.fetch = lists[r].fetch
    BY <1>1, <1>3 DEF List
  <2> HIDE DEF list
  <2>3. ListOK(rows, list, steady[r])
    BY <1>1, <1>2, <1>4, <2>2 DEF ListOK
  <2>4. steady' = [steady EXCEPT ![r] = steady[r]]
    BY <2>1 DEF CatalogInv
  <2> QED BY <1>1, <1>3, <2>1, <2>3, <2>4, ListStep
<1>5. CASE ~(walk.more /\ walk.pages < lists[r].data.pages)
  <2> DEFINE list == [lists[r] EXCEPT !.data = walk, !.built = NoPages,
                                      !.fetch = "none", !.failed = FALSE]
             kept == [data |-> steady[r].built, built |-> {}]
  <2>1. lists' = [lists EXCEPT ![r] = list]
    BY <1>5 DEF PageAgain, CatalogInv
  <2>2. steady' = [steady EXCEPT ![r] = kept]
    BY <1>1, <1>5 DEF PageAgain, CatalogInv
  <2>3. WalkOK(rows, NoPages, {}, lists[r].scope)
    BY NoPagesOK
  <2> HIDE DEF walk
  <2>4. /\ list \in List /\ list.data = walk /\ list.built = NoPages
        /\ list.scope = lists[r].scope /\ list.fetch = "none"
    BY <1>1, <1>3, <2>3 DEF List, WalkOK
  <2>5. kept \in [data: SUBSET Audio, built: SUBSET Audio]
    BY <1>1
  <2>6. kept.data = steady[r].built /\ kept.built = {}
    OBVIOUS
  <2> HIDE DEF list, kept
  <2>7. ListOK(rows, list, kept)
    BY <1>2, <2>3, <2>4, <2>6 DEF ListOK
  <2> QED BY <1>3, <2>1, <2>2, <2>5, <2>7, ListStep
<1> QED BY <1>4, <1>5

LEMMA LoadMoreKeepsInv ==
    ASSUME CatalogInv, NEW r \in Reader, LoadMore(r)
    PROVE  CatalogInv'
<1> DEFINE list == [lists[r] EXCEPT !.fetch = "next", !.built = NoPages]
<1>1. ListOK(rows, lists[r], steady[r]) /\ lists[r] \in List
  BY DEF CatalogInv
<1>2. NoPages \in Walk
  BY NoPagesOK DEF WalkOK
<1>3. /\ list \in List /\ list.data = lists[r].data /\ list.built = NoPages
      /\ list.fetch = "next" /\ list.scope = lists[r].scope
  BY <1>1, <1>2 DEF List
<1>4. lists' = [lists EXCEPT ![r] = list] /\ UNCHANGED rows /\ lists[r].data.more
  BY DEF LoadMore, CatalogInv
<1>5. steady' = [steady EXCEPT ![r].built = {}]
  BY DEF LoadMore
<1> HIDE DEF list
<1>6. WalkOK(rows, list.data, steady[r].data, list.scope)
  BY <1>1, <1>3 DEF ListOK
<1> QED BY <1>3, <1>4, <1>5, <1>6, DroppedKeepsInv

LEMMA PageFailsKeepsInv ==
    ASSUME CatalogInv, NEW r \in Reader, PageFails(r)
    PROVE  CatalogInv'
<1> DEFINE list == [lists[r] EXCEPT !.fetch = "none", !.built = NoPages, !.failed = TRUE]
<1>1. ListOK(rows, lists[r], steady[r]) /\ lists[r] \in List
  BY DEF CatalogInv
<1>2. NoPages \in Walk
  BY NoPagesOK DEF WalkOK
<1>3. /\ list \in List /\ list.data = lists[r].data /\ list.built = NoPages
      /\ list.fetch = "none" /\ list.scope = lists[r].scope
  BY <1>1, <1>2 DEF List
<1>4. lists' = [lists EXCEPT ![r] = list] /\ UNCHANGED rows
  BY DEF PageFails, CatalogInv
<1>5. steady' = [steady EXCEPT ![r].built = {}]
  BY DEF PageFails
<1> HIDE DEF list
<1>6. WalkOK(rows, list.data, steady[r].data, list.scope)
  BY <1>1, <1>3 DEF ListOK
<1> QED BY <1>3, <1>4, <1>5, <1>6, DroppedKeepsInv

LEMMA ReopenKeepsInv ==
    ASSUME CatalogInv, NEW r \in Reader, Reopen(r)
    PROVE  CatalogInv'
<1> DEFINE list == [lists[r] EXCEPT !.open = TRUE]
<1>1. lists[r] \in List
  BY DEF CatalogInv
<1>2. list \in List /\ list.data = lists[r].data /\ list.scope = lists[r].scope
  BY <1>1 DEF List
<1>3. CASE /\ lists' = [lists EXCEPT ![r] = list]
           /\ UNCHANGED <<rows, steady>>
  <2>1. lists' = [lists EXCEPT ![r].open = TRUE]
    BY <1>3 DEF CatalogInv
  <2> QED BY <1>3, <2>1, SameWalksKeepInv
<1>4. CASE /\ lists' = [lists EXCEPT ![r] = Refetched(list)]
           /\ steady' = Restarted(r) /\ UNCHANGED rows
  <2> HIDE DEF list
  <2> QED BY <1>2, <1>4, RefetchKeepsInv
<1> QED BY <1>3, <1>4 DEF Reopen

LEMMA ReconnectKeepsInv ==
    ASSUME CatalogInv, NEW r \in Reader, Reconnect(r)
    PROVE  CatalogInv'
<1>1. lists[r] \in List
  BY DEF CatalogInv
<1>2. lists' = [lists EXCEPT ![r] = Refetched(lists[r])]
  BY DEF Reconnect, CatalogInv
<1> QED BY <1>1, <1>2, RefetchKeepsInv DEF Reconnect

-----------------------------------------------------------------------------
(* The invariant                                                           *)

LEMMA CatalogInvInit == CatalogInit => CatalogInv
<1> SUFFICES ASSUME CatalogInit
             PROVE  CatalogInv
  OBVIOUS
<1>1. WalkOK(rows, NoPages, {}, "public")
  BY NoPagesOK
<1>2. NoList("public") \in List
  BY <1>1 DEF WalkOK, NoList, List, Scope
<1>3. rows \in TableType /\ lists \in [Reader -> List]
  BY <1>2 DEF CatalogInit, TableType
<1>4. steady \in [Reader -> [data: SUBSET Audio, built: SUBSET Audio]]
  BY DEF CatalogInit
<1>5. ASSUME NEW r \in Reader
      PROVE  ListOK(rows, lists[r], steady[r])
  <2>1. lists[r] = NoList("public") /\ steady[r] = [data |-> {}, built |-> {}]
    BY DEF CatalogInit
  <2> QED BY <1>1, <1>2, <2>1 DEF ListOK, NoList
<1> QED BY <1>3, <1>4, <1>5 DEF CatalogInv

LEMMA CatalogInvNext == CatalogInv /\ [CatalogNext]_catalogVars => CatalogInv'
<1> SUFFICES ASSUME CatalogInv, [CatalogNext]_catalogVars
             PROVE  CatalogInv'
  OBVIOUS
<1>0. rows \in TableType
  BY DEF CatalogInv
<1>1. ASSUME NEW a \in Audio, NEW s \in Subject, NEW v \in Visibility, CreateUpload(a, s, v)
      PROVE  CatalogInv'
  <2>1. PICK created \in Time :
          Becomes([rows EXCEPT ![a] = [owner |-> s, visibility |-> v,
                                       ready |-> FALSE, created |-> created]])
    BY <1>1 DEF CreateUpload
  <2>2. PICK row : row = [owner |-> s, visibility |-> v, ready |-> FALSE, created |-> created]
    OBVIOUS
  <2>3. row \in Row /\ ~Present(a) /\ Becomes([rows EXCEPT ![a] = row])
    BY <1>1, <2>1, <2>2 DEF Row, CreateUpload
  <2> QED BY <2>3, RowStep
<1>2. ASSUME NEW a \in Audio, NEW v \in Visibility, UpdateVisibility(a, v)
      PROVE  CatalogInv'
  <2>1. rows[a] \in Row
    BY <1>0, <1>2, PresentRow DEF UpdateVisibility
  <2>2. PICK row : row = [rows[a] EXCEPT !.visibility = v]
    OBVIOUS
  <2>3. row \in Row /\ row.created = rows[a].created
    BY <2>1, <2>2 DEF Row
  <2>4. Becomes([rows EXCEPT ![a] = row])
    <3>1. [rows EXCEPT ![a].visibility = v] = [rows EXCEPT ![a] = row]
      BY <1>0, <2>2 DEF TableType
    <3> QED BY <1>2, <3>1 DEF UpdateVisibility
  <2> QED BY <2>3, <2>4, RowStep
<1>3. ASSUME NEW a \in Audio, ChangeStatus(a)
      PROVE  CatalogInv'
  <2>1. rows[a] \in Row
    BY <1>0, <1>3, PresentRow DEF ChangeStatus
  <2>2. PICK row : row = [rows[a] EXCEPT !.ready = ~rows[a].ready]
    OBVIOUS
  <2>3. row \in Row /\ row.created = rows[a].created
    BY <2>1, <2>2 DEF Row
  <2>4. Becomes([rows EXCEPT ![a] = row])
    <3>1. [rows EXCEPT ![a].ready = ~@] = [rows EXCEPT ![a] = row]
      BY <1>0, <2>2 DEF TableType
    <3> QED BY <1>3, <3>1 DEF ChangeStatus
  <2> QED BY <2>3, <2>4, RowStep
<1>4. ASSUME NEW r \in Reader, Close(r)
      PROVE  CatalogInv'
  BY <1>4, SameWalksKeepInv DEF Close
<1>5. ASSUME NEW r \in Reader, PageArrives(r)
      PROVE  CatalogInv'
  BY <1>5, NextPageKeepsInv, PageAgainKeepsInv, PageFailsKeepsInv DEF PageArrives
<1>6. CASE UNCHANGED catalogVars
  BY <1>6 DEF catalogVars, CatalogInv
<1> QED
  BY <1>1, <1>2, <1>3, <1>4, <1>5, <1>6, OpenKeepsInv, ReopenKeepsInv, ReconnectKeepsInv,
     LoadMoreKeepsInv DEF CatalogNext

LEMMA CatalogInvAlways == CatalogSpec => []CatalogInv
BY CatalogInvInit, CatalogInvNext, PTL DEF CatalogSpec

-----------------------------------------------------------------------------
(* The theorems                                                            *)

\* Every reachable state of the table and of the lists is well typed.
THEOREM CatalogTypeCorrect == CatalogSpec => []CatalogTypeOK
<1>1. CatalogInv => CatalogTypeOK
  BY DEF CatalogInv, TableType, CatalogTypeOK
<1> QED BY <1>1, CatalogInvAlways, PTL

\* Keyset pages repeat nothing (README.md:148-150), however many tracks share a time and
\* whatever is uploaded, published or withdrawn between two pages.
THEOREM PagesRepeatNothing == CatalogSpec => []NothingRepeats
<1>1. CatalogInv => NothingRepeats
  BY DEF CatalogInv, ListOK, WalkOK, NothingRepeats, Walks
<1> QED BY <1>1, CatalogInvAlways, PTL

\* ... and skip nothing that was in the list from its first page on
\* (repository.go:68, DiscoverPage.tsx:79).
THEOREM PagesSkipNothing == CatalogSpec => []NothingSkipped
<1>1. CatalogInv => NothingSkipped
  <2> SUFFICES ASSUME CatalogInv, NEW w \in Walks, NEW a \in w[2],
                      ~w[1].more \/ ~Beyond(a, w[1].passed)
               PROVE  w[1].shown[a] >= 1
    BY DEF NothingSkipped
  <2>1. PICK r \in Reader : w \in {<<lists[r].data, steady[r].data>>,
                                   <<lists[r].built, steady[r].built>>}
    BY DEF Walks
  <2>2. WalkOK(rows, w[1], w[2], lists[r].scope)
    BY <2>1 DEF CatalogInv, ListOK
  <2>3. a \in Audio /\ w[1].shown[a] # 0
    BY <2>2 DEF WalkOK, Ahead, Beyond, Key, Listed
  <2>4. w[1].shown[a] \in Nat
    BY <2>2, <2>3 DEF WalkOK, Walk
  <2> QED BY <2>3, <2>4
<1> QED BY <1>1, CatalogInvAlways, PTL

=============================================================================
