-------------------------- MODULE MemoryStoreProofs --------------------------
(* Theorems of the in-memory store.  The argument has two halves that hold *)
(* each other up.  The set and the maps are those of one set of events     *)
(* (Of): discarding and inserting map such a store to another one, so every*)
(* save does.  For a query to read its map rightly no stored event may be  *)
(* marked as deleted, and for a deletion to take out what it names the maps*)
(* must know every event; StoreInv is the conjunction.                     *)
EXTENDS MemoryStore, FiniteSetTheorems, WellFoundedInduction, TLAPS

-----------------------------------------------------------------------------
(* The order of events, and the first of them                              *)

LEMMA EventsAreTyped ==
    ASSUME NEW i \in Id
    PROVE  /\ i \in Nat /\ created_at(i) \in Nat /\ created_at(i) <= MaxTime /\ kind(i) \in Nat
           /\ \A c, d \in identifier(i) : c = d
<1>1. MaxTime \in Nat
  BY SMT DEF MaxTime
<1>2. Event[i].created_at \in 0 .. MaxTime /\ Event[i].kind \in Nat /\ i \in Nat
  BY EventAssumption
<1>3. \A c, d \in identifier(i) : c = d
  BY EventAssumption DEF identifier
<1> QED BY <1>1, <1>2, <1>3 DEF created_at, kind

\* Newest first, and by ID: a strict total order.
LEMMA BeforeIsTotal ==
    ASSUME NEW i \in Id, NEW j \in Id
    PROVE  /\ ~Before(i, i) /\ (i # j => Before(i, j) \/ Before(j, i))
           /\ \A k \in Id : Before(i, j) /\ Before(j, k) => Before(i, k)
<1>1. \A k \in Id : k \in Nat /\ created_at(k) \in Nat
  BY EventsAreTyped
<1>2. ~Before(i, i) /\ (i # j => Before(i, j) \/ Before(j, i))
  BY <1>1 DEF Before
<1>3. ASSUME NEW k \in Id, Before(i, j), Before(j, k) PROVE Before(i, k)
  <2>1. /\ i \in Nat /\ j \in Nat /\ k \in Nat
        /\ created_at(i) \in Nat /\ created_at(j) \in Nat /\ created_at(k) \in Nat
    BY <1>1
  <2> QED BY <1>3, <2>1 DEF Before
<1> QED BY <1>2, <1>3

\* The events that come before one of them
Ahead(S, i) == {j \in S : Before(j, i)}

LEMMA AheadCounts ==
    ASSUME NEW S \in SUBSET Id, IsFiniteSet(S), NEW i \in S
    PROVE  Cardinality(Ahead(S, i)) \in Nat
<1>1. Ahead(S, i) \in SUBSET S
  BY DEF Ahead
<1> QED BY <1>1, FS_Subset, FS_CardinalityType

LEMMA AheadIncreases ==
    ASSUME NEW S \in SUBSET Id, IsFiniteSet(S), NEW i \in S, NEW j \in S, Before(j, i)
    PROVE  Cardinality(Ahead(S, j)) < Cardinality(Ahead(S, i))
<1>1. Ahead(S, j) \in SUBSET Ahead(S, i) /\ j \in Ahead(S, i) /\ j \notin Ahead(S, j)
  BY BeforeIsTotal DEF Ahead
<1>2. IsFiniteSet(Ahead(S, i))
  <2>1. Ahead(S, i) \in SUBSET S
    BY DEF Ahead
  <2> QED BY <2>1, FS_Subset
<1>3. /\ Cardinality(Ahead(S, j)) <= Cardinality(Ahead(S, i))
      /\ Cardinality(Ahead(S, i)) = Cardinality(Ahead(S, j)) => Ahead(S, i) = Ahead(S, j)
  BY <1>1, <1>2, FS_Subset
<1>4. Cardinality(Ahead(S, i)) \in Nat /\ Cardinality(Ahead(S, j)) \in Nat
  BY AheadCounts
<1> QED BY <1>1, <1>3, <1>4

LEMMA FirstAreAhead ==
    ASSUME NEW S, NEW n
    PROVE  NewestN(S, n) = {i \in S : Cardinality(Ahead(S, i)) < n}
BY DEF NewestN, FirstN, Ahead

\* At most n of them are the first n: each has a rank of its own.
LEMMA FirstAreFew ==
    ASSUME NEW S \in SUBSET Id, IsFiniteSet(S), NEW n \in Nat
    PROVE  /\ NewestN(S, n) \in SUBSET S /\ IsFiniteSet(NewestN(S, n))
           /\ Cardinality(NewestN(S, n)) \in Nat
           /\ Cardinality(NewestN(S, n)) <= n
<1> DEFINE F == NewestN(S, n)
           rank == [i \in F |-> Cardinality(Ahead(S, i)) + 1]
<1>1. F = {i \in S : Cardinality(Ahead(S, i)) < n}
  BY FirstAreAhead
<1> HIDE DEF F
<1>2. \A i \in F : Cardinality(Ahead(S, i)) \in Nat
  BY <1>1, AheadCounts
<1>3. rank \in [F -> 1 .. n]
  BY <1>1, <1>2
<1>4. ASSUME NEW i \in F, NEW j \in F, rank[i] = rank[j] PROVE i = j
  <2>1. Cardinality(Ahead(S, i)) = Cardinality(Ahead(S, j))
    BY <1>2, <1>4
  <2>2. CASE Before(i, j)
    BY <1>1, <1>2, <2>1, <2>2, AheadIncreases
  <2>3. CASE Before(j, i)
    BY <1>1, <1>2, <2>1, <2>3, AheadIncreases
  <2> QED BY <1>1, <2>2, <2>3, BeforeIsTotal
<1> HIDE DEF rank
<1>5. rank \in Injection(F, 1 .. n)
  BY <1>3, <1>4 DEF Injection, IsInjective
<1>6. IsFiniteSet(1 .. n) /\ Cardinality(1 .. n) = n
  BY FS_Interval
<1>7. IsFiniteSet(F) /\ Cardinality(F) <= n
  BY <1>5, <1>6, FS_Injection
<1>8. F \in SUBSET S /\ Cardinality(F) \in Nat
  BY <1>1, <1>7, FS_CardinalityType
<1> QED
  <2>1. F = NewestN(S, n)
    BY DEF F
  <2> QED BY <1>7, <1>8, <2>1

\* Of one more than n, only one is not among the first n.
LEMMA OneIsLeftOut ==
    ASSUME NEW S \in SUBSET Id, IsFiniteSet(S), NEW n \in Nat, Cardinality(S) = n + 1
    PROVE  \A i, j \in S \ NewestN(S, n) : i = j
<1>1. ASSUME NEW i \in S, NEW j \in S, Before(i, j) PROVE i \in NewestN(S, n)
  <2> DEFINE R == (S \ {i}) \ {j}
  <2>1. Ahead(S, i) \in SUBSET R
    BY <1>1, BeforeIsTotal DEF Ahead
  <2>2. i # j
    BY <1>1, BeforeIsTotal
  <2>3. IsFiniteSet(S \ {i}) /\ Cardinality(S \ {i}) = n
    <3>1. IsFiniteSet(S \ {i}) /\ Cardinality(S \ {i}) = Cardinality(S) - 1
      BY FS_RemoveElement
    <3> QED BY <3>1
  <2>4. IsFiniteSet(R) /\ Cardinality(R) = n - 1
    <3>1. j \in S \ {i}
      BY <2>2
    <3>2. PICK T : T = S \ {i}
      OBVIOUS
    <3>3. IsFiniteSet(T \ {j}) /\ Cardinality(T \ {j}) = Cardinality(T) - 1
      BY <2>3, <3>1, <3>2, FS_RemoveElement
    <3> QED BY <2>3, <3>2, <3>3
  <2> HIDE DEF R
  <2>5. Cardinality(Ahead(S, i)) <= n - 1
    BY <2>1, <2>4, FS_Subset
  <2>6. Cardinality(Ahead(S, i)) \in Nat
    BY AheadCounts
  <2> QED BY <2>5, <2>6, FirstAreAhead
<1> QED BY <1>1, BeforeIsTotal
-----------------------------------------------------------------------------
(* The maps                                                                *)

\* The set and the maps of a store that holds the events E.
Authored(E, a) == {i \in E : pubkey(i) = a}
OfKind(E, x) == {i \in E : kind(i) = x[1] /\ pubkey(i) = x[2]}
Named(E) == {<<coordinate(i), i>> : i \in {j \in E : is_addressable(kind(j))}}
Of(E) == [events |-> E, ids |-> E,
          author_index |-> [a \in Author |-> Authored(E, a)],
          kind_author_index |-> [x \in KindAuthor |-> OfKind(E, x)],
          param_replaceable_index |-> Named(E)]

\* Sets of events that a store may hold.
Storable(E) ==
    /\ E \subseteq Id /\ IsFiniteSet(E)
    /\ \A i \in E : is_addressable(kind(i)) => identifier(i) # {}
    /\ \A i, j \in E : HasCoordinate(i) /\ HasCoordinate(j) /\ coordinate(i) = coordinate(j) => i = j
Holds(E) ==
    /\ events = E /\ ids = E
    /\ author_index = [a \in Author |-> Authored(E, a)]
    /\ kind_author_index = [x \in KindAuthor |-> OfKind(E, x)]
    /\ param_replaceable_index = Named(E)
Few == Capacity # 0 => Cardinality(events) <= Capacity
OthersTyped ==
    /\ deleted_ids \subseteq Id /\ vanished_public_keys \subseteq Author
    /\ now \in 0 .. LastTime

LEMMA MapsParts ==
    /\ MapsInv => Holds(events) /\ Storable(events) /\ Few /\ OthersTyped
    /\ Holds(events) /\ Storable(events) /\ Few /\ OthersTyped => MapsInv
<1>1. MapsInv => Holds(events) /\ Storable(events) /\ Few /\ OthersTyped
  BY DEF MapsInv, MapsAgree, Holds, Storable, Few, OthersTyped, Authored, OfKind, Named, TypeOK
<1>2. ASSUME Holds(events), Storable(events), OthersTyped PROVE TypeOK
  <2>1. events \subseteq Id /\ ids \subseteq Id
    BY <1>2 DEF Holds, Storable
  <2>2. author_index \in [Author -> SUBSET Id]
    BY <1>2 DEF Holds, Storable, Authored
  <2>3. kind_author_index \in [KindAuthor -> SUBSET Id]
    BY <1>2 DEF Holds, Storable, OfKind
  <2>4. \A x \in param_replaceable_index : x[2] \in Id
    BY <1>2 DEF Holds, Storable, Named
  <2> QED BY <1>2, <2>1, <2>2, <2>3, <2>4 DEF OthersTyped, TypeOK
<1>3. ASSUME Holds(events), Storable(events), Few, OthersTyped PROVE MapsInv
  BY <1>2, <1>3 DEF MapsInv, MapsAgree, Holds, Storable, Few, Authored, OfKind, Named
<1> QED BY <1>1, <1>3

LEMMA FewerAreStorable ==
    ASSUME NEW E, Storable(E), NEW S
    PROVE  Storable(E \ S)
<1>1. IsFiniteSet(E \ S)
  BY FS_Subset DEF Storable
<1> QED BY <1>1 DEF Storable

\* What is discarded leaves the set and every map.
LEMMA DiscardingKeepsMaps ==
    ASSUME Storable(events), Holds(events), NEW S
    PROVE  discard_events(S) = Of(events \ S)
<1> DEFINE E == events
           gone == S \cap ids
           Leaves(x) == \E i \in gone : /\ is_addressable(kind(i)) /\ identifier(i) # {}
                                        /\ x[1] = coordinate(i)
<1>1. ids = E /\ E \ gone = E \ S
  BY DEF Holds
<1>2. \A a \in Author : author_index[a] \ gone = Authored(E \ S, a)
  BY <1>1 DEF Holds, Authored
<1>3. \A x \in KindAuthor : kind_author_index[x] \ gone = OfKind(E \ S, x)
  BY <1>1 DEF Holds, OfKind
<1>4. {x \in param_replaceable_index : ~Leaves(x)} = Named(E \ S)
  <2>1. param_replaceable_index = Named(E)
    BY DEF Holds
  <2>2. ASSUME NEW x \in Named(E), ~Leaves(x) PROVE x \in Named(E \ S)
    <3>1. PICK i \in E : is_addressable(kind(i)) /\ x = <<coordinate(i), i>>
      BY <2>2 DEF Named
    <3>2. identifier(i) # {}
      BY <3>1 DEF Storable
    <3>3. x[1] = coordinate(i)
      BY <3>1
    <3>4. i \notin gone
      BY <2>2, <3>1, <3>2, <3>3
    <3> QED BY <1>1, <3>1, <3>4 DEF Named
  <2>3. ASSUME NEW x \in Named(E \ S) PROVE x \in Named(E) /\ ~Leaves(x)
    <3>1. PICK i \in E \ S : is_addressable(kind(i)) /\ x = <<coordinate(i), i>>
      BY <2>3 DEF Named
    <3>2. x[1] = coordinate(i) /\ x \in Named(E)
      BY <3>1 DEF Named
    <3>3. ASSUME NEW j \in gone, is_addressable(kind(j)), x[1] = coordinate(j) PROVE FALSE
      <4>1. i = j
        BY <1>1, <3>1, <3>2, <3>3 DEF Storable, HasCoordinate
      <4> QED BY <3>1, <4>1
    <3> QED BY <3>2, <3>3
  <2> QED BY <2>1, <2>2, <2>3
<1> HIDE DEF Leaves
<1>5. discard_events(S) =
        [events |-> E \ gone, ids |-> ids \ gone,
         author_index |-> [a \in Author |-> author_index[a] \ gone],
         kind_author_index |-> [x \in KindAuthor |-> kind_author_index[x] \ gone],
         param_replaceable_index |-> {x \in param_replaceable_index : ~Leaves(x)}]
  BY DEF discard_events, Leaves
<1> HIDE DEF E, gone
<1> QED BY <1>1, <1>2, <1>3, <1>4, <1>5 DEF Of, E

\* An event that may be put next to those a store holds
Free(E, i) ==
    /\ is_addressable(kind(i)) => identifier(i) # {}
    /\ HasCoordinate(i) => \A j \in E : HasCoordinate(j) => coordinate(j) # coordinate(i)
    /\ is_replaceable(kind(i)) => \A j \in E : ~(kind(j) = kind(i) /\ pubkey(j) = pubkey(i))

LEMMA OneMoreIsStorable ==
    ASSUME NEW E, Storable(E), NEW i \in Id, Free(E, i)
    PROVE  Storable(E \cup {i})
<1>1. IsFiniteSet(E \cup {i})
  BY FS_AddElement DEF Storable
<1> QED BY <1>1 DEF Storable, Free

LEMMA InsertingKeepsMaps ==
    ASSUME NEW E, Storable(E), NEW i \in Id, Free(E, i), NEW evicted,
           evicted \subseteq E \cup {i}, Insert(Of(E), i, evicted)
    PROVE  Holds((E \cup {i}) \ evicted)'
<1> DEFINE s == Of(E)
           F == (E \cup {i}) \ evicted
           self == <<kind(i), pubkey(i)>>
           indexed == is_addressable(kind(i)) /\ identifier(i) # {}
           Leaves(x) == \E j \in evicted : /\ is_addressable(kind(j)) /\ identifier(j) # {}
                                           /\ x[1] = coordinate(j)
           named == IF indexed
                    THEN {x \in Named(E) : x[1] # coordinate(i)} \cup {<<coordinate(i), i>>}
                    ELSE Named(E)
           kept == IF is_replaceable(kind(i)) THEN {} ELSE s.kind_author_index[self]
<1>1. /\ s.events = E /\ s.ids = E /\ s.author_index = [a \in Author |-> Authored(E, a)]
      /\ s.kind_author_index = [x \in KindAuthor |-> OfKind(E, x)]
      /\ s.param_replaceable_index = Named(E)
  BY DEF Of
<1>2. /\ events' = F /\ ids' = F
      /\ author_index' = [a \in Author |->
            (Authored(E, a) \cup IF a = pubkey(i) THEN {i} ELSE {}) \ evicted]
      /\ kind_author_index' = [x \in KindAuthor |->
            (IF x = self THEN kept \cup {i} ELSE OfKind(E, x)) \ evicted]
      /\ param_replaceable_index' = {x \in named : ~Leaves(x)}
  BY <1>1 DEF Insert
<1>3. Storable(E \cup {i})
  BY OneMoreIsStorable
<1>4. \A a \in Author :
        (Authored(E, a) \cup IF a = pubkey(i) THEN {i} ELSE {}) \ evicted = Authored(F, a)
  BY DEF Authored
<1>5. ASSUME NEW x \in KindAuthor
      PROVE  (IF x = self THEN kept \cup {i} ELSE OfKind(E, x)) \ evicted = OfKind(F, x)
  <2>1. x[1] = kind(i) /\ x[2] = pubkey(i) <=> x = self
    BY DEF KindAuthor
  <2>2. CASE x # self
    BY <2>1, <2>2 DEF OfKind
  <2>3. CASE x = self /\ is_replaceable(kind(i))
    <3>1. OfKind(E, x) = {}
      BY <2>1, <2>3 DEF OfKind, Free
    <3> QED BY <2>1, <2>3, <3>1 DEF OfKind
  <2>4. CASE x = self /\ ~is_replaceable(kind(i))
    <3>1. kept = OfKind(E, x)
      BY <1>1, <2>4
    <3> QED BY <2>1, <2>4, <3>1 DEF OfKind
  <2> QED BY <2>2, <2>3, <2>4
<1>6. {x \in named : ~Leaves(x)} = Named(F)
  <2>1. named = Named(E \cup {i})
    <3>1. CASE is_addressable(kind(i))
      <4>1. identifier(i) # {} /\ HasCoordinate(i)
        BY <3>1 DEF Free, HasCoordinate
      <4>2. \A x \in Named(E) : x[1] # coordinate(i)
        BY <4>1 DEF Named, Free, HasCoordinate
      <4>3. named = Named(E) \cup {<<coordinate(i), i>>}
        BY <3>1, <4>1, <4>2
      <4> HIDE DEF named
      <4> QED BY <3>1, <4>3 DEF Named
    <3>2. CASE ~is_addressable(kind(i))
      BY <3>2 DEF Named
    <3> QED BY <3>1, <3>2
  <2> HIDE DEF named
  <2>2. ASSUME NEW x \in Named(E \cup {i}), ~Leaves(x) PROVE x \in Named(F)
    <3>1. PICK j \in E \cup {i} : is_addressable(kind(j)) /\ x = <<coordinate(j), j>>
      BY <2>2 DEF Named
    <3>2. identifier(j) # {} /\ x[1] = coordinate(j)
      BY <1>3, <3>1 DEF Storable
    <3>3. j \notin evicted
      BY <2>2, <3>1, <3>2
    <3> QED BY <3>1, <3>3 DEF Named
  <2>3. ASSUME NEW x \in Named(F) PROVE x \in Named(E \cup {i}) /\ ~Leaves(x)
    <3>1. PICK k \in F : is_addressable(kind(k)) /\ x = <<coordinate(k), k>>
      BY <2>3 DEF Named
    <3>2. x[1] = coordinate(k) /\ x \in Named(E \cup {i})
      BY <3>1 DEF Named
    <3>3. ASSUME NEW j \in evicted, is_addressable(kind(j)), x[1] = coordinate(j) PROVE FALSE
      <4>1. k = j
        BY <1>3, <3>1, <3>2, <3>3 DEF Storable, HasCoordinate
      <4> QED BY <3>1, <3>3, <4>1
    <3> QED BY <3>2, <3>3
  <2> QED BY <2>1, <2>2, <2>3
<1> HIDE DEF F, named, Leaves, kept, self, s
<1>7. author_index' = [a \in Author |-> Authored(F, a)]
  BY <1>2, <1>4
<1>8. kind_author_index' = [x \in KindAuthor |-> OfKind(F, x)]
  BY <1>2, <1>5
<1> QED BY <1>2, <1>6, <1>7, <1>8 DEF Holds, F

\* The eviction takes one event at most, and only from a full store.
LEMMA EvictingKeepsFew ==
    ASSUME Storable(events), Few, NEW S, NEW i \in Id, i \notin events,
           NEW evicted \in Evictions(events \ S, i)
    PROVE  /\ evicted \subseteq (events \ S) \cup {i}
           /\ \A j, k \in evicted : j = k
           /\ evicted # {} => Capacity # 0 /\ Cardinality(events) = Capacity
           /\ Capacity # 0 => Cardinality(((events \ S) \cup {i}) \ evicted) <= Capacity
<1> DEFINE E == events \ S
           T == E \cup {i}
<1>1. /\ E \in SUBSET Id /\ IsFiniteSet(E) /\ Cardinality(E) \in Nat
      /\ Cardinality(E) <= Cardinality(events) /\ Cardinality(events) \in Nat
  <2>1. IsFiniteSet(events) /\ events \subseteq Id
    BY DEF Storable
  <2>2. E \in SUBSET events
    OBVIOUS
  <2>3. IsFiniteSet(E) /\ Cardinality(E) <= Cardinality(events)
    BY <2>1, <2>2, FS_Subset
  <2> QED BY <2>1, <2>2, <2>3, FS_CardinalityType
<1>2. i \notin E
  OBVIOUS
<1> HIDE DEF E
<1>3. /\ T \in SUBSET Id /\ IsFiniteSet(T) /\ Cardinality(T) = Cardinality(E) + 1
  BY <1>1, <1>2, FS_AddElement
<1> HIDE DEF T
<1>4. Capacity \in Nat
  BY StoreAssumption
<1>5. CASE Capacity = 0 \/ Cardinality(T) <= Capacity
  <2>1. evicted = {}
    BY <1>5 DEF Evictions, E, T
  <2> QED BY <1>5, <2>1 DEF E, T
<1>6. CASE ~(Capacity = 0 \/ Cardinality(T) <= Capacity)
  <2>1. Cardinality(events) = Capacity /\ Cardinality(E) = Capacity /\ Cardinality(T) = Capacity + 1
    BY <1>1, <1>3, <1>4, <1>6 DEF Few
  <2>2. PICK n : n = Capacity - 1
    OBVIOUS
  <2>3. n \in Nat /\ Capacity = n + 1
    BY <1>4, <1>6, <2>2
  <2>4. evicted = T \ NewestN(T, Capacity) \/ evicted = E \ NewestN(E, n)
    BY <1>6, <2>2 DEF Evictions, E, T
  <2>5. CASE evicted = T \ NewestN(T, Capacity)
    <3>1. \A j, k \in evicted : j = k
      BY <1>3, <1>4, <2>1, <2>5, OneIsLeftOut
    <3>2. /\ NewestN(T, Capacity) \in SUBSET T
          /\ Cardinality(NewestN(T, Capacity)) <= Capacity
      BY <1>3, <1>4, FirstAreFew
    <3>3. T \ evicted = NewestN(T, Capacity)
      BY <2>5, <3>2
    <3>4. evicted \subseteq T
      BY <2>5
    <3> QED BY <1>6, <2>1, <3>1, <3>2, <3>3, <3>4 DEF E, T
  <2>6. CASE evicted = E \ NewestN(E, n)
    <3>1. \A j, k \in evicted : j = k
      BY <1>1, <2>1, <2>3, <2>6, OneIsLeftOut
    <3> DEFINE F == NewestN(E, n)
    <3>2. /\ F \in SUBSET E /\ Cardinality(F) <= n /\ IsFiniteSet(F) /\ Cardinality(F) \in Nat
      BY <1>1, <2>3, FirstAreFew
    <3>3. T \ evicted = F \cup {i}
      BY <1>2, <2>6, <3>2 DEF T
    <3>4. evicted \subseteq T
      BY <2>6 DEF T
    <3> HIDE DEF F
    <3>5. Cardinality(F \cup {i}) <= Capacity
      <4>1. Cardinality(F \cup {i}) = IF i \in F THEN Cardinality(F) ELSE Cardinality(F) + 1
        BY <3>2, FS_AddElement
      <4> QED BY <2>3, <3>2, <4>1
    <3> QED BY <1>6, <2>1, <3>1, <3>3, <3>4, <3>5 DEF E, T
  <2> QED BY <2>4, <2>5, <2>6
<1> QED BY <1>5, <1>6

\* A save that stores its event, whatever it discards first
LEMMA StoringKeepsMaps ==
    ASSUME Holds(events), Storable(events), Few, NEW i \in Id, i \notin events,
           NEW S, Free(events \ S, i), Store(S, i)
    PROVE  /\ Holds(events)' /\ Storable(events)' /\ Few'
           /\ \E evicted \in SUBSET ((events \ S) \cup {i}) :
                /\ events' = ((events \ S) \cup {i}) \ evicted
                /\ \A j, k \in evicted : j = k
                /\ evicted # {} => Cardinality(events) = Capacity
<1> PICK E : E = events \ S
  OBVIOUS
<1>1. discard_events(S) = Of(E)
  BY DiscardingKeepsMaps
<1>2. Of(E).events = E
  BY DEF Of
<1>3. PICK evicted \in Evictions(E, i) : Insert(Of(E), i, evicted)
  BY <1>1, <1>2 DEF Store
<1>4. /\ evicted \subseteq E \cup {i}
      /\ \A j, k \in evicted : j = k
      /\ evicted # {} => Cardinality(events) = Capacity
      /\ Capacity # 0 => Cardinality((E \cup {i}) \ evicted) <= Capacity
  BY <1>3, EvictingKeepsFew
<1>5. Storable(E)
  BY FewerAreStorable
<1>6. Holds((E \cup {i}) \ evicted)'
  BY <1>3, <1>4, <1>5, InsertingKeepsMaps
<1>7. events' = (E \cup {i}) \ evicted
  BY <1>6 DEF Holds
<1>8. Storable((E \cup {i}) \ evicted)
  BY <1>5, FewerAreStorable, OneMoreIsStorable
<1>9. Holds(events)' /\ Storable(events)' /\ Few'
  BY <1>4, <1>6, <1>7, <1>8 DEF Holds, Storable, Few
<1> QED BY <1>4, <1>7, <1>9

LEMMA KeepingKeepsMaps ==
    ASSUME Holds(events), Storable(events), Few, NEW S, Keep(discard_events(S))
    PROVE  Holds(events)' /\ Storable(events)' /\ Few' /\ events' = events \ S
<1>1. discard_events(S) = Of(events \ S)
  BY DiscardingKeepsMaps
<1>2. events' = events \ S /\ Holds(events)'
  BY <1>1 DEF Keep, Of, Holds
<1>3. Storable(events)'
  <2>1. Storable(events \ S)
    BY FewerAreStorable
  <2> QED BY <1>2, <2>1 DEF Storable
<1>4. Few'
  <2>1. IsFiniteSet(events) /\ events \ S \in SUBSET events
    BY DEF Storable
  <2>2. Cardinality(events \ S) <= Cardinality(events)
    BY <2>1, FS_Subset
  <2>3. Cardinality(events \ S) \in Nat /\ Cardinality(events) \in Nat
    BY <2>1, FS_Subset, FS_CardinalityType
  <2> QED BY <1>2, <2>2, <2>3, StoreAssumption DEF Few
<1> QED BY <1>2, <1>3, <1>4
-----------------------------------------------------------------------------
(* What the maps answer                                                    *)

Untouched == events \cap deleted_ids = {}

LEMMA AlwaysInTime == \A i \in Id : InTime(i, 0, MaxTime)
BY EventsAreTyped DEF InTime

LEMMA AuthorsAreFound ==
    ASSUME Holds(events), Storable(events), Untouched, NEW a, NEW since, NEW until
    PROVE  internal_query_by_author(a, since, until) =
                {i \in events : pubkey(i) = a /\ InTime(i, since, until)}
<1>1. CASE a \in Author
  <2>1. author_index[a] = Authored(events, a)
    BY <1>1 DEF Holds
  <2> QED BY <1>1, <2>1 DEF internal_query_by_author, Authored, Untouched
<1>2. CASE a \notin Author
  <2>1. \A i \in events : pubkey(i) # a
    BY <1>2 DEF Author, Storable
  <2> QED BY <1>2, <2>1 DEF internal_query_by_author
<1> QED BY <1>1, <1>2

LEMMA KindsAreFound ==
    ASSUME Holds(events), Storable(events), Untouched, NEW k, NEW a, NEW since, NEW until
    PROVE  internal_query_by_kind_and_author(k, a, since, until) =
                {i \in events : kind(i) = k /\ pubkey(i) = a /\ InTime(i, since, until)}
<1>1. CASE <<k, a>> \in KindAuthor
  <2>1. kind_author_index[<<k, a>>] = OfKind(events, <<k, a>>)
    BY <1>1 DEF Holds
  <2> QED BY <1>1, <2>1 DEF internal_query_by_kind_and_author, OfKind, Untouched
<1>2. CASE <<k, a>> \notin KindAuthor
  <2>1. \A i \in events : ~(kind(i) = k /\ pubkey(i) = a)
    BY <1>2 DEF KindAuthor, Storable
  <2> QED BY <1>2, <2>1 DEF internal_query_by_kind_and_author
<1> QED BY <1>1, <1>2

CoordinateOf(k, a, d) == [kind |-> k, pubkey |-> a, identifier |-> d]

LEMMA CoordinateParts ==
    ASSUME NEW i
    PROVE  coordinate(i).kind = kind(i) /\ coordinate(i).pubkey = pubkey(i)
BY DEF coordinate

LEMMA CoordinatesAreFound ==
    ASSUME Holds(events), Storable(events), Untouched,
           NEW k, NEW a, NEW d, NEW since, NEW until
    PROVE  internal_query_param_replaceable(k, a, d, since, until) =
                {i \in events : /\ is_addressable(k) /\ coordinate(i) = CoordinateOf(k, a, d)
                                /\ InTime(i, since, until)}
<1> DEFINE found == {x[2] : x \in {y \in param_replaceable_index : y[1] = CoordinateOf(k, a, d)}}
<1>1. internal_query_param_replaceable(k, a, d, since, until) =
        {i \in found : is_addressable(k) /\ i \notin deleted_ids /\ InTime(i, since, until)}
  BY DEF internal_query_param_replaceable, CoordinateOf
<1>2. ASSUME NEW i \in found
      PROVE  i \in events /\ coordinate(i) = CoordinateOf(k, a, d) /\ i \notin deleted_ids
  <2>1. PICK x \in Named(events) : x[1] = CoordinateOf(k, a, d) /\ i = x[2]
    BY <1>2 DEF Holds
  <2>2. PICK j \in events : x = <<coordinate(j), j>>
    BY <2>1 DEF Named
  <2> QED BY <2>1, <2>2 DEF Untouched
<1>3. ASSUME NEW i \in events, is_addressable(k), coordinate(i) = CoordinateOf(k, a, d)
      PROVE  i \in found
  <2>1. kind(i) = k
    BY <1>3, CoordinateParts DEF CoordinateOf
  <2>2. <<coordinate(i), i>> \in param_replaceable_index
    BY <1>3, <2>1 DEF Holds, Named
  <2>3. <<coordinate(i), i>>[1] = CoordinateOf(k, a, d) /\ <<coordinate(i), i>>[2] = i
    BY <1>3
  <2> QED BY <2>2, <2>3
<1> HIDE DEF found
<1> QED BY <1>1, <1>2, <1>3

LEMMA EverythingIsFound ==
    ASSUME Untouched, NEW f
    PROVE  internal_generic_query(f) = {i \in events : match_event(f, i)}
BY DEF internal_generic_query, Untouched

-----------------------------------------------------------------------------
(* Which events may be saved, and what they replace                        *)

LEMMA Accepted ==
    ASSUME NEW i, Refusal(i) = "None"
    PROVE  /\ i \notin ids /\ i \notin deleted_ids /\ pubkey(i) \notin vanished_public_keys
           /\ HasCoordinate(i) =>
                \A x \in deleted_coordinates : x[1] = coordinate(i) => ~(created_at(i) <= x[2])
BY DEF Refusal

LEMMA KindsAreApart ==
    ASSUME NEW k \in Nat
    PROVE  /\ ~(is_replaceable(k) /\ is_addressable(k))
           /\ k = EventDeletion \/ k = RequestToVanish => ~is_replaceable(k) /\ ~is_addressable(k)
           /\ EventDeletion # RequestToVanish
BY DEF is_replaceable, is_addressable, EventDeletion, RequestToVanish

LEMMA RegularAreFree ==
    ASSUME NEW i, NEW E, ~HasCoordinate(i)
    PROVE  Free(E, i)
BY DEF Free, HasCoordinate

LEMMA SpecialAreRegular ==
    ASSUME NEW i \in Id, kind(i) = EventDeletion \/ kind(i) = RequestToVanish
    PROVE  ~HasCoordinate(i)
BY EventsAreTyped, KindsAreApart DEF HasCoordinate

\* The versions of an event are the stored ones of its coordinate.
LEMMA VersionsAreAll ==
    ASSUME Holds(events), Storable(events), Untouched, NEW i \in Id, HasCoordinate(i),
           is_addressable(kind(i)) => identifier(i) # {}
    PROVE  /\ \A j \in Versions(i) : j \in events /\ pubkey(j) = pubkey(i)
           /\ Free(events \ Versions(i), i)
<1>1. ~(is_replaceable(kind(i)) /\ is_addressable(kind(i)))
  BY EventsAreTyped, KindsAreApart
<1>2. events \subseteq Id
  BY DEF Storable
<1>3. CASE is_replaceable(kind(i))
  <2>1. Versions(i) = internal_query_by_kind_and_author(kind(i), pubkey(i), 0, MaxTime)
    BY <1>3 DEF Versions
  <2>2. Versions(i) = {j \in events : kind(j) = kind(i) /\ pubkey(j) = pubkey(i)}
    BY <1>2, <2>1, KindsAreFound, AlwaysInTime
  <2>3. \A j \in events : coordinate(j) = coordinate(i) => j \in Versions(i)
    BY <2>2, CoordinateParts
  <2> QED BY <1>1, <1>3, <2>2, <2>3 DEF Free
<1>4. CASE is_addressable(kind(i))
  <2>1. Versions(i) =
            internal_query_param_replaceable(kind(i), pubkey(i), The(identifier(i)), 0, MaxTime)
    BY <1>1, <1>4 DEF Versions
  <2>2. coordinate(i) = CoordinateOf(kind(i), pubkey(i), The(identifier(i)))
    BY <1>4 DEF coordinate, CoordinateOf, The
  <2>3. Versions(i) = {j \in events : coordinate(j) = coordinate(i)}
    BY <1>2, <1>4, <2>1, <2>2, CoordinatesAreFound, AlwaysInTime
  <2>4. \A j \in Versions(i) : pubkey(j) = pubkey(i)
    BY <2>3, CoordinateParts
  <2> QED BY <1>1, <1>4, <2>3, <2>4 DEF Free
<1> QED BY <1>3, <1>4 DEF HasCoordinate

-----------------------------------------------------------------------------
(* What a save does to the set                                             *)

\* What a save may take out on purpose
Own(i, S) ==
    \A j \in S \cap events :
        \/ pubkey(j) = pubkey(i)
        \/ kind(i) = RequestToVanish /\ kind(j) = GiftWrap /\ pubkey(i) \in Event[j].tags["p"]
Replaces(i, S) ==
    \/ Keep(discard_events(S))
    \/ Free(events \ S, i) /\ Store(S, i)

\* The parts of a deletion
ForeignIds(i) == {j \in event_ids(i) \cap ids : pubkey(j) # pubkey(i)}
ForeignCoordinates(i) == {c \in coordinates(i) : c.pubkey # pubkey(i)}
Doomed(i, es) == {j \in es : created_at(j) <= created_at(i)}
Under(i, cs) == UNION {UnderCoordinate(c, created_at(i)) : c \in cs}

LEMMA DeletionParts ==
    ASSUME NEW i, SaveDeletion(i)
    PROVE  /\ Refusal(i) = "None" /\ kind(i) = EventDeletion
           /\ UNCHANGED <<vanished_public_keys, now>>
           /\ \E es \in Reached(event_ids(i) \cap ids, ForeignIds(i)),
                 cs \in Reached(coordinates(i), ForeignCoordinates(i)) :
                /\ deleted_ids' = deleted_ids \cup Doomed(i, es)
                /\ deleted_coordinates' = mark_coordinates_deleted(cs, created_at(i))
                /\ IF ForeignIds(i) \cup ForeignCoordinates(i) = {}
                   THEN Store(Doomed(i, es) \cup Under(i, cs), i)
                   ELSE Keep(discard_events(Doomed(i, es) \cup Under(i, cs)))
BY DEF SaveDeletion, ForeignIds, ForeignCoordinates, Doomed, Under

LEMMA ReachedIsOwn ==
    ASSUME NEW S, NEW foreign, NEW R \in Reached(S, foreign)
    PROVE  R \subseteq S /\ R \cap foreign = {} /\ (foreign = {} => R = S)
BY DEF Reached

LEMMA UnderIsOwn ==
    ASSUME Holds(events), Storable(events), Untouched, NEW c, NEW until
    PROVE  \A j \in UnderCoordinate(c, until) : j \in events /\ pubkey(j) = c.pubkey
<1>1. CASE c.identifier # ""
  <2>1. UnderCoordinate(c, until) =
            internal_query_param_replaceable(c.kind, c.pubkey, c.identifier, 0, until)
    BY <1>1 DEF UnderCoordinate
  <2>2. ASSUME NEW j \in UnderCoordinate(c, until)
        PROVE  j \in events /\ coordinate(j) = CoordinateOf(c.kind, c.pubkey, c.identifier)
    BY <2>1, <2>2, CoordinatesAreFound
  <2>3. CoordinateOf(c.kind, c.pubkey, c.identifier).pubkey = c.pubkey
    BY DEF CoordinateOf
  <2> QED BY <2>2, <2>3, CoordinateParts
<1>2. CASE c.identifier = ""
  <2>1. UnderCoordinate(c, until) = internal_query_by_kind_and_author(c.kind, c.pubkey, 0, until)
    BY <1>2 DEF UnderCoordinate
  <2> QED BY <2>1, KindsAreFound
<1> QED BY <1>1, <1>2

LEMMA DeletionsAreOwn ==
    ASSUME Holds(events), Storable(events), Untouched, NEW i,
           NEW es \in Reached(event_ids(i) \cap ids, ForeignIds(i)),
           NEW cs \in Reached(coordinates(i), ForeignCoordinates(i))
    PROVE  /\ es \subseteq events
           /\ \A j \in Doomed(i, es) \cup Under(i, cs) : j \in events /\ pubkey(j) = pubkey(i)
<1>1. ids = events
  BY DEF Holds
<1>2. ASSUME NEW j \in es PROVE j \in events /\ pubkey(j) = pubkey(i)
  <2>1. j \in event_ids(i) \cap ids /\ j \notin ForeignIds(i)
    BY ReachedIsOwn
  <2> QED BY <1>1, <2>1 DEF ForeignIds
<1>3. ASSUME NEW c \in cs PROVE c.pubkey = pubkey(i)
  <2>1. c \in coordinates(i) /\ c \notin ForeignCoordinates(i)
    BY ReachedIsOwn
  <2> QED BY <2>1 DEF ForeignCoordinates
<1> QED BY <1>2, <1>3, UnderIsOwn DEF Doomed, Under

Wraps(i) == [AnyFilter EXCEPT !.kinds = {GiftWrap}, !.tags = [n \in {"p"} |-> {pubkey(i)}]]
LEMMA WrapsAreTagged ==
    ASSUME NEW i, NEW j, match_event(Wraps(i), j)
    PROVE  kind(j) = GiftWrap /\ pubkey(i) \in Event[j].tags["p"]
<1>1. Wraps(i).kinds = {GiftWrap} /\ Wraps(i).tags = [n \in {"p"} |-> {pubkey(i)}]
  BY DEF Wraps, AnyFilter
<1>2. kind(j) = GiftWrap
  BY <1>1 DEF match_event
<1>3. Wraps(i).tags["p"] \cap Event[j].tags["p"] # {} /\ Wraps(i).tags["p"] = {pubkey(i)}
  BY <1>1 DEF match_event, tag_match
<1> QED BY <1>2, <1>3

LEMMA SavesReplace ==
    ASSUME Holds(events), Storable(events), Untouched, NEW i \in Id, Save(i), ~Refuse(i)
    PROVE  i \notin events /\ \E S : Own(i, S) /\ Replaces(i, S)
<1>1. Refusal(i) = "None"
  BY DEF Save, Refuse, SaveVersion, SaveDeletion, SaveVanish, SaveRegular
<1>2. i \notin events
  BY <1>1, Accepted DEF Holds
<1>3. CASE SaveVersion(i)
  <2> DEFINE ahead == {v \in Versions(i) : has_event_been_replaced(v, i)}
             refused == ahead # {} \/ (is_addressable(kind(i)) /\ identifier(i) = {})
  <2>1. /\ HasCoordinate(i)
        /\ IF refused THEN Keep(discard_events(Versions(i) \ ahead)) ELSE Store(Versions(i), i)
    BY <1>3 DEF SaveVersion
  <2>2. CASE ~refused
    <3>1. is_addressable(kind(i)) => identifier(i) # {}
      BY <2>2
    <3>2. Own(i, Versions(i)) /\ Free(events \ Versions(i), i)
      BY <2>1, <3>1, VersionsAreAll DEF Own
    <3>3. Replaces(i, Versions(i))
      BY <2>1, <2>2, <3>2 DEF Replaces
    <3> QED BY <1>2, <3>2, <3>3
  <2>3. CASE refused
    <3>1. Own(i, Versions(i) \ ahead)
      <4>1. CASE is_addressable(kind(i)) => identifier(i) # {}
        BY <2>1, <4>1, VersionsAreAll DEF Own
      <4>2. CASE is_addressable(kind(i)) /\ identifier(i) = {}
        <5>1. ~is_replaceable(kind(i))
          BY <4>2, EventsAreTyped, KindsAreApart
        <5>2. Versions(i) = {}
          BY <4>2, <5>1 DEF Versions
        <5> QED BY <5>2 DEF Own
      <4> QED BY <4>1, <4>2
    <3>2. Replaces(i, Versions(i) \ ahead)
      BY <2>1, <2>3 DEF Replaces
    <3> QED BY <1>2, <3>1, <3>2
  <2> QED BY <2>2, <2>3
<1>4. CASE SaveDeletion(i)
  <2>1. PICK es \in Reached(event_ids(i) \cap ids, ForeignIds(i)),
             cs \in Reached(coordinates(i), ForeignCoordinates(i)) :
            \/ Store(Doomed(i, es) \cup Under(i, cs), i)
            \/ Keep(discard_events(Doomed(i, es) \cup Under(i, cs)))
    BY <1>4, DeletionParts
  <2>2. Own(i, Doomed(i, es) \cup Under(i, cs))
    BY DeletionsAreOwn DEF Own
  <2>3. Free(events \ (Doomed(i, es) \cup Under(i, cs)), i)
    BY <1>4, RegularAreFree, SpecialAreRegular DEF SaveDeletion
  <2> QED BY <1>2, <2>1, <2>2, <2>3 DEF Replaces
<1>5. CASE SaveVanish(i)
  <2> DEFINE S == internal_query_by_author(pubkey(i), 0, MaxTime) \cup internal_generic_query(Wraps(i))
  <2>1. kind(i) = RequestToVanish /\ Store(S, i)
    BY <1>5 DEF SaveVanish, Wraps
  <2>2. Own(i, S)
    <3>1. ASSUME NEW j \in S PROVE pubkey(j) = pubkey(i) \/ match_event(Wraps(i), j)
      BY AuthorsAreFound, EverythingIsFound
    <3> HIDE DEF S
    <3> QED BY <2>1, <3>1, WrapsAreTagged DEF Own
  <2>3. Free(events \ S, i)
    BY <2>1, RegularAreFree, SpecialAreRegular
  <2> HIDE DEF S
  <2> QED BY <1>2, <2>1, <2>2, <2>3 DEF Replaces
<1>6. CASE SaveRegular(i)
  <2>1. Free(events \ {}, i) /\ Store({}, i)
    BY <1>6, RegularAreFree DEF SaveRegular
  <2>2. Own(i, {})
    BY DEF Own
  <2> QED BY <1>2, <2>1, <2>2 DEF Replaces
<1> QED BY <1>3, <1>4, <1>5, <1>6 DEF Save

\* A save keeps the set and the maps together; what it takes out it takes on
\* purpose, but for one event that a full store evicts.
LEMMA SavingKeepsMaps ==
    ASSUME Holds(events), Storable(events), Few, Untouched, NEW i \in Id, Save(i)
    PROVE  /\ Holds(events)' /\ Storable(events)' /\ Few'
           /\ events' = events \/ \E S, evicted :
                /\ Own(i, S) /\ \A j, k \in evicted : j = k
                /\ evicted # {} => Cardinality(events) = Capacity
                /\ \/ events' = events \ S /\ evicted = {}
                   \/ events' = ((events \ S) \cup {i}) \ evicted
<1>1. CASE Refuse(i)
  BY <1>1 DEF Refuse, vars, store, Holds, Storable, Few
<1>2. CASE ~Refuse(i)
  <2>1. i \notin events
    BY <1>2, SavesReplace
  <2>2. PICK S : Own(i, S) /\ Replaces(i, S)
    BY <1>2, SavesReplace
  <2>3. CASE Keep(discard_events(S))
    <3>1. Holds(events)' /\ Storable(events)' /\ Few' /\ events' = events \ S
      BY <2>3, KeepingKeepsMaps
    <3> QED BY <2>2, <3>1
  <2>4. CASE Free(events \ S, i) /\ Store(S, i)
    <3>1. Holds(events)' /\ Storable(events)' /\ Few'
      BY <2>1, <2>4, StoringKeepsMaps
    <3>2. PICK evicted :
                /\ events' = ((events \ S) \cup {i}) \ evicted
                /\ \A j, k \in evicted : j = k
                /\ evicted # {} => Cardinality(events) = Capacity
      BY <2>1, <2>4, StoringKeepsMaps
    <3> QED BY <2>2, <3>1, <3>2
  <2> QED BY <2>2, <2>3, <2>4 DEF Replaces
<1> QED BY <1>1, <1>2

\* What is not in the maps keeps its types.
LEMMA NextOthers ==
    ASSUME Holds(events), Storable(events), OthersTyped, [Next]_vars
    PROVE  OthersTyped'
<1>1. ASSUME NEW i \in Id, Save(i) PROVE OthersTyped'
  <2>1. CASE Refuse(i) \/ SaveVersion(i) \/ SaveRegular(i)
    BY <2>1 DEF Refuse, SaveVersion, SaveRegular, vars, tombstones, OthersTyped
  <2>2. CASE SaveDeletion(i)
    <3>1. PICK es \in Reached(event_ids(i) \cap ids, ForeignIds(i)) :
                deleted_ids' = deleted_ids \cup Doomed(i, es)
      BY <2>2, DeletionParts
    <3>2. Doomed(i, es) \subseteq Id
      BY ReachedIsOwn DEF Doomed, Holds, Storable
    <3>3. UNCHANGED <<vanished_public_keys, now>>
      BY <2>2, DeletionParts
    <3> QED BY <3>1, <3>2, <3>3 DEF OthersTyped
  <2>3. CASE SaveVanish(i)
    BY <2>3 DEF SaveVanish, OthersTyped, Author
  <2> QED BY <1>1, <2>1, <2>2, <2>3 DEF Save
<1>2. ASSUME NEW f \in DeleteFilter, Delete(f) PROVE OthersTyped'
  BY <1>2 DEF Delete, clear, tombstones, OthersTyped
<1>3. CASE Wipe
  BY <1>3 DEF Wipe, clear, OthersTyped
<1>4. CASE Tick
  BY <1>4, StoreAssumption DEF Tick, tombstones, OthersTyped
<1>5. CASE UNCHANGED vars
  BY <1>5 DEF vars, tombstones, OthersTyped
<1> QED BY <1>1, <1>2, <1>3, <1>4, <1>5 DEF Next

LEMMA NothingIsHeld ==
    ASSUME events = {}, ids = {}, author_index = [a \in Author |-> {}],
           kind_author_index = [x \in KindAuthor |-> {}], param_replaceable_index = {}
    PROVE  Holds(events) /\ Storable(events) /\ Few
<1>1. Cardinality({}) = 0 /\ IsFiniteSet({})
  BY FS_EmptySet
<1>2. Holds(events)
  BY DEF Holds, Authored, OfKind, Named
<1> QED BY <1>1, <1>2, StoreAssumption DEF Storable, Few

\* The maps are kept by every step, as long as no stored event is a tombstone.
LEMMA NextMaps == MapsInv /\ Untouched /\ [Next]_vars => MapsInv'
<1> SUFFICES ASSUME MapsInv, Untouched, [Next]_vars PROVE MapsInv'
  OBVIOUS
<1>1. Holds(events) /\ Storable(events) /\ Few /\ OthersTyped
  BY MapsParts
<1>2. OthersTyped'
  BY <1>1, NextOthers
<1>3. Holds(events)' /\ Storable(events)' /\ Few'
  <2>1. ASSUME NEW i \in Id, Save(i) PROVE Holds(events)' /\ Storable(events)' /\ Few'
    BY <1>1, <2>1, SavingKeepsMaps
  <2>2. ASSUME clear PROVE Holds(events)' /\ Storable(events)' /\ Few'
    <3>1. /\ events' = {} /\ ids' = {} /\ author_index' = [a \in Author |-> {}]
          /\ kind_author_index' = [x \in KindAuthor |-> {}] /\ param_replaceable_index' = {}
      BY <2>2 DEF clear
    <3>2. (Holds(events) /\ Storable(events) /\ Few)'
      BY <3>1, FS_EmptySet, StoreAssumption DEF Holds, Storable, Few, Authored, OfKind, Named
    <3> QED BY <3>2
  <2>3. ASSUME NEW f \in DeleteFilter, Delete(f) PROVE Holds(events)' /\ Storable(events)' /\ Few'
    <3>1. clear \/ \E S : Keep(discard_events(S))
      BY <2>3 DEF Delete
    <3> QED BY <1>1, <2>2, <3>1, KeepingKeepsMaps
  <2>4. ASSUME UNCHANGED store PROVE Holds(events)' /\ Storable(events)' /\ Few'
    BY <1>1, <2>4 DEF store, Holds, Storable, Few
  <2> QED BY <2>1, <2>2, <2>3, <2>4 DEF Next, Wipe, Tick, vars
<1>4. (Holds(events) /\ Storable(events) /\ Few /\ OthersTyped => MapsInv)'
  BY MapsParts, PTL
<1> QED BY <1>2, <1>3, <1>4

-----------------------------------------------------------------------------
(* Tombstones                                                              *)

\* The times of the deleted coordinates only grow.
Timed(D) == \A x, y \in D : x[2] \in Nat /\ (x[1] = y[1] => x[2] = y[2])
AtLeast(D, c, time) == \E x \in D : x[1] = c /\ x[2] >= time

LEMMA TimesOnlyGrow ==
    ASSUME Timed(deleted_coordinates), NEW S, NEW time \in Nat, NEW D,
           D = mark_coordinates_deleted(S, time)
    PROVE  /\ Timed(D)
           /\ \A c \in S : AtLeast(D, c, time)
           /\ \A c : \A t \in Nat : AtLeast(deleted_coordinates, c, t) => AtLeast(D, c, t)
<1> DEFINE Old == deleted_coordinates
           Time(c) == {x[2] : x \in {y \in Old : y[1] = c}}
           New(c) == IF \E t \in Time(c) : t >= time THEN The(Time(c)) ELSE time
<1>1. D = {x \in Old : x[1] \notin S} \cup {<<c, New(c)>> : c \in S}
  BY DEF mark_coordinates_deleted
<1>2. ASSUME NEW c PROVE Time(c) \subseteq Nat /\ \A t, u \in Time(c) : t = u
  BY DEF Timed
<1>3. ASSUME NEW c
      PROVE  New(c) \in Nat /\ New(c) >= time /\ \A t \in Time(c) : New(c) >= t
  <2>1. CASE \E t \in Time(c) : t >= time
    <3>1. The(Time(c)) \in Time(c)
      BY <2>1 DEF The
    <3> HIDE DEF Time
    <3> QED BY <1>2, <2>1, <3>1
  <2>2. CASE ~\E t \in Time(c) : t >= time
    <3>1. New(c) = time
      BY <2>2
    <3> HIDE DEF Time, New
    <3>2. ASSUME NEW t \in Time(c) PROVE time >= t
      <4>1. t \in Nat /\ ~(t >= time)
        BY <1>2, <2>2
      <4> QED BY <4>1
    <3> QED BY <3>1, <3>2
  <2> QED BY <2>1, <2>2
<1>4. ASSUME NEW x \in Old PROVE x[2] \in Time(x[1])
  OBVIOUS
<1> HIDE DEF New
<1>5. ASSUME NEW x \in D
      PROVE  (x \in Old /\ x[1] \notin S) \/ (x[1] \in S /\ x[2] = New(x[1]))
  <2>1. CASE x \in Old /\ x[1] \notin S
    BY <2>1
  <2>2. CASE x \in {<<c, New(c)>> : c \in S}
    <3>1. PICK c \in S : x = <<c, New(c)>>
      BY <2>2
    <3>2. x[1] = c /\ x[2] = New(c)
      BY <3>1
    <3> QED BY <3>2
  <2> QED BY <1>1, <1>5, <2>1, <2>2
<1>6. ASSUME NEW c \in S PROVE <<c, New(c)>> \in D /\ <<c, New(c)>>[1] = c /\ <<c, New(c)>>[2] = New(c)
  BY <1>1, <1>6
<1>7. Timed(D)
  BY <1>3, <1>5 DEF Timed
<1>8. \A c \in S : AtLeast(D, c, time)
  BY <1>3, <1>6 DEF AtLeast
<1>9. ASSUME NEW c, NEW t \in Nat, AtLeast(Old, c, t) PROVE AtLeast(D, c, t)
  <2>1. PICK x \in Old : x[1] = c /\ x[2] >= t
    BY <1>9 DEF AtLeast
  <2>2. CASE c \in S
    <3>1. New(c) >= x[2] /\ New(c) \in Nat /\ x[2] \in Nat
      BY <1>2, <1>3, <1>4, <2>1
    <3>2. New(c) >= t
      BY <2>1, <3>1
    <3> QED BY <1>6, <2>2, <3>2 DEF AtLeast
  <2>3. CASE c \notin S
    BY <1>1, <2>1, <2>3 DEF AtLeast
  <2> QED BY <2>2, <2>3
<1> QED BY <1>7, <1>8, <1>9

\* The parts of the invariant
Vanished == \A i \in events : pubkey(i) \in vanished_public_keys => kind(i) = RequestToVanish
Deletes(del, i) ==
    /\ kind(del) = EventDeletion /\ HasCoordinate(i)
    /\ coordinate(i) \in coordinates(del)
    /\ is_replaceable(kind(i)) => coordinate(i).identifier = ""
DeletedStay == \A i, del \in events : Deletes(del, i) => created_at(i) > created_at(del)
DeletionsKnown ==
    \A del \in events : \A c \in coordinates(del) :
        kind(del) = EventDeletion => AtLeast(deleted_coordinates, c, created_at(del))

LEMMA TombstoneParts ==
    TombstonesInv <=> Untouched /\ Vanished /\ DeletedStay /\ Timed(deleted_coordinates) /\ DeletionsKnown
BY DEF TombstonesInv, TombstonesHold, Untouched, Vanished, DeletedStay, Deletes, Timed,
       DeletionsKnown, AtLeast

\* Taking events out does no harm.
LEMMA FewerHoldTombstones ==
    ASSUME TombstonesInv, events' \subseteq events, UNCHANGED tombstones
    PROVE  TombstonesInv'
<1>1. Untouched /\ Vanished /\ DeletedStay /\ Timed(deleted_coordinates) /\ DeletionsKnown
  BY TombstoneParts
<1>2. (Untouched /\ Vanished /\ DeletedStay /\ Timed(deleted_coordinates) /\ DeletionsKnown)'
  BY <1>1 DEF Untouched, Vanished, DeletedStay, DeletionsKnown, tombstones
<1>3. (Untouched /\ Vanished /\ DeletedStay /\ Timed(deleted_coordinates) /\ DeletionsKnown
        => TombstonesInv)'
  BY TombstoneParts, PTL
<1> QED BY <1>2, <1>3

\* Nor does an event that is not a deletion and is let through.
LEMMA OneMoreHoldsTombstones ==
    ASSUME TombstonesInv, events \subseteq Id, NEW i \in Id, Refusal(i) = "None",
           kind(i) # EventDeletion, events' \subseteq events \cup {i}, UNCHANGED tombstones
    PROVE  TombstonesInv'
<1>1. Untouched /\ Vanished /\ DeletedStay /\ Timed(deleted_coordinates) /\ DeletionsKnown
  BY TombstoneParts
<1>2. /\ i \notin deleted_ids /\ pubkey(i) \notin vanished_public_keys
      /\ HasCoordinate(i) =>
            \A x \in deleted_coordinates : x[1] = coordinate(i) => ~(created_at(i) <= x[2])
  BY Accepted
<1>3. Untouched' /\ Vanished'
  BY <1>1, <1>2 DEF Untouched, Vanished, tombstones
<1>4. ASSUME NEW j \in events', NEW del \in events', Deletes(del, j)
      PROVE  created_at(j) > created_at(del)
  <2>1. del \in events /\ kind(del) = EventDeletion
    BY <1>4 DEF Deletes
  <2>2. CASE j \in events
    BY <1>1, <1>4, <2>1, <2>2 DEF DeletedStay
  <2>3. CASE j = i
    <3>1. HasCoordinate(i) /\ coordinate(i) \in coordinates(del)
      BY <1>4, <2>3 DEF Deletes
    <3>2. PICK x \in deleted_coordinates : x[1] = coordinate(i) /\ x[2] >= created_at(del)
      BY <1>1, <2>1, <3>1 DEF DeletionsKnown, AtLeast
    <3>3. ~(created_at(i) <= x[2])
      BY <1>2, <3>1, <3>2
    <3>4. created_at(i) \in Nat /\ created_at(del) \in Nat /\ x[2] \in Nat
      BY <1>1, <2>1, EventsAreTyped DEF Timed
    <3> QED BY <2>3, <3>2, <3>3, <3>4
  <2> QED BY <2>2, <2>3
<1>5. DeletedStay'
  BY <1>4 DEF DeletedStay, Deletes
<1>6. DeletionsKnown' /\ Timed(deleted_coordinates)'
  BY <1>1 DEF DeletionsKnown, tombstones
<1>7. (Untouched /\ Vanished /\ DeletedStay /\ Timed(deleted_coordinates) /\ DeletionsKnown
        => TombstonesInv)'
  BY TombstoneParts, PTL
<1> QED BY <1>3, <1>5, <1>6, <1>7

LEMMA OneIsFound ==
    ASSUME Holds(events), Storable(events), Untouched, NEW i \in events,
           NEW until, InTime(i, 0, until), NEW k, NEW a, NEW d
    PROVE  /\ kind(i) = k /\ pubkey(i) = a => i \in internal_query_by_kind_and_author(k, a, 0, until)
           /\ is_addressable(k) /\ coordinate(i) = CoordinateOf(k, a, d) =>
                i \in internal_query_param_replaceable(k, a, d, 0, until)
BY KindsAreFound, CoordinatesAreFound

\* What a deletion looks for under a coordinate is all that is stored of it.
LEMMA UnderIsAll ==
    ASSUME Holds(events), Storable(events), Untouched, NEW i \in events,
           NEW until, InTime(i, 0, until), HasCoordinate(i),
           is_replaceable(kind(i)) => coordinate(i).identifier = ""
    PROVE  i \in UnderCoordinate(coordinate(i), until)
<1> PICK c : c = coordinate(i)
  OBVIOUS
<1>1. c.kind = kind(i) /\ c.pubkey = pubkey(i) /\ c = CoordinateOf(c.kind, c.pubkey, c.identifier)
  BY DEF coordinate, CoordinateOf
<1>2. CASE c.identifier # ""
  <2>1. UnderCoordinate(c, until) =
            internal_query_param_replaceable(c.kind, c.pubkey, c.identifier, 0, until)
    BY <1>2 DEF UnderCoordinate
  <2>2. is_addressable(c.kind)
    BY <1>1, <1>2 DEF HasCoordinate
  <2>3. PICK k, a, d : k = c.kind /\ a = c.pubkey /\ d = c.identifier
    OBVIOUS
  <2>4. coordinate(i) = CoordinateOf(k, a, d) /\ is_addressable(k)
    BY <1>1, <2>2, <2>3
  <2>5. i \in internal_query_param_replaceable(k, a, d, 0, until)
    BY <2>4, OneIsFound
  <2> QED BY <2>1, <2>3, <2>5
<1>3. CASE c.identifier = ""
  <2>1. UnderCoordinate(c, until) = internal_query_by_kind_and_author(c.kind, c.pubkey, 0, until)
    BY <1>3 DEF UnderCoordinate
  <2>2. PICK k, a : k = c.kind /\ a = c.pubkey
    OBVIOUS
  <2>3. i \in internal_query_by_kind_and_author(k, a, 0, until)
    BY <1>1, <2>2, OneIsFound
  <2> QED BY <2>1, <2>2, <2>3
<1> QED BY <1>2, <1>3

\* What a deletion reaches is marked and gone; it is stored only when it has
\* reached all that it names.
LEMMA DeletionHoldsTombstones ==
    ASSUME MapsInv, TombstonesInv, NEW i \in Id, SaveDeletion(i)
    PROVE  TombstonesInv'
<1>1. Untouched /\ Vanished /\ DeletedStay /\ Timed(deleted_coordinates) /\ DeletionsKnown
  BY TombstoneParts
<1>2. Holds(events) /\ Storable(events) /\ Few
  BY MapsParts
<1>3. /\ Refusal(i) = "None" /\ kind(i) = EventDeletion /\ ~HasCoordinate(i)
      /\ i \notin events /\ i \notin deleted_ids /\ pubkey(i) \notin vanished_public_keys
      /\ UNCHANGED vanished_public_keys
  BY <1>2, Accepted, DeletionParts, SpecialAreRegular DEF Holds
<1>4. PICK es \in Reached(event_ids(i) \cap ids, ForeignIds(i)),
           cs \in Reached(coordinates(i), ForeignCoordinates(i)) :
                /\ deleted_ids' = deleted_ids \cup Doomed(i, es)
                /\ deleted_coordinates' = mark_coordinates_deleted(cs, created_at(i))
                /\ IF ForeignIds(i) \cup ForeignCoordinates(i) = {}
                   THEN Store(Doomed(i, es) \cup Under(i, cs), i)
                   ELSE Keep(discard_events(Doomed(i, es) \cup Under(i, cs)))
  BY DeletionParts
<1> DEFINE Gone == Doomed(i, es) \cup Under(i, cs)
<1>5. created_at(i) \in Nat /\ Doomed(i, es) \subseteq events
  BY <1>1, <1>2, DeletionsAreOwn, EventsAreTyped
<1>6. Free(events \ Gone, i)
  BY <1>3, RegularAreFree
<1>7. /\ events' \subseteq (events \ Gone) \cup {i}
      /\ i \in events' => cs = coordinates(i)
  <2>1. CASE ForeignIds(i) \cup ForeignCoordinates(i) = {}
    <3>1. Store(Gone, i)
      BY <1>4, <2>1
    <3>2. cs = coordinates(i)
      BY <2>1, ReachedIsOwn
    <3> HIDE DEF Gone
    <3>3. PICK evicted : events' = ((events \ Gone) \cup {i}) \ evicted
      BY <1>2, <1>3, <1>6, <3>1, StoringKeepsMaps
    <3> QED BY <3>2, <3>3
  <2>2. CASE ForeignIds(i) \cup ForeignCoordinates(i) # {}
    <3>1. Keep(discard_events(Gone))
      BY <1>4, <2>2
    <3> HIDE DEF Gone
    <3>2. events' = events \ Gone
      BY <1>2, <3>1, KeepingKeepsMaps
    <3> QED BY <1>3, <3>2
  <2> QED BY <2>1, <2>2
<1>8. Untouched'
  BY <1>1, <1>3, <1>4, <1>5, <1>7 DEF Untouched
<1>9. Vanished'
  BY <1>1, <1>3, <1>7 DEF Vanished
<1>10. /\ Timed(deleted_coordinates)'
       /\ \A c \in cs : AtLeast(deleted_coordinates', c, created_at(i))
       /\ \A c : \A t \in Nat : AtLeast(deleted_coordinates, c, t) => AtLeast(deleted_coordinates', c, t)
  <2>1. PICK D : D = deleted_coordinates'
    OBVIOUS
  <2>2. D = mark_coordinates_deleted(cs, created_at(i))
    BY <1>4, <2>1
  <2>3. /\ Timed(D)
        /\ \A c \in cs : AtLeast(D, c, created_at(i))
        /\ \A c : \A t \in Nat : AtLeast(deleted_coordinates, c, t) => AtLeast(D, c, t)
    BY <1>1, <1>5, <2>2, TimesOnlyGrow
  <2> QED BY <2>1, <2>3 DEF Timed
<1>11. DeletionsKnown'
  <2> SUFFICES ASSUME NEW del \in events', NEW c \in coordinates(del), kind(del) = EventDeletion
               PROVE  AtLeast(deleted_coordinates', c, created_at(del))
    BY DEF DeletionsKnown, AtLeast
  <2>1. CASE del = i
    BY <1>7, <1>10, <2>1
  <2>2. CASE del \in events
    <3>1. created_at(del) \in Nat /\ AtLeast(deleted_coordinates, c, created_at(del))
      BY <1>1, <1>2, <2>2, EventsAreTyped DEF DeletionsKnown, Storable
    <3> QED BY <1>10, <3>1
  <2> QED BY <1>7, <2>1, <2>2
<1>12. ASSUME NEW j \in events', NEW del \in events', Deletes(del, j)
       PROVE  created_at(j) > created_at(del)
  <2>1. j \in events /\ j \notin Gone
    BY <1>3, <1>7, <1>12 DEF Deletes
  <2>2. CASE del \in events
    BY <1>1, <1>12, <2>1, <2>2 DEF DeletedStay
  <2>3. CASE del = i
    <3>1. coordinate(j) \in cs
      BY <1>7, <1>12, <2>3 DEF Deletes
    <3>2. created_at(j) \in Nat
      BY <1>2, <2>1, EventsAreTyped DEF Storable
    <3>3. ASSUME created_at(j) <= created_at(i) PROVE FALSE
      <4>1. j \in UnderCoordinate(coordinate(j), created_at(i))
        <5>1. InTime(j, 0, created_at(i))
          BY <3>2, <3>3 DEF InTime
        <5> QED BY <1>1, <1>2, <1>12, <2>1, <5>1, UnderIsAll DEF Deletes
      <4>2. j \in Under(i, cs)
        BY <3>1, <4>1 DEF Under
      <4> QED BY <2>1, <4>2
    <3> QED BY <1>5, <2>3, <3>2, <3>3
  <2> QED BY <1>7, <2>2, <2>3
<1>13. DeletedStay'
  BY <1>12 DEF DeletedStay, Deletes
<1>14. (Untouched /\ Vanished /\ DeletedStay /\ Timed(deleted_coordinates) /\ DeletionsKnown
        => TombstonesInv)'
  BY TombstoneParts, PTL
<1> QED BY <1>8, <1>9, <1>10, <1>11, <1>13, <1>14

\* Who vanishes takes all of its events but the request.
LEMMA VanishHoldsTombstones ==
    ASSUME MapsInv, TombstonesInv, NEW i \in Id, SaveVanish(i)
    PROVE  TombstonesInv'
<1>1. Untouched /\ Vanished /\ DeletedStay /\ Timed(deleted_coordinates) /\ DeletionsKnown
  BY TombstoneParts
<1>2. Holds(events) /\ Storable(events) /\ Few
  BY MapsParts
<1> DEFINE mine == internal_query_by_author(pubkey(i), 0, MaxTime)
           S == mine \cup internal_generic_query(Wraps(i))
<1>3. /\ Refusal(i) = "None" /\ kind(i) = RequestToVanish /\ Store(S, i)
      /\ vanished_public_keys' = vanished_public_keys \cup {pubkey(i)}
      /\ UNCHANGED <<deleted_ids, deleted_coordinates>>
  BY DEF SaveVanish, Wraps
<1>4. ~HasCoordinate(i) /\ i \notin events /\ i \notin deleted_ids /\ kind(i) # EventDeletion
  BY <1>2, <1>3, Accepted, SpecialAreRegular, EventsAreTyped, KindsAreApart DEF Holds
<1>5. mine = {j \in events : pubkey(j) = pubkey(i)}
  BY <1>1, <1>2, AuthorsAreFound, AlwaysInTime DEF Storable
<1> HIDE DEF mine
<1>6. Free(events \ S, i)
  BY <1>4, RegularAreFree
<1>7. events' \subseteq (events \ mine) \cup {i}
  <2> HIDE DEF S
  <2>1. PICK evicted : events' = ((events \ S) \cup {i}) \ evicted
    BY <1>2, <1>3, <1>4, <1>6, StoringKeepsMaps
  <2> QED BY <2>1 DEF S
<1>8. Untouched'
  BY <1>1, <1>3, <1>4, <1>7 DEF Untouched
<1>9. Vanished'
  BY <1>1, <1>3, <1>5, <1>7 DEF Vanished
<1>10. DeletedStay'
  BY <1>1, <1>4, <1>7 DEF DeletedStay, Deletes
<1>11. DeletionsKnown' /\ Timed(deleted_coordinates)'
  BY <1>1, <1>3, <1>4, <1>7 DEF DeletionsKnown, Timed
<1>12. (Untouched /\ Vanished /\ DeletedStay /\ Timed(deleted_coordinates) /\ DeletionsKnown
        => TombstonesInv)'
  BY TombstoneParts, PTL
<1> QED BY <1>8, <1>9, <1>10, <1>11, <1>12

\* An event with a coordinate takes the place of its versions, or none does.
LEMMA VersionHoldsTombstones ==
    ASSUME MapsInv, TombstonesInv, NEW i \in Id, SaveVersion(i)
    PROVE  TombstonesInv'
<1>1. Holds(events) /\ Storable(events) /\ Few /\ Untouched
  BY MapsParts, TombstoneParts
<1>2. Refusal(i) = "None" /\ HasCoordinate(i) /\ UNCHANGED tombstones
  BY DEF SaveVersion, tombstones
<1>3. kind(i) # EventDeletion
  BY <1>2, SpecialAreRegular
<1>4. events \subseteq Id
  BY <1>1 DEF Storable
<1>5. Save(i) /\ ~Refuse(i)
  BY <1>2 DEF Save, Refuse
<1>6. i \notin events
  BY <1>1, <1>5, SavesReplace
<1>7. PICK S : Replaces(i, S)
  BY <1>1, <1>5, SavesReplace
<1>8. events' \subseteq events \cup {i}
  <2>1. CASE Keep(discard_events(S))
    <3>1. events' = events \ S
      BY <1>1, <2>1, KeepingKeepsMaps
    <3> QED BY <3>1
  <2>2. CASE Free(events \ S, i) /\ Store(S, i)
    <3>1. PICK evicted : events' = ((events \ S) \cup {i}) \ evicted
      BY <1>1, <1>6, <2>2, StoringKeepsMaps
    <3> QED BY <3>1
  <2> QED BY <1>7, <2>1, <2>2 DEF Replaces
<1> QED BY <1>2, <1>3, <1>4, <1>8, OneMoreHoldsTombstones

LEMMA RegularHoldsTombstones ==
    ASSUME MapsInv, TombstonesInv, NEW i \in Id, SaveRegular(i)
    PROVE  TombstonesInv'
<1>1. Holds(events) /\ Storable(events) /\ Few
  BY MapsParts
<1>2. /\ Refusal(i) = "None" /\ ~HasCoordinate(i) /\ kind(i) # EventDeletion /\ Store({}, i)
      /\ UNCHANGED tombstones
  BY DEF SaveRegular, tombstones
<1>3. i \notin events /\ events \subseteq Id
  BY <1>1, <1>2, Accepted DEF Holds, Storable
<1>4. Free(events \ {}, i)
  BY <1>2, RegularAreFree
<1>5. PICK evicted : events' = ((events \ {}) \cup {i}) \ evicted
  BY <1>1, <1>2, <1>3, <1>4, StoringKeepsMaps
<1>6. events' \subseteq events \cup {i}
  BY <1>5
<1> QED BY <1>2, <1>3, <1>6, OneMoreHoldsTombstones

\* An empty store has no tombstone to contradict.
LEMMA NothingContradicts ==
    ASSUME events = {}, deleted_coordinates = {}
    PROVE  TombstonesInv
BY DEF TombstonesInv, TombstonesHold

LEMMA NextTombstones == MapsInv /\ TombstonesInv /\ [Next]_vars => TombstonesInv'
<1> SUFFICES ASSUME MapsInv, TombstonesInv, [Next]_vars PROVE TombstonesInv'
  OBVIOUS
<1>1. Holds(events) /\ Storable(events) /\ Few
  BY MapsParts
<1>2. ASSUME UNCHANGED <<events, tombstones>> PROVE TombstonesInv'
  BY <1>2, FewerHoldTombstones
<1>3. ASSUME NEW i \in Id, Save(i) PROVE TombstonesInv'
  <2>1. CASE Refuse(i)
    BY <1>2, <2>1 DEF Refuse, vars, store
  <2> QED BY <1>3, <2>1, VersionHoldsTombstones, RegularHoldsTombstones,
             DeletionHoldsTombstones, VanishHoldsTombstones DEF Save
<1>4. ASSUME clear PROVE TombstonesInv'
  <2>1. events' = {} /\ deleted_coordinates' = {}
    BY <1>4 DEF clear
  <2>2. (events = {} /\ deleted_coordinates = {} => TombstonesInv)'
    BY NothingContradicts, PTL
  <2> QED BY <2>1, <2>2
<1>5. ASSUME NEW f \in DeleteFilter, Delete(f) PROVE TombstonesInv'
  <2>1. CASE \E S : Keep(discard_events(S)) /\ UNCHANGED tombstones
    <3>1. PICK S : Keep(discard_events(S)) /\ UNCHANGED tombstones
      BY <2>1
    <3>2. events' = events \ S
      BY <1>1, <3>1, KeepingKeepsMaps
    <3> QED BY <3>1, <3>2, FewerHoldTombstones
  <2> QED BY <1>4, <1>5, <2>1 DEF Delete, tombstones
<1>6. CASE Tick
  BY <1>2, <1>6 DEF Tick, store
<1>7. CASE UNCHANGED vars
  BY <1>2, <1>7 DEF vars, store
<1> QED BY <1>3, <1>4, <1>5, <1>6, <1>7 DEF Next, Wipe

-----------------------------------------------------------------------------
(* The theorems                                                            *)

\* The maps and the tombstones hold each other up: a deletion finds what it is
\* to remove only if the maps know every event, and a version is found in the
\* maps only if no stored event is marked as deleted.
StoreInv == MapsInv /\ TombstonesInv

THEOREM StoreInvariant == Spec => []StoreInv
<1>1. Init => StoreInv
  <2> SUFFICES ASSUME Init PROVE StoreInv
    OBVIOUS
  <2>1. Holds(events) /\ Storable(events) /\ Few
    BY NothingIsHeld DEF Init, Empty
  <2>2. OthersTyped
    BY StoreAssumption DEF Init, Empty, OthersTyped
  <2>3. TombstonesInv
    BY NothingContradicts DEF Init, Empty
  <2> QED BY <2>1, <2>2, <2>3, MapsParts DEF StoreInv
<1>2. StoreInv /\ [Next]_vars => StoreInv'
  <2>1. TombstonesInv => Untouched
    BY TombstoneParts
  <2> QED BY <2>1, NextMaps, NextTombstones DEF StoreInv
<1> QED BY <1>1, <1>2, PTL DEF Spec

\* The sorted set and the four maps name the same events, after any sequence
\* of saves, replacements, deletions, evictions and wipes
\* (internal_index_event, discard_events, discard_event).
THEOREM MapsAreKept == Spec => []MapsAgree
<1>1. StoreInv => MapsAgree
  BY DEF StoreInv, MapsInv
<1> QED BY <1>1, StoreInvariant, PTL

\* No stored event contradicts a tombstone, in whatever order deletions and
\* versions arrive (mark_coordinate_deleted, "Update only if newer").
THEOREM TombstonesAreKept == Spec => []TombstonesHold
<1>1. StoreInv => TombstonesHold
  BY DEF StoreInv, TombstonesInv
<1> QED BY <1>1, StoreInvariant, PTL

\* What a save takes from other authors is one event at most, which a full
\* store evicts for the new one.
LEMMA SavesTakeOwn ==
    ASSUME StoreInv, NEW i \in Id, Save(i)
    PROVE  /\ i \notin events' => OfOthers(i) = {}
           /\ Cardinality(OfOthers(i)) <= 1
           /\ OfOthers(i) # {} => Cardinality(events) = Capacity
<1>1. Holds(events) /\ Storable(events) /\ Few /\ Untouched
  BY MapsParts, TombstoneParts DEF StoreInv
<1>2. Cardinality({}) = 0
  BY FS_EmptySet
<1>3. CASE events' = events
  <2>1. OfOthers(i) = {}
    BY <1>3 DEF OfOthers
  <2> QED BY <1>2, <2>1
<1>4. CASE events' # events
  <2>1. ~Refuse(i)
    BY <1>4 DEF Refuse, vars, store
  <2>2. i \notin events
    BY <1>1, <2>1, SavesReplace
  <2>3. PICK S, evicted :
            /\ Own(i, S) /\ \A j, k \in evicted : j = k
            /\ evicted # {} => Cardinality(events) = Capacity
            /\ \/ events' = events \ S /\ evicted = {}
               \/ events' = ((events \ S) \cup {i}) \ evicted
    BY <1>1, <1>4, SavingKeepsMaps
  <2>4. OfOthers(i) \subseteq evicted
    <3>1. \A j \in OfOthers(i) : j \notin S
      BY <2>3 DEF OfOthers, Own
    <3> QED BY <2>3, <3>1 DEF OfOthers
  <2>5. i \notin events' => OfOthers(i) = {}
    <3>1. ASSUME i \notin events', NEW j \in OfOthers(i) PROVE FALSE
      <4>1. j \in evicted /\ j \in events
        BY <2>4, <3>1 DEF OfOthers
      <4>2. i \in evicted
        BY <2>3, <3>1, <4>1
      <4> QED BY <2>2, <2>3, <4>1, <4>2
    <3> QED BY <3>1
  <2>6. CASE OfOthers(i) = {}
    BY <1>2, <2>6
  <2>7. CASE OfOthers(i) # {}
    <3>1. PICK j : OfOthers(i) = {j}
      BY <2>3, <2>4, <2>7
    <3>2. Cardinality(OfOthers(i)) = 1
      BY <3>1, FS_Singleton
    <3> QED BY <2>3, <2>4, <2>5, <2>7, <3>2
  <2> QED BY <2>6, <2>7
<1> QED BY <1>3, <1>4

\* Saving never takes out an event of another author, but for an eviction and
\* the gift wraps of who vanishes, and a refused event takes out none
\* (the checks on the author in internal_index_event).
THEOREM OnlyOwnAreDeleted == Spec => OnlyOwnDeletes
<1>1. StoreInv /\ [Next]_vars =>
        [\A i \in Id : (events' # events /\ Save(i)) =>
            /\ i \notin events' => OfOthers(i) = {}
            /\ Cardinality(OfOthers(i)) <= 1
            /\ OfOthers(i) # {} => Cardinality(events) = Capacity]_events
  BY SavesTakeOwn
<1> QED BY <1>1, StoreInvariant, PTL DEF Spec, OnlyOwnDeletes

-----------------------------------------------------------------------------
(* Queries                                                                 *)

LEMMA SinglesHaveOne ==
    ASSUME NEW S, IsFiniteSet(S), IsSingle(S)
    PROVE  S = {The(S)}
<1>1. PICK x : S = {x}
  BY FS_Singleton DEF IsSingle
<1> QED BY <1>1 DEF The

Matching(f) == {i \in events : match_event(f, i)}

\* Every plan finds what matches.
LEMMA AuthorPlan ==
    ASSUME Holds(events), Storable(events), Untouched, NEW f, NEW a,
           f.authors = {a}, f.ids = {}, f.kinds = {}, DOMAIN f.tags = {}
    PROVE  internal_query_by_author(a, f.since, f.until) = Matching(f)
<1> PICK since, until : since = f.since /\ until = f.until
  OBVIOUS
<1>1. internal_query_by_author(a, since, until) =
        {i \in events : pubkey(i) = a /\ InTime(i, since, until)}
  BY AuthorsAreFound
<1>2. \A i : match_event(f, i) <=> pubkey(i) = a /\ InTime(i, since, until)
  BY DEF match_event, tag_match, InTime
<1> QED BY <1>1, <1>2 DEF Matching

LEMMA KindPlan ==
    ASSUME Holds(events), Storable(events), Untouched, NEW f, NEW a, NEW k,
           f.authors = {a}, f.ids = {}, f.kinds = {k}, DOMAIN f.tags = {}
    PROVE  internal_query_by_kind_and_author(k, a, f.since, f.until) = Matching(f)
<1> PICK since, until : since = f.since /\ until = f.until
  OBVIOUS
<1>1. internal_query_by_kind_and_author(k, a, since, until) =
        {i \in events : kind(i) = k /\ pubkey(i) = a /\ InTime(i, since, until)}
  BY KindsAreFound
<1>2. \A i : match_event(f, i) <=> kind(i) = k /\ pubkey(i) = a /\ InTime(i, since, until)
  BY DEF match_event, tag_match, InTime
<1> QED BY <1>1, <1>2 DEF Matching

LEMMA CoordinatePlan ==
    ASSUME Holds(events), Storable(events), Untouched, NEW f, NEW a, NEW k, NEW d,
           f.authors = {a}, f.ids = {}, f.kinds = {k}, is_addressable(k),
           DOMAIN f.tags = {"d"}, f.tags["d"] = {d}
    PROVE  internal_query_param_replaceable(k, a, d, f.since, f.until) = Matching(f)
<1> PICK since, until : since = f.since /\ until = f.until
  OBVIOUS
<1>1. internal_query_param_replaceable(k, a, d, since, until) =
        {i \in events : /\ is_addressable(k) /\ coordinate(i) = CoordinateOf(k, a, d)
                        /\ InTime(i, since, until)}
  BY CoordinatesAreFound
<1>2. \A i \in events : match_event(f, i) <=>
                kind(i) = k /\ pubkey(i) = a /\ InTime(i, since, until) /\ d \in identifier(i)
  <2> TAKE i \in events
  <2>1. Event[i].tags["d"] = identifier(i)
    BY OneIdentifier DEF Storable
  <2> QED BY <2>1 DEF match_event, tag_match, InTime
<1>3. ASSUME NEW i \in events, kind(i) = k
      PROVE  coordinate(i) = CoordinateOf(k, a, d) <=> pubkey(i) = a /\ d \in identifier(i)
  <2>1. identifier(i) # {} /\ \A c, e \in identifier(i) : c = e
    BY <1>3, EventsAreTyped DEF Storable
  <2>2. coordinate(i) = CoordinateOf(kind(i), pubkey(i), CHOOSE e \in identifier(i) : TRUE)
    BY <2>1 DEF coordinate, CoordinateOf
  <2>3. PICK e : e = (CHOOSE c \in identifier(i) : TRUE)
    OBVIOUS
  <2>4. e \in identifier(i)
    BY <2>1, <2>3
  <2> QED BY <1>3, <2>1, <2>2, <2>3, <2>4 DEF CoordinateOf
<1>4. \A i : coordinate(i) = CoordinateOf(k, a, d) => kind(i) = k
  BY CoordinateParts DEF CoordinateOf
<1> QED BY <1>1, <1>2, <1>3, <1>4 DEF Matching

LEMMA PlansAgree ==
    ASSUME Holds(events), Storable(events), Untouched, NEW f \in QueryFilter, ReadWhole(f)
    PROVE  QueryPatterns(f) = {Matching(f)}
<1>1. IsFiniteSet(f.authors) /\ IsFiniteSet(f.kinds) /\ \A n \in DOMAIN f.tags : IsFiniteSet(f.tags[n])
  BY StoreAssumption
<1>2. CASE IsSingle(f.authors) /\ f.ids = {} /\ f.kinds = {} /\ DOMAIN f.tags = {}
  <2>1. PICK a : f.authors = {a} /\ a = The(f.authors)
    BY <1>1, <1>2, SinglesHaveOne
  <2>2. QueryPatterns(f) = {internal_query_by_author(a, f.since, f.until)}
    BY <1>2, <2>1 DEF QueryPatterns
  <2> QED BY <1>2, <2>1, <2>2, AuthorPlan
<1>3. CASE IsSingle(f.authors) /\ f.ids = {} /\ IsSingle(f.kinds) /\ DOMAIN f.tags = {}
  <2>1. PICK a, k : f.authors = {a} /\ a = The(f.authors) /\ f.kinds = {k} /\ k = The(f.kinds)
    BY <1>1, <1>3, SinglesHaveOne
  <2>2. QueryPatterns(f) = {internal_query_by_kind_and_author(k, a, f.since, f.until)}
    BY <1>3, <2>1 DEF QueryPatterns
  <2> QED BY <1>3, <2>1, <2>2, KindPlan
<1>4. CASE /\ IsSingle(f.authors) /\ f.ids = {} /\ IsSingle(f.kinds) /\ HasIdentifier(f)
           /\ is_addressable(The(f.kinds))
  <2>1. PICK a, k : f.authors = {a} /\ a = The(f.authors) /\ f.kinds = {k} /\ k = The(f.kinds)
    BY <1>1, <1>4, SinglesHaveOne
  <2>2. DOMAIN f.tags = {"d"} /\ IsSingle(f.tags["d"])
    BY <1>4 DEF ReadWhole
  <2>3. PICK d : f.tags["d"] = {d}
    BY <1>1, <2>2, SinglesHaveOne
  <2>4. QueryPatterns(f) = {internal_query_param_replaceable(k, a, d, f.since, f.until)}
    <3>1. QueryPatterns(f) =
            {internal_query_param_replaceable(k, a, e, f.since, f.until) : e \in f.tags["d"]}
      BY <1>4, <2>1, <2>2 DEF QueryPatterns
    <3> QED BY <2>3, <3>1
  <2> QED BY <1>4, <2>1, <2>2, <2>3, <2>4, CoordinatePlan
<1>5. CASE /\ ~(IsSingle(f.authors) /\ f.ids = {} /\ f.kinds = {} /\ DOMAIN f.tags = {})
           /\ ~(IsSingle(f.authors) /\ f.ids = {} /\ IsSingle(f.kinds) /\ DOMAIN f.tags = {})
           /\ ~(/\ IsSingle(f.authors) /\ f.ids = {} /\ IsSingle(f.kinds) /\ HasIdentifier(f)
                /\ is_addressable(The(f.kinds)))
  <2>1. QueryPatterns(f) = {internal_generic_query(f)}
    BY <1>5 DEF QueryPatterns
  <2> QED BY <2>1, EverythingIsFound DEF Matching
<1> QED BY <1>2, <1>3, <1>4, <1>5

LEMMA EverythingMatches ==
    ASSUME events \subseteq Id
    PROVE  Answer(events, AnyFilter) = events
<1>1. ASSUME NEW i \in events PROVE match_event(AnyFilter, i)
  <2>1. created_at(i) \in Nat /\ created_at(i) <= MaxTime
    BY EventsAreTyped
  <2>2. AnyFilter.since = 0 /\ AnyFilter.until = MaxTime
    BY DEF AnyFilter
  <2>3. /\ AnyFilter.ids = {} /\ AnyFilter.authors = {} /\ AnyFilter.kinds = {}
        /\ DOMAIN AnyFilter.tags = {}
    BY DEF AnyFilter
  <2>4. created_at(i) >= AnyFilter.since /\ created_at(i) <= AnyFilter.until
    BY <2>1, <2>2
  <2> QED BY <2>3, <2>4 DEF match_event, tag_match
<1>2. AnyFilter.limit = NoLimit
  BY DEF AnyFilter
<1> QED BY <1>1, <1>2 DEF Answer, Newest

\* Every plan of a query answers with the newest "limit" events that match,
\* whichever map it reads (QueryPattern, internal_query).
THEOREM QueriesAnswer == Spec => []QueriesAreRight
<1>1. StoreInv => QueriesAreRight
  <2> SUFFICES ASSUME StoreInv, NEW f \in QueryFilter, ReadWhole(f)
               PROVE  query(f) = {Answer(events, f)}
    BY DEF QueriesAreRight
  <2>1. Holds(events) /\ Storable(events) /\ Untouched
    BY MapsParts, TombstoneParts DEF StoreInv
  <2>2. CASE f = AnyFilter
    BY <2>1, <2>2, EverythingMatches DEF query, Storable
  <2>3. CASE f # AnyFilter
    <3>1. query(f) = {Newest(Matching(f), f.limit)}
      BY <2>1, <2>3, PlansAgree DEF query
    <3> QED BY <3>1 DEF Answer, Matching
  <2> QED BY <2>2, <2>3
<1> QED BY <1>1, StoreInvariant, PTL
=============================================================================
