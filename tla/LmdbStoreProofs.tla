---------------------------- MODULE LmdbStoreProofs ----------------------------
(* Theorems of the LMDB event store.  First the tables: saving, deleting,  *)
(* maintenance and the upgrades each turn whole tables into whole tables   *)
(* (Good), so the disk and the transaction are whole at every step         *)
(* (StoreInv).  Then the refinement: while a transaction is not broken,    *)
(* its tables are what the requests of the batch, made one after the       *)
(* other, lead to from the committed ones (Trail); a commit is therefore   *)
(* one step of the atomic store, and every other step is another of its    *)
(* steps or none.  Last the queries: on whole tables every plan answers    *)
(* with the newest events that match (Found), however its scans are        *)
(* ordered; and those who wait: their requests are in line, each once      *)
(* (LineInv).                                                              *)
EXTENDS LmdbStore, SequenceTheorems, FiniteSetTheorems, WellFoundedInduction, TLAPS

-----------------------------------------------------------------------------
(* The tables                                                              *)

LEMMA EventsAreTyped ==
    ASSUME NEW i \in Id
    PROVE  /\ i \in Nat /\ created_at(i) \in Nat /\ 0 <= created_at(i) /\ created_at(i) <= MaxTime
           /\ kind(i) \in Nat /\ event_ids(i) \subseteq Nat /\ pubkey(i) \in Author
           /\ \A c, d \in identifier(i) : c = d
<1>1. MaxTime \in Nat
  BY SMT DEF MaxTime
<1>2. /\ Event[i].created_at \in 0 .. MaxTime /\ Event[i].kind \in Nat /\ i \in Nat
      /\ Event[i].e \subseteq Nat
  BY EventAssumption
<1>3. \A c, d \in identifier(i) : c = d
  BY EventAssumption DEF identifier
<1> QED BY <1>1, <1>2, <1>3 DEF created_at, kind, event_ids, Author

LEMMA AlwaysInTime == \A i \in Id : InTime(i, 0, MaxTime)
BY EventsAreTyped DEF InTime

LEMMA KindsAreApart ==
    ASSUME NEW k \in Nat
    PROVE  /\ ~(is_replaceable(k) /\ is_addressable(k))
           /\ k = EventDeletion \/ k = RequestToVanish => ~is_replaceable(k) /\ ~is_addressable(k)
           /\ EventDeletion # RequestToVanish
BY DEF is_replaceable, is_addressable, EventDeletion, RequestToVanish

\* Tables of an open store
Good(d) == d \in Tables /\ Consistent(d) /\ OneVersion(d) /\ HoldIn(d)
Marks == (UNION {coordinates(i) : i \in Id}) \X Nat

LEMMA KeptIsGood ==
    ASSUME NEW d
    PROVE  Kept(d, DB_VERSION) <=> Good(d)
<1>1. DB_VERSION \in Nat /\ DB_VERSION <= DB_VERSION /\ ~(DB_VERSION < 2) /\ ~(DB_VERSION < DB_VERSION)
  BY DEF DB_VERSION
<1> QED BY <1>1 DEF Kept, Good, Consistent

LEMMA TablesTyped ==
    ASSUME NEW d \in Tables
    PROVE  /\ d.events \subseteq Id /\ d.index \in [IndexTable -> SUBSET Id] /\ d.deleted \subseteq Id
           /\ d.claims \subseteq Nat \X Author /\ d.coordinates \subseteq Marks
           /\ d.vanished \subseteq Author
BY DEF Tables, Marks

LEMMA EmptyIsGood == Good(EmptyTables)
<1>1. EmptyTables \in Tables
  BY DEF EmptyTables, Tables
<1>2. /\ EmptyTables.events = {} /\ EmptyTables.deleted = {}
      /\ EmptyTables.index = [t \in IndexTable |-> {}]
  BY DEF EmptyTables
<1> QED BY <1>1, <1>2 DEF Good, Consistent, OneVersion, HoldIn

LEMMA Removing ==
    ASSUME NEW d \in Tables, NEW S
    PROVE  /\ remove(d, S) \in Tables
           /\ remove(d, S).events = d.events \ S
           /\ \A t \in IndexTable : remove(d, S).index[t] = d.index[t] \ S
           /\ remove(d, S).deleted = d.deleted /\ remove(d, S).claims = d.claims
           /\ remove(d, S).coordinates = d.coordinates /\ remove(d, S).vanished = d.vanished
BY DEF remove, Tables

LEMMA Storing ==
    ASSUME NEW d \in Tables, NEW i \in Id
    PROVE  /\ store(d, i) \in Tables
           /\ store(d, i).events = d.events \cup {i}
           /\ \A t \in IndexTable : store(d, i).index[t] = d.index[t] \cup {i}
           /\ store(d, i).deleted = d.deleted /\ store(d, i).claims = d.claims
           /\ store(d, i).coordinates = d.coordinates /\ store(d, i).vanished = d.vanished
BY DEF store, Tables

LEMMA FewerAreGood ==
    ASSUME NEW d, Good(d), NEW S
    PROVE  Good(remove(d, S))
<1> PICK r : r = remove(d, S)
  OBVIOUS
<1>1. /\ r \in Tables /\ r.events = d.events \ S
      /\ \A t \in IndexTable : r.index[t] = d.index[t] \ S
      /\ r.deleted = d.deleted /\ r.claims = d.claims
      /\ r.coordinates = d.coordinates /\ r.vanished = d.vanished
  BY Removing DEF Good
<1>2. Consistent(r) /\ OneVersion(r)
  BY <1>1 DEF Good, Consistent, OneVersion
<1>3. HoldIn(r)
  BY <1>1 DEF Good, HoldIn, is_claimed, is_coordinate_deleted
<1> QED BY <1>1, <1>2, <1>3 DEF Good

LEMMA ReindexedIsGood ==
    ASSUME NEW d, d \in Tables, OneVersion(d)
    PROVE  Good(reindex(d))
<1> PICK r : r = reindex(d)
  OBVIOUS
<1>1. /\ r \in Tables /\ r.events = d.events
      /\ \A t \in IndexTable : r.index[t] = d.events
      /\ r.deleted = {} /\ r.claims = {} /\ r.coordinates = {} /\ r.vanished = {}
  <2>1. r = [events |-> d.events, index |-> [t \in IndexTable |-> d.events], deleted |-> {},
             claims |-> {}, coordinates |-> {}, vanished |-> {}]
    BY DEF reindex, wipe_indexes, EmptyTables
  <2> QED BY <2>1 DEF Tables
<1>2. Consistent(r) /\ OneVersion(r)
  BY <1>1 DEF Consistent, OneVersion
<1>3. HoldIn(r)
  BY <1>1 DEF HoldIn, is_claimed, is_coordinate_deleted
<1> QED BY <1>1, <1>2, <1>3 DEF Good

-----------------------------------------------------------------------------
(* Coordinates                                                             *)

LEMMA CoordinateParts ==
    ASSUME NEW i \in Id
    PROVE  /\ coordinate(i).kind = kind(i) /\ coordinate(i).pubkey = pubkey(i)
           /\ identifier(i) # {} => \A d : d = coordinate(i).identifier <=> d \in identifier(i)
<1>1. identifier(i) # {} => (CHOOSE d \in identifier(i) : TRUE) \in identifier(i)
  OBVIOUS
<1> QED BY <1>1, EventsAreTyped DEF coordinate

\* An event whose coordinate the tables can find it by
Findable(i) == is_replaceable(kind(i)) \/ (is_addressable(kind(i)) /\ identifier(i) # {})

LEMMA OneIsFound ==
    ASSUME NEW d, d \in Tables, Consistent(d), NEW j \in d.events, NEW a, NEW k, NEW v, NEW until,
           InTime(j, 0, until), pubkey(j) = a
    PROVE  /\ kind(j) = k => j \in akc_iter(d, a, k, 0, until)
           /\ v \in identifier(j) => j \in atc_iter(d, a, "d", v, 0, until)
<1>1. j \in d.index["akc"] /\ j \in d.index["atc"]
  BY DEF Consistent, IndexTable
<1>2. Event[j].tags["d"] = identifier(j)
  BY TablesTyped, OneIdentifier
<1> QED BY <1>1, <1>2 DEF akc_iter, atc_iter

\* The range under a coordinate holds every stored event of it.
LEMMA UnderIsAll ==
    ASSUME NEW d, Good(d), NEW j \in d.events, Findable(j), NEW c, c = coordinate(j),
           NEW until, InTime(j, 0, until)
    PROVE  j \in UnderCoordinate(d, c, until)
<1>1. j \in Id
  BY TablesTyped DEF Good
<1>2. /\ c.kind = kind(j) /\ c.pubkey = pubkey(j)
      /\ identifier(j) # {} => c.identifier \in identifier(j)
  BY <1>1, CoordinateParts
<1>3. ~(is_replaceable(kind(j)) /\ is_addressable(kind(j)))
  BY <1>1, EventsAreTyped, KindsAreApart
<1>4. PICK a, k, v : a = c.pubkey /\ k = c.kind /\ v = c.identifier
  OBVIOUS
<1>5. /\ j \in akc_iter(d, a, k, 0, until)
      /\ v \in identifier(j) => j \in atc_iter(d, a, "d", v, 0, until)
  BY <1>2, <1>4, OneIsFound DEF Good
<1>6. CASE is_replaceable(kind(j))
  BY <1>2, <1>4, <1>5, <1>6 DEF UnderCoordinate
<1>7. CASE is_addressable(kind(j)) /\ identifier(j) # {}
  BY <1>2, <1>3, <1>4, <1>5, <1>7 DEF UnderCoordinate
<1> QED BY <1>6, <1>7 DEF Findable

\* The range of the versions of an event holds those and no other.
LEMMA VersionsAreAll ==
    ASSUME NEW d, Good(d), NEW i \in Id, Findable(i), NEW R, R = UnderCoordinate(d, coordinate(i), MaxTime)
    PROVE  R = {j \in d.events : SameAddress(j, i)}
<1> PICK c, a, k, v : c = coordinate(i) /\ a = c.pubkey /\ k = c.kind /\ v = c.identifier
  OBVIOUS
<1>1. /\ k = kind(i) /\ a = pubkey(i)
      /\ identifier(i) # {} => \A w : w = v <=> w \in identifier(i)
  BY CoordinateParts
<1>2. ~(is_replaceable(kind(i)) /\ is_addressable(kind(i)))
  BY EventsAreTyped, KindsAreApart
<1>3. /\ d.events \subseteq Id
      /\ d.index["akc"] = d.events /\ d.index["atc"] = d.events
  BY TablesTyped DEF Good, Consistent, IndexTable
<1>4. \A j \in d.events : InTime(j, 0, MaxTime)
  BY <1>3, AlwaysInTime
<1>5. CASE is_replaceable(kind(i))
  <2>1. R = akc_iter(d, a, k, 0, MaxTime)
    BY <1>1, <1>5 DEF UnderCoordinate
  <2>2. akc_iter(d, a, k, 0, MaxTime) = {j \in d.events : pubkey(j) = a /\ kind(j) = k}
    BY <1>3, <1>4 DEF akc_iter
  <2> QED BY <1>1, <1>2, <1>5, <2>1, <2>2 DEF SameAddress
<1>6. CASE is_addressable(kind(i)) /\ identifier(i) # {}
  <2>1. R = {j \in atc_iter(d, a, "d", v, 0, MaxTime) : kind(j) = k}
    BY <1>1, <1>2, <1>6 DEF UnderCoordinate
  <2>2. atc_iter(d, a, "d", v, 0, MaxTime) = {j \in d.events : pubkey(j) = a /\ v \in identifier(j)}
    BY <1>3, <1>4, OneIdentifier DEF atc_iter, identifier
  <2>3. ASSUME NEW j \in d.events PROVE v \in identifier(j) <=> identifier(j) = identifier(i)
    <3>1. \A x, y \in identifier(j) : x = y
      BY <1>3, EventsAreTyped
    <3>2. \A w : w = v <=> w \in identifier(i)
      BY <1>1, <1>6
    <3> QED BY <3>1, <3>2
  <2> QED BY <1>1, <1>2, <1>6, <2>1, <2>2, <2>3 DEF SameAddress
<1> QED BY <1>5, <1>6 DEF Findable

LEMMA OneOfOne ==
    ASSUME NEW S, NEW x, S = {x}, x \in Id
    PROVE  NewestN(S, 1) = S
<1>1. ~Before(x, x)
  BY EventsAreTyped DEF Before
<1>2. {j \in S : Before(j, x)} = {} /\ Cardinality({}) = 0
  BY <1>1, FS_EmptySet
<1> QED BY <1>2 DEF NewestN, FirstN

\* The stored version of an event is the only one.
LEMMA StoredIsAll ==
    ASSUME NEW d, Good(d), NEW i \in Id
    PROVE  /\ Findable(i) => Stored(d, i) = {j \in d.events : SameAddress(j, i)}
           /\ ~Findable(i) => Stored(d, i) = {}
<1>1. NewestN({}, 1) = {}
  BY DEF NewestN, FirstN
<1>2. CASE ~Findable(i)
  BY <1>1, <1>2 DEF Stored, Findable
<1>3. CASE Findable(i)
  <2> PICK R : R = UnderCoordinate(d, coordinate(i), MaxTime)
    OBVIOUS
  <2>1. R = {j \in d.events : SameAddress(j, i)}
    BY <1>3, VersionsAreAll
  <2>2. Stored(d, i) = NewestN(R, 1)
    BY <1>3 DEF Stored, Findable
  <2>3. \A j, k \in R : j = k
    BY <2>1 DEF Good, OneVersion, SameAddress
  <2>4. CASE R = {}
    BY <1>1, <1>3, <2>1, <2>2, <2>4
  <2>5. CASE R # {}
    <3>1. PICK x : R = {x}
      BY <2>3, <2>5
    <3>2. x \in Id
      BY <2>1, <3>1, TablesTyped DEF Good
    <3> QED BY <1>3, <2>1, <2>2, <3>1, <3>2, OneOfOne
  <2> QED BY <2>4, <2>5
<1> QED BY <1>2, <1>3

-----------------------------------------------------------------------------
(* Saving                                                                  *)

LEMMA Accepted ==
    ASSUME NEW d, NEW i, Verdict(d, i) = "Success"
    PROVE  /\ i \notin d.events /\ i \notin d.deleted /\ ~is_claimed(d, i)
           /\ pubkey(i) \notin d.vanished /\ ~is_coordinate_deleted(d, i)
           /\ \A s \in Stored(d, i) : ~has_event_been_replaced(s, i)
           /\ kind(i) = EventDeletion => ~IsForeign(d, i)
BY DEF Verdict

LEMMA RefusedAsDeleted ==
    ASSUME NEW d, NEW i, Verdict(d, i) = "Deleted"
    PROVE  i \notin d.events
BY DEF Verdict

\* An event that contradicts nothing may be stored.
LEMMA StoredIsGood ==
    ASSUME NEW d, Good(d), NEW i \in Id, i \notin d.deleted, ~is_claimed(d, i),
           pubkey(i) \in d.vanished => IsValidVanish(i),
           ~is_coordinate_deleted(d, i),
           \A j \in d.events : ~SameAddress(i, j) /\ ~SameAddress(j, i)
    PROVE  Good(store(d, i))
<1> PICK r : r = store(d, i)
  OBVIOUS
<1>1. /\ r \in Tables /\ r.events = d.events \cup {i}
      /\ \A t \in IndexTable : r.index[t] = d.index[t] \cup {i}
      /\ r.deleted = d.deleted /\ r.claims = d.claims
      /\ r.coordinates = d.coordinates /\ r.vanished = d.vanished
  BY Storing DEF Good
<1>2. Consistent(r) /\ OneVersion(r)
  BY <1>1 DEF Good, Consistent, OneVersion
<1>3. HoldIn(r)
  BY <1>1 DEF Good, HoldIn, is_claimed, is_coordinate_deleted
<1> QED BY <1>1, <1>2, <1>3 DEF Good

LEMMA SpecialHaveNoRival ==
    ASSUME NEW i \in Id, NEW j \in Id, kind(i) = EventDeletion \/ kind(i) = RequestToVanish
    PROVE  ~SameAddress(i, j) /\ ~SameAddress(j, i) /\ ~HasCoordinate(i)
<1>1. ~is_replaceable(kind(i)) /\ ~is_addressable(kind(i))
  BY EventsAreTyped, KindsAreApart
<1> QED BY <1>1 DEF SameAddress, HasCoordinate

\* What the accepted event replaces is gone before it is stored.
LEMMA ReplacingIsGood ==
    ASSUME NEW d, Good(d), NEW i \in Id, Verdict(d, i) = "Success"
    PROVE  /\ Good(remove_replaced(d, i))
           /\ remove_replaced(d, i).events \subseteq d.events
           /\ \A j \in remove_replaced(d, i).events : ~SameAddress(i, j) /\ ~SameAddress(j, i)
           /\ remove_replaced(d, i).deleted = d.deleted /\ remove_replaced(d, i).claims = d.claims
           /\ remove_replaced(d, i).coordinates = d.coordinates
           /\ remove_replaced(d, i).vanished = d.vanished
<1> PICK c, r : c = coordinate(i) /\ r = remove_replaced(d, i)
  OBVIOUS
<1>1. d \in Tables /\ d.events \subseteq Id
  BY TablesTyped DEF Good
<1>2. ~(is_replaceable(kind(i)) /\ is_addressable(kind(i)))
  BY EventsAreTyped, KindsAreApart
<1>3. \A j : SameAddress(i, j) <=> SameAddress(j, i)
  BY DEF SameAddress
<1>4. ASSUME NEW S, r = remove(d, S), \A j \in d.events : SameAddress(j, i) => j \in S
      PROVE  /\ Good(r) /\ r.events \subseteq d.events
             /\ \A j \in r.events : ~SameAddress(j, i)
             /\ r.deleted = d.deleted /\ r.claims = d.claims
             /\ r.coordinates = d.coordinates /\ r.vanished = d.vanished
  BY <1>1, <1>4, FewerAreGood, Removing
<1>5. CASE Stored(d, i) = {}
  <2>1. r = d
    BY <1>5 DEF remove_replaced
  <2>2. \A j \in d.events : ~SameAddress(j, i)
    BY <1>5, StoredIsAll DEF SameAddress, Findable
  <2> QED BY <1>3, <2>1, <2>2
<1>6. CASE Stored(d, i) # {}
  <2>1. Findable(i) /\ Stored(d, i) = {j \in d.events : SameAddress(j, i)}
    BY <1>6, StoredIsAll
  <2>2. CASE is_replaceable(kind(i))
    <3> PICK S : S = UnderCoordinate(d, c, created_at(i))
      OBVIOUS
    <3>1. r = remove(d, S)
      BY <1>6, <2>2 DEF remove_replaced
    <3>2. ASSUME NEW j \in d.events, SameAddress(j, i) PROVE j \in S
      <4>1. ~has_event_been_replaced(j, i)
        BY <2>1, <3>2, Accepted
      <4>2. /\ created_at(j) \in Nat /\ created_at(i) \in Nat /\ 0 <= created_at(j)
        BY <1>1, EventsAreTyped
      <4>3. InTime(j, 0, created_at(i))
        BY <4>1, <4>2 DEF has_event_been_replaced, InTime
      <4>4. kind(j) = kind(i) /\ pubkey(j) = pubkey(i)
        BY <3>2 DEF SameAddress
      <4>5. c.kind = kind(i) /\ c.pubkey = pubkey(i)
        BY CoordinateParts
      <4>6. S = akc_iter(d, pubkey(i), kind(i), 0, created_at(i))
        BY <2>2, <4>5 DEF UnderCoordinate
      <4>7. j \in d.index["akc"]
        BY DEF Good, Consistent, IndexTable
      <4> QED BY <4>3, <4>4, <4>6, <4>7 DEF akc_iter
    <3> QED BY <1>3, <1>4, <3>1, <3>2
  <2>3. CASE ~is_replaceable(kind(i))
    <3> PICK S : S = UnderCoordinate(d, coordinate(i), MaxTime)
      OBVIOUS
    <3>1. r = remove(d, S)
      BY <1>6, <2>3 DEF remove_replaced
    <3>2. S = {j \in d.events : SameAddress(j, i)}
      BY <2>1, VersionsAreAll
    <3> QED BY <1>3, <1>4, <3>1, <3>2
  <2> QED BY <2>2, <2>3
<1> QED BY <1>5, <1>6

LEMMA TablesMade ==
    ASSUME NEW E, E \subseteq Id, NEW I \in [IndexTable -> SUBSET Id], NEW D, D \subseteq Id,
           NEW C, C \subseteq Nat \X Author, NEW M, M \subseteq Marks, NEW V, V \subseteq Author
    PROVE  [events |-> E, index |-> I, deleted |-> D, claims |-> C, coordinates |-> M,
            vanished |-> V] \in Tables
BY DEF Tables, Marks

\* A deletion removes all that it marks.
LEMMA DeletingIsGood ==
    ASSUME NEW d, Good(d), NEW i \in Id, kind(i) = EventDeletion, i \notin d.events
    PROVE  /\ Good(handle_deletion_event(d, i))
           /\ handle_deletion_event(d, i).events \subseteq d.events
           /\ i \notin d.deleted => i \notin handle_deletion_event(d, i).deleted
           /\ handle_deletion_event(d, i).vanished = d.vanished
<1> DEFINE known == d.events \cap event_ids(i)
           under == UNION {UnderCoordinate(d, c, created_at(i)) : c \in coordinates(i)}
           C == {<<id, pubkey(i)>> : id \in event_ids(i) \ known}
           M == mark_coordinates_deleted(d.coordinates, i)
<1> PICK S, r : S = known \cup under /\ r = handle_deletion_event(d, i)
  OBVIOUS
<1> PICK e : e = remove(d, S)
  OBVIOUS
<1>1. d \in Tables /\ d.events \subseteq Id /\ d.coordinates \subseteq Marks
  BY TablesTyped DEF Good
<1>2. /\ created_at(i) \in Nat /\ pubkey(i) \in Author /\ event_ids(i) \subseteq Nat
  BY EventsAreTyped
<1>3. /\ Good(e) /\ e \in Tables /\ e.events = d.events \ S
      /\ e.deleted = d.deleted /\ e.claims = d.claims
      /\ e.coordinates = d.coordinates /\ e.vanished = d.vanished
  BY <1>1, FewerAreGood, Removing
<1>4. r = [e EXCEPT !.deleted = @ \cup known, !.claims = @ \cup C, !.coordinates = M]
  <2>1. r = [remove(d, known \cup under) EXCEPT !.deleted = @ \cup known, !.claims = @ \cup C,
                    !.coordinates = mark_coordinates_deleted(@, i)]
    BY DEF handle_deletion_event
  <2>2. r = [e EXCEPT !.deleted = @ \cup known, !.claims = @ \cup C,
                    !.coordinates = mark_coordinates_deleted(e.coordinates, i)]
    BY <2>1
  <2> QED BY <1>3, <2>2
<1>5. known \subseteq Id /\ C \subseteq Nat \X Author
  BY <1>1, <1>2
<1>6. M \subseteq Marks
  <2>1. ASSUME NEW c \in coordinates(i) PROVE <<c, created_at(i)>> \in Marks
    BY <1>2 DEF Marks
  <2> QED BY <1>1, <2>1 DEF mark_coordinates_deleted
<1>7. /\ r \in Tables /\ r.events = d.events \ S /\ r.index = e.index
      /\ r.deleted = d.deleted \cup known /\ r.claims = d.claims \cup C
      /\ r.coordinates = M /\ r.vanished = d.vanished
  <2> HIDE DEF known, C, M
  <2>1. e.deleted \cup known \subseteq Id /\ e.claims \cup C \subseteq Nat \X Author
    BY <1>3, <1>5, TablesTyped
  <2>2. r = [events |-> e.events, index |-> e.index, deleted |-> e.deleted \cup known,
             claims |-> e.claims \cup C, coordinates |-> M, vanished |-> e.vanished]
    BY <1>3, <1>4 DEF Tables
  <2>3. r \in Tables
    <3>1. /\ e.events \subseteq Id /\ e.index \in [IndexTable -> SUBSET Id]
          /\ e.vanished \subseteq Author
      BY <1>3, TablesTyped
    <3> PICK E, I, D, K, V : /\ E = e.events /\ I = e.index /\ D = e.deleted \cup known
                             /\ K = e.claims \cup C /\ V = e.vanished
      OBVIOUS
    <3>2. /\ E \subseteq Id /\ I \in [IndexTable -> SUBSET Id] /\ D \subseteq Id
          /\ K \subseteq Nat \X Author /\ M \subseteq Marks /\ V \subseteq Author
      BY <1>6, <2>1, <3>1
    <3>3. [events |-> E, index |-> I, deleted |-> D, claims |-> K, coordinates |-> M,
           vanished |-> V] \in Tables
      BY <3>2, TablesMade
    <3>4. r = [events |-> E, index |-> I, deleted |-> D, claims |-> K, coordinates |-> M,
               vanished |-> V]
      BY <2>2
    <3> QED BY <3>3, <3>4
  <2>4. /\ r.events = e.events /\ r.index = e.index /\ r.vanished = e.vanished
        /\ r.deleted = e.deleted \cup known /\ r.claims = e.claims \cup C /\ r.coordinates = M
    BY <1>3, <1>4 DEF Tables
  <2> QED BY <1>3, <2>3, <2>4
<1>8. Consistent(r) /\ OneVersion(r)
  BY <1>3, <1>7 DEF Good, Consistent, OneVersion
<1>9. HoldIn(r)
  <2>1. r.events \cap r.deleted = {}
    BY <1>7 DEF Good, HoldIn
  <2>2. ASSUME NEW j \in r.events \ Legacy, is_claimed(r, j) PROVE FALSE
    <3>1. j \in d.events \ Legacy /\ j \notin known
      BY <1>7
    <3>2. <<j, pubkey(j)>> \in C
      BY <1>7, <2>2, <3>1 DEF Good, HoldIn, is_claimed
    <3> QED BY <3>1, <3>2
  <2>3. \A j \in r.events : pubkey(j) \in r.vanished => IsValidVanish(j)
    BY <1>7 DEF Good, HoldIn
  <2>4. ASSUME NEW j \in r.events, is_coordinate_deleted(r, j), ~(is_addressable(kind(j)) /\ identifier(j) = {})
        PROVE  FALSE
    <3>1. j \in d.events /\ j \notin S
      BY <1>7
    <3>2. PICK x \in M : x[1] = coordinate(j) /\ created_at(j) <= x[2]
      BY <1>7, <2>4 DEF is_coordinate_deleted
    <3>3. x \notin d.coordinates
      BY <2>4, <3>1, <3>2 DEF Good, HoldIn, is_coordinate_deleted
    <3>4. PICK c \in coordinates(i) : x = <<c, created_at(i)>>
      BY <3>2, <3>3 DEF mark_coordinates_deleted
    <3>5. c = coordinate(j) /\ created_at(j) <= created_at(i)
      BY <3>2, <3>4
    <3>6. Findable(j)
      BY <2>4 DEF is_coordinate_deleted, HasCoordinate, Findable
    <3>7. InTime(j, 0, created_at(i))
      <4>1. 0 <= created_at(j)
        BY <1>1, <3>1, EventsAreTyped
      <4> QED BY <3>5, <4>1 DEF InTime
    <3>8. j \in UnderCoordinate(d, c, created_at(i))
      BY <3>1, <3>5, <3>6, <3>7, UnderIsAll
    <3> QED BY <3>1, <3>8
  <2> QED BY <2>1, <2>2, <2>3, <2>4 DEF HoldIn
<1>10. i \notin known /\ d.events \ S \subseteq d.events
  OBVIOUS
<1> HIDE DEF known
<1> QED BY <1>7, <1>8, <1>9, <1>10 DEF Good

LEMMA MoreVanished ==
    ASSUME NEW d \in Tables, NEW a \in Author
    PROVE  [d EXCEPT !.vanished = @ \cup {a}] \in Tables
BY DEF Tables

\* Who vanishes leaves no event behind.
LEMMA VanishingIsGood ==
    ASSUME NEW d, Good(d), NEW a \in Author
    PROVE  /\ Good(handle_request_to_vanish(d, a))
           /\ handle_request_to_vanish(d, a).events \subseteq d.events
           /\ handle_request_to_vanish(d, a).deleted = d.deleted
           /\ handle_request_to_vanish(d, a).claims = d.claims
           /\ handle_request_to_vanish(d, a).coordinates = d.coordinates
<1> PICK S, mine, wraps, r :
        /\ mine = ac_iter(d, a, 0, MaxTime) /\ wraps = ktc_iter(d, GiftWrap, "p", a, 0, MaxTime)
        /\ S = mine \cup wraps /\ r = handle_request_to_vanish(d, a)
  OBVIOUS
<1> PICK e : e = remove(d, S)
  OBVIOUS
<1>1. d \in Tables /\ d.events \subseteq Id
  BY TablesTyped DEF Good
<1>2. /\ Good(e) /\ e \in Tables /\ e.events = d.events \ S
      /\ e.deleted = d.deleted /\ e.claims = d.claims
      /\ e.coordinates = d.coordinates /\ e.vanished = d.vanished
  BY <1>1, FewerAreGood, Removing
<1>3. r = [e EXCEPT !.vanished = @ \cup {a}]
  BY DEF handle_request_to_vanish
<1>4. /\ r \in Tables /\ r.events = e.events /\ r.index = e.index
      /\ r.deleted = d.deleted /\ r.claims = d.claims
      /\ r.coordinates = d.coordinates /\ r.vanished = d.vanished \cup {a}
  <2>1. r = [events |-> e.events, index |-> e.index, deleted |-> e.deleted, claims |-> e.claims,
             coordinates |-> e.coordinates, vanished |-> e.vanished \cup {a}]
    BY <1>2, <1>3 DEF Tables
  <2>2. [e EXCEPT !.vanished = @ \cup {a}] \in Tables
    BY <1>2, MoreVanished
  <2> QED BY <1>2, <1>3, <2>1, <2>2
<1>5. \A j \in d.events : pubkey(j) = a => j \in mine
  <2>1. \A j \in d.events : InTime(j, 0, MaxTime)
    BY <1>1, AlwaysInTime
  <2>2. d.index["ac"] = d.events
    BY DEF Good, Consistent, IndexTable
  <2> QED BY <2>1, <2>2 DEF ac_iter
<1>6. Consistent(r) /\ OneVersion(r)
  BY <1>2, <1>4 DEF Good, Consistent, OneVersion
<1>7. HoldIn(r)
  BY <1>2, <1>4, <1>5 DEF Good, HoldIn, is_claimed, is_coordinate_deleted
<1> QED BY <1>2, <1>4, <1>6, <1>7 DEF Good

LEMMA ConfirmingIsGood ==
    ASSUME NEW d, Good(d), NEW i \in Id, i \notin d.events
    PROVE  Good([d EXCEPT !.deleted = @ \cup {i}])
<1> PICK r : r = [d EXCEPT !.deleted = @ \cup {i}]
  OBVIOUS
<1>1. /\ r \in Tables /\ r.events = d.events /\ r.index = d.index
      /\ r.deleted = d.deleted \cup {i} /\ r.claims = d.claims
      /\ r.coordinates = d.coordinates /\ r.vanished = d.vanished
  BY DEF Good, Tables
<1>2. Consistent(r) /\ OneVersion(r)
  BY <1>1 DEF Good, Consistent, OneVersion
<1>3. HoldIn(r)
  BY <1>1 DEF Good, HoldIn, is_claimed, is_coordinate_deleted
<1> QED BY <1>1, <1>2, <1>3 DEF Good

\* Whatever is saved, the tables stay whole and the tombstones hold.
LEMMA SavingIsGood ==
    ASSUME NEW d, Good(d), NEW i \in Id
    PROVE  Good(save_event_with_txn(d, i))
<1>1. CASE Verdict(d, i) = "Success"
  <2> PICK e : e = Effects(d, i)
    OBVIOUS
  <2>1. save_event_with_txn(d, i) = store(e, i)
    BY <1>1 DEF save_event_with_txn
  <2>2. /\ i \notin d.events /\ i \notin d.deleted /\ ~is_claimed(d, i)
        /\ pubkey(i) \notin d.vanished /\ ~is_coordinate_deleted(d, i)
    BY <1>1, Accepted
  <2>3. d.events \subseteq Id
    BY TablesTyped DEF Good
  <2>4. CASE kind(i) = EventDeletion
    <3>1. e = handle_deletion_event(d, i)
      BY <2>4 DEF Effects
    <3>2. Good(e) /\ e.events \subseteq d.events /\ i \notin e.deleted /\ e.vanished = d.vanished
      BY <2>2, <2>4, <3>1, DeletingIsGood
    <3>3. ~is_claimed(e, i)
      BY <2>4 DEF is_claimed
    <3>4. ~is_coordinate_deleted(e, i)
      BY <2>4, SpecialHaveNoRival DEF is_coordinate_deleted
    <3>5. \A j \in e.events : ~SameAddress(i, j) /\ ~SameAddress(j, i)
      BY <2>3, <2>4, <3>2, SpecialHaveNoRival
    <3> QED BY <2>1, <2>2, <3>2, <3>3, <3>4, <3>5, StoredIsGood
  <2>5. CASE kind(i) # EventDeletion /\ IsValidVanish(i)
    <3>1. e = handle_request_to_vanish(d, pubkey(i)) /\ pubkey(i) \in Author
      BY <2>5, EventsAreTyped DEF Effects
    <3>2. /\ Good(e) /\ e.events \subseteq d.events /\ e.deleted = d.deleted /\ e.claims = d.claims
          /\ e.coordinates = d.coordinates
      BY <3>1, VanishingIsGood
    <3>3. ~is_claimed(e, i) /\ ~is_coordinate_deleted(e, i) /\ i \notin e.deleted
      BY <2>2, <3>2 DEF is_claimed, is_coordinate_deleted
    <3>4. \A j \in e.events : ~SameAddress(i, j) /\ ~SameAddress(j, i)
      BY <2>3, <2>5, <3>2, SpecialHaveNoRival DEF IsValidVanish
    <3> QED BY <2>1, <2>5, <3>2, <3>3, <3>4, StoredIsGood
  <2>6. CASE kind(i) # EventDeletion /\ ~IsValidVanish(i)
    <3>1. e = remove_replaced(d, i)
      BY <2>6 DEF Effects
    <3>2. /\ Good(e) /\ e.deleted = d.deleted /\ e.claims = d.claims
          /\ e.coordinates = d.coordinates /\ e.vanished = d.vanished
          /\ \A j \in e.events : ~SameAddress(i, j) /\ ~SameAddress(j, i)
      BY <1>1, <3>1, ReplacingIsGood
    <3>3. ~is_claimed(e, i) /\ ~is_coordinate_deleted(e, i) /\ i \notin e.deleted
      BY <2>2, <3>2 DEF is_claimed, is_coordinate_deleted
    <3> QED BY <2>1, <2>2, <3>2, <3>3, StoredIsGood
  <2> QED BY <2>4, <2>5, <2>6
<1>2. CASE Verdict(d, i) = "Deleted" /\ i \notin d.deleted /\ is_claimed(d, i)
  <2>1. i \notin d.events
    BY <1>2, RefusedAsDeleted
  <2>2. save_event_with_txn(d, i) = [d EXCEPT !.deleted = @ \cup {i}]
    BY <1>2 DEF save_event_with_txn
  <2> QED BY <2>1, <2>2, ConfirmingIsGood
<1>3. CASE ~(Verdict(d, i) = "Success" \/
             (Verdict(d, i) = "Deleted" /\ i \notin d.deleted /\ is_claimed(d, i)))
  BY <1>3 DEF save_event_with_txn
<1> QED BY <1>1, <1>2, <1>3

-----------------------------------------------------------------------------
(* Upgrades, and what the operations make of the tables                    *)

LEMMA ClaimsAreTyped ==
    ASSUME NEW d \in Tables, NEW J, J \subseteq d.events
    PROVE  UNION {{<<id, pubkey(i)>> : id \in event_ids(i) \ d.deleted} : i \in J} \subseteq Nat \X Author
<1> SUFFICES ASSUME NEW i \in J, NEW id \in event_ids(i) PROVE <<id, pubkey(i)>> \in Nat \X Author
  OBVIOUS
<1>1. i \in Id
  BY TablesTyped
<1> QED BY <1>1, EventsAreTyped

LEMMA MoreClaims ==
    ASSUME NEW d \in Tables, NEW C, C \subseteq Nat \X Author
    PROVE  [d EXCEPT !.claims = @ \cup C] \in Tables
BY DEF Tables

\* From version 2: what it adds says nothing of what is stored since.
LEMMA ClaimingIsGood ==
    ASSUME NEW d, Good(d), d.events \subseteq Legacy
    PROVE  Good(migrate_v2_to_v3(d))
<1> PICK J : J = {j \in d.events : kind(j) = EventDeletion}
  OBVIOUS
<1> PICK C : C = UNION {{<<id, pubkey(i)>> : id \in event_ids(i) \ d.deleted} : i \in J}
  OBVIOUS
<1> PICK r : r = migrate_v2_to_v3(d)
  OBVIOUS
<1>1. C \subseteq Nat \X Author
  <2>1. d \in Tables /\ J \subseteq d.events
    BY DEF Good
  <2> QED BY <2>1, ClaimsAreTyped
<1>2. r = [d EXCEPT !.claims = @ \cup C]
  BY DEF migrate_v2_to_v3
<1>3. [d EXCEPT !.claims = @ \cup C] \in Tables
  BY <1>1, MoreClaims DEF Good
<1>4. /\ r \in Tables /\ r.events = d.events /\ r.index = d.index /\ r.deleted = d.deleted
      /\ r.coordinates = d.coordinates /\ r.vanished = d.vanished
  BY <1>2, <1>3 DEF Good, Tables
<1>5. Consistent(r) /\ OneVersion(r)
  BY <1>4 DEF Good, Consistent, OneVersion
<1>6. HoldIn(r)
  BY <1>4 DEF Good, HoldIn, is_coordinate_deleted
<1> QED BY <1>4, <1>5, <1>6 DEF Good

\* From version 1: the kind index is filled from the events.
LEMMA FillingIsGood ==
    ASSUME NEW d, Kept(d, 1)
    PROVE  Good(migrate_v1_to_v2(d)) /\ migrate_v1_to_v2(d).events = d.events
<1> PICK r : r = migrate_v1_to_v2(d)
  OBVIOUS
<1>1. /\ d \in Tables /\ OneVersion(d) /\ HoldIn(d)
      /\ \A t \in IndexTable : \/ d.index[t] = d.events
                               \/ t = "kc" /\ d.index[t] \subseteq d.events
  BY DEF Kept, DB_VERSION
<1>2. d.events \subseteq Id /\ d.index \in [IndexTable -> SUBSET Id]
  BY <1>1, TablesTyped
<1>3. r = [d EXCEPT !.index = [d.index EXCEPT !["kc"] = @ \cup d.events]]
  BY <1>1 DEF migrate_v1_to_v2, Tables
<1>4. /\ r.events = d.events /\ r.deleted = d.deleted /\ r.claims = d.claims
      /\ r.coordinates = d.coordinates /\ r.vanished = d.vanished
      /\ r.index = [d.index EXCEPT !["kc"] = @ \cup d.events]
  BY <1>1, <1>3 DEF Tables
<1>5. \A t \in IndexTable : r.index[t] = r.events
  BY <1>1, <1>2, <1>4
<1>6. r \in Tables
  <2>1. r.index \in [IndexTable -> SUBSET Id]
    BY <1>2, <1>4
  <2> QED BY <1>1, <1>3, <1>4, <2>1 DEF Tables
<1>7. HoldIn(r)
  BY <1>1, <1>4 DEF HoldIn, is_claimed, is_coordinate_deleted
<1> QED BY <1>1, <1>4, <1>5, <1>6, <1>7 DEF Good, Consistent, OneVersion

\* What is opened is whole.
LEMMA OpeningIsGood ==
    ASSUME NEW d, NEW v, Kept(d, v), v <= DB_VERSION
    PROVE  Good(IF v < DB_VERSION THEN migrate(d, v) ELSE d)
<1>1. v \in Nat /\ DB_VERSION = 3
  BY DEF Kept, DB_VERSION
<1>2. CASE v = 3
  BY <1>1, <1>2, KeptIsGood
<1>3. CASE v = 2
  <2>1. Good(d) /\ d.events \subseteq Legacy
    BY <1>1, <1>3 DEF Kept, Good, Consistent
  <2>2. migrate(d, v) = migrate_v2_to_v3(d)
    BY <1>3 DEF migrate
  <2> QED BY <1>1, <1>3, <2>1, <2>2, ClaimingIsGood
<1>4. CASE v < 2
  <2>1. Kept(d, 1)
    BY <1>1, <1>4 DEF Kept
  <2>2. d.events \subseteq Legacy
    BY <1>1, <1>4 DEF Kept
  <2>3. migrate(d, v) = migrate_v2_to_v3(migrate_v1_to_v2(d))
    BY <1>4 DEF migrate
  <2> QED BY <1>1, <1>4, <2>1, <2>2, <2>3, FillingIsGood, ClaimingIsGood
<1> QED BY <1>1, <1>2, <1>3, <1>4

LEMMA OutcomesAreGood ==
    ASSUME NEW d, Good(d), NEW op \in Operation, NEW o \in Outcomes(op, d)
    PROVE  Good(o[1])
<1>1. CASE \E i \in Id : op = Save(i)
  <2>1. PICK i \in Id : op = Save(i)
    BY <1>1
  <2>2. op.type = "Save" /\ op.event = i
    BY <2>1 DEF Save
  <2>3. o[1] = save_event_with_txn(d, i)
    BY <2>2 DEF Outcomes
  <2> QED BY <2>3, SavingIsGood
<1>2. CASE \E f \in DeleteFilter : op = Delete(f)
  <2>1. op.type = "Delete"
    BY <1>2 DEF Delete
  <2>2. PICK S : o[1] = remove(d, S)
    BY <2>1 DEF Outcomes
  <2> QED BY <2>2, FewerAreGood
<1>3. CASE op = Reindex
  <2>1. o[1] = reindex(d)
    BY <1>3 DEF Outcomes, Reindex
  <2> QED BY <2>1, ReindexedIsGood DEF Good
<1>4. CASE op = Wipe
  <2>1. o[1] = EmptyTables
    BY <1>4 DEF Outcomes, Wipe, wipe
  <2> QED BY <2>1, EmptyIsGood
<1> QED BY <1>1, <1>2, <1>3, <1>4 DEF Operation

-----------------------------------------------------------------------------
(* The ingester                                                            *)

\* The parts of the invariant
DiskInv == /\ Kept(db, version) /\ (running => version = DB_VERSION) /\ Kept(txn.db, DB_VERSION)
           /\ txn = [db |-> txn.db, broken |-> txn.broken]
QueueInv == queue \in Seq(Req) /\ batch \in Seq(Req) /\ results \in Seq(Res)
PhaseInv == /\ phase = "batch" => Len(results) + Len(batch) > 0
            /\ phase # "batch" => batch = <<>>
            /\ phase = "idle" => results = <<>>
            /\ phase = "answer" => results # <<>>
            /\ ~running => phase = "idle" /\ queue = <<>>
Flags == /\ running \in BOOLEAN /\ phase \in {"idle", "batch", "answer"} /\ txn.broken \in BOOLEAN
         /\ waiting \subseteq Caller /\ gone \subseteq Caller
         /\ calls \in 0 .. MaxCalls /\ stops \in 0 .. MaxStops

LEMMA StoreParts == StoreInv <=> DiskInv /\ QueueInv /\ PhaseInv /\ Flags
<1>1. StoreInv => DiskInv /\ QueueInv /\ PhaseInv /\ Flags
  BY DEF StoreInv, TypeOK, DiskInv, QueueInv, PhaseInv, Flags
<1>2. ASSUME DiskInv, QueueInv, PhaseInv, Flags PROVE StoreInv
  <2>1. db \in Tables /\ version \in Nat
    BY <1>2 DEF DiskInv, Kept
  <2>2. db.events \subseteq Id /\ db.index \in [IndexTable -> SUBSET Id] /\ db.deleted \subseteq Id
    BY <2>1, TablesTyped
  <2>3. \A n \in DOMAIN queue : queue[n][1] \in Caller /\ queue[n][2] \in Operation
    BY <1>2 DEF QueueInv, Req
  <2>4. \A n \in DOMAIN batch : batch[n][1] \in Caller /\ batch[n][2] \in Operation
    BY <1>2 DEF QueueInv, Req
  <2>5. \A n \in DOMAIN results : results[n].caller \in Caller /\ results[n].op \in Operation
    <3>1. \A n \in DOMAIN results : results[n] \in Res
      BY <1>2 DEF QueueInv
    <3> QED BY <3>1 DEF Res
  <2>6. TypeOK
    BY <1>2, <2>1, <2>2, <2>3, <2>4, <2>5 DEF TypeOK, Flags
  <2> QED BY <1>2, <2>6 DEF StoreInv, DiskInv, QueueInv, PhaseInv
<1> QED BY <1>1, <1>2

LEMMA VerdictsAreAnswers ==
    ASSUME NEW d, NEW i
    PROVE  Verdict(d, i) \in {"Success", "Ephemeral", "Duplicate", "Deleted", "Vanished",
                              "Replaced", "InvalidDelete"}
BY DEF Verdict

LEMMA AnswersAreTyped ==
    ASSUME NEW d, NEW op \in Operation, NEW o \in Outcomes(op, d), NEW req \in Req, req[2] = op
    PROVE  result(req, o[2]) \in Res
<1>1. req[1] \in Caller
  BY DEF Req
<1>2. CASE \E i \in Id : op = Save(i)
  <2>1. PICK i \in Id : op = Save(i)
    BY <1>2
  <2>2. op.type = "Save"
    BY <2>1 DEF Save
  <2>3. o[2] = Verdict(d, op.event)
    BY <2>2 DEF Outcomes
  <2> QED BY <1>1, <2>3, VerdictsAreAnswers DEF result, Res
<1>3. CASE (\E f \in DeleteFilter : op = Delete(f)) \/ op = Reindex \/ op = Wipe
  <2>1. op.type \in {"Delete", "Reindex", "Wipe"}
    BY <1>3 DEF Delete, Reindex, Wipe
  <2>2. o[2] = "Ok"
    BY <2>1 DEF Outcomes
  <2> QED BY <1>1, <2>2 DEF result, Res
<1> QED BY <1>2, <1>3 DEF Operation

LEMMA FailuresAreTyped ==
    /\ \A req \in Req : result(req, Err) \in Res
    /\ \A rs \in Seq(Res) : AllFailed(rs) \in Seq(Res) /\ Len(AllFailed(rs)) = Len(rs)
    /\ \A reqs \in Seq(Req) : FailedResults(reqs) \in Seq(Res) /\ Len(FailedResults(reqs)) = Len(reqs)
<1>1. \A req \in Req : result(req, Err) \in Res
  BY DEF Req, Res, result
<1>2. ASSUME NEW rs \in Seq(Res)
      PROVE  AllFailed(rs) \in Seq(Res) /\ Len(AllFailed(rs)) = Len(rs)
  <2>1. ASSUME NEW n \in DOMAIN rs PROVE [rs[n] EXCEPT !.answer = Err] \in Res
    <3>1. rs[n] \in Res
      OBVIOUS
    <3> QED BY <3>1 DEF Res, Err
  <2>2. DOMAIN rs = 1 .. Len(rs) /\ Len(rs) \in Nat
    OBVIOUS
  <2> QED BY <2>1, <2>2 DEF AllFailed
<1>3. ASSUME NEW reqs \in Seq(Req)
      PROVE  FailedResults(reqs) \in Seq(Res) /\ Len(FailedResults(reqs)) = Len(reqs)
  <2>1. \A n \in DOMAIN reqs : result(reqs[n], Err) \in Res
    BY <1>1
  <2>2. DOMAIN reqs = 1 .. Len(reqs) /\ Len(reqs) \in Nat
    OBVIOUS
  <2> QED BY <2>1, <2>2 DEF FailedResults
<1> QED BY <1>1, <1>2, <1>3

LEMMA EmptyIsKept == Kept(NoTxn.db, DB_VERSION) /\ NoTxn = [db |-> NoTxn.db, broken |-> FALSE]
<1>1. NoTxn.db = EmptyTables
  BY DEF NoTxn
<1> QED BY <1>1, EmptyIsGood, KeptIsGood DEF NoTxn

LEMMA InitStore == Init => StoreInv
<1> SUFFICES ASSUME Init PROVE StoreInv
  OBVIOUS
<1>1. PICK f \in File : db = f.db /\ version = f.version /\ calls = f.calls
  BY DEF Init
<1>2. Kept(db, version) /\ calls \in 0 .. MaxCalls /\ MaxStops \in Nat
  BY <1>1, FileAssumption
<1>3. txn = NoTxn /\ txn.broken = FALSE
  BY DEF Init, NoTxn
<1>4. DiskInv
  BY <1>2, <1>3, EmptyIsKept DEF Init, DiskInv
<1>5. QueueInv
  BY DEF Init, QueueInv
<1>6. PhaseInv
  BY DEF Init, PhaseInv
<1>7. Flags
  <2>1. 0 \in 0 .. MaxStops
    BY <1>2
  <2> QED BY <1>2, <1>3, <2>1 DEF Init, Flags
<1> QED BY <1>4, <1>5, <1>6, <1>7, StoreParts

\* What changes neither the disk nor the transaction
LEMMA DiskKept ==
    ASSUME DiskInv, UNCHANGED <<db, version, txn>>, running' => running
    PROVE  DiskInv'
BY DEF DiskInv

\* The disk changes only when the store opens and when a batch is committed.
LEMMA NextDisk == StoreInv /\ [Next]_vars => DiskInv'
<1> SUFFICES ASSUME StoreInv, [Next]_vars PROVE DiskInv'
  OBVIOUS
<1>1. DiskInv /\ QueueInv /\ PhaseInv /\ Flags
  BY StoreParts
<1>2. ASSUME UNCHANGED <<db, version, running>>, txn' = NoTxn PROVE DiskInv'
  BY <1>1, <1>2, EmptyIsKept DEF DiskInv
<1>3. CASE Open
  <2>1. Good(db')
    BY <1>1, <1>3, OpeningIsGood DEF Open, DiskInv
  <2>2. Kept(db', version') /\ version' = DB_VERSION
    BY <1>3, <2>1, KeptIsGood DEF Open
  <2> QED BY <1>1, <1>3, <2>2 DEF Open, ingester, DiskInv
<1>4. CASE Stop
  <2>1. txn' = NoTxn /\ running' = FALSE /\ UNCHANGED <<db, version>>
    BY <1>4 DEF Stop, disk
  <2> QED BY <1>1, <2>1, EmptyIsKept DEF DiskInv
<1>5. CASE BeginBatch
  <2>1. CASE txn' = [db |-> db, broken |-> FALSE]
    <3>1. Kept(db, DB_VERSION) /\ UNCHANGED <<db, version, running>>
      BY <1>1, <1>5 DEF BeginBatch, DiskInv, disk
    <3> QED BY <1>1, <2>1, <3>1 DEF DiskInv
  <2>2. CASE UNCHANGED txn
    BY <1>1, <1>5, <2>2, DiskKept DEF BeginBatch, disk
  <2> QED BY <1>5, <2>1, <2>2 DEF BeginBatch
<1>6. CASE ProcessOperation
  <2>1. Head(batch) \in Req
    BY <1>1, <1>6 DEF ProcessOperation, QueueInv
  <2>2. PICK o \in Outcomes(Head(batch)[2], txn.db) : txn' = [txn EXCEPT !.db = o[1]]
    BY <1>6 DEF ProcessOperation
  <2>3. Good(o[1])
    BY <1>1, <2>1, <2>2, OutcomesAreGood, KeptIsGood DEF DiskInv, Req
  <2>4. txn' = [db |-> o[1], broken |-> txn.broken] /\ Kept(o[1], DB_VERSION)
    BY <1>1, <2>2, <2>3, KeptIsGood DEF DiskInv
  <2> QED BY <1>1, <1>6, <2>4 DEF ProcessOperation, disk, DiskInv
<1>7. CASE AbortBatch
  BY <1>2, <1>7 DEF AbortBatch, disk
<1>8. CASE FailedMaintenance
  <2>1. txn' = [db |-> txn.db, broken |-> TRUE]
    BY <1>1, <1>8 DEF FailedMaintenance, DiskInv
  <2> QED BY <1>1, <1>8, <2>1 DEF FailedMaintenance, disk, DiskInv
<1>9. CASE Commit
  <2>1. CASE db' = txn.db
    <3>1. phase = "batch" /\ running /\ version = DB_VERSION
      BY <1>1, <1>9 DEF Commit, PhaseInv, DiskInv, Flags
    <3>2. Kept(db', version') /\ txn' = NoTxn /\ version' = DB_VERSION
      BY <1>1, <1>9, <2>1, <3>1 DEF Commit, DiskInv
    <3> QED BY <1>1, <3>2, EmptyIsKept DEF DiskInv
  <2>2. CASE UNCHANGED db
    BY <1>2, <1>9, <2>2 DEF Commit
  <2> QED BY <1>9, <2>1, <2>2 DEF Commit
<1>10. CASE Answer1
  BY <1>1, <1>10, DiskKept DEF Answer1, disk
<1>11. ASSUME NEW c \in Caller, Drop(c) \/ \E op \in Operation : Call(c, op) PROVE DiskInv'
  BY <1>1, <1>11, DiskKept DEF Drop, Call, disk, ingester
<1>12. CASE UNCHANGED vars
  BY <1>1, <1>12, DiskKept DEF vars
<1> QED BY <1>3, <1>4, <1>5, <1>6, <1>7, <1>8, <1>9, <1>10, <1>11, <1>12 DEF Next, Ingest

\* The requests are handed on from the channel to the batch to the answers.
LEMMA NextQueues == StoreInv /\ [Next]_vars => QueueInv' /\ PhaseInv' /\ Flags'
<1> SUFFICES ASSUME StoreInv, [Next]_vars PROVE QueueInv' /\ PhaseInv' /\ Flags'
  OBVIOUS
<1>1. DiskInv /\ QueueInv /\ PhaseInv /\ Flags
  BY StoreParts
<1>2. queue \in Seq(Req) /\ batch \in Seq(Req) /\ results \in Seq(Res)
  BY <1>1 DEF QueueInv
<1>3. /\ \A reqs \in Seq(Req) : FailedResults(reqs) \in Seq(Res) /\ Len(FailedResults(reqs)) = Len(reqs)
      /\ AllFailed(results) \in Seq(Res) /\ Len(AllFailed(results)) = Len(results)
  BY <1>2, FailuresAreTyped
<1>4. CASE Open
  <2>1. UNCHANGED <<queue, batch, results>>
    BY <1>4 DEF Open, ingester
  <2> QED BY <1>1, <1>4, <2>1 DEF Open, ingester, QueueInv, PhaseInv, Flags
<1>5. CASE Stop
  <2>1. stops' \in 0 .. MaxStops
    BY <1>1, <1>5, FileAssumption DEF Stop, Flags
  <2>2. txn'.broken = FALSE
    BY <1>5 DEF Stop, NoTxn
  <2>3. QueueInv' /\ PhaseInv'
    BY <1>5 DEF Stop, QueueInv, PhaseInv
  <2> QED BY <1>1, <1>5, <2>1, <2>2, <2>3 DEF Stop, Flags
<1>6. CASE BeginBatch
  <2>1. Len(queue) > 0 /\ results = <<>> /\ batch = <<>>
    BY <1>1, <1>2, <1>6 DEF BeginBatch, PhaseInv
  <2>2. CASE phase' = "batch" /\ batch' = queue /\ txn'.broken = FALSE /\ UNCHANGED results
    <3>1. QueueInv' /\ PhaseInv'
      BY <1>2, <1>6, <2>1, <2>2 DEF BeginBatch, QueueInv, PhaseInv
    <3> QED BY <1>1, <1>6, <2>2, <3>1 DEF BeginBatch, Flags
  <2>3. CASE phase' = "answer" /\ results' = FailedResults(queue) /\ UNCHANGED <<batch, txn>>
    <3>1. results' \in Seq(Res) /\ Len(results') = Len(queue)
      BY <1>2, <1>3, <2>3
    <3>2. results' # <<>>
      BY <2>1, <3>1
    <3>3. QueueInv' /\ PhaseInv'
      BY <1>2, <1>6, <2>1, <2>3, <3>1, <3>2 DEF BeginBatch, QueueInv, PhaseInv
    <3> QED BY <1>1, <1>6, <2>3, <3>3 DEF BeginBatch, Flags
  <2>4. txn' = [db |-> db, broken |-> FALSE] => txn'.broken = FALSE
    OBVIOUS
  <2> QED BY <1>6, <2>2, <2>3, <2>4 DEF BeginBatch
<1>7. CASE ProcessOperation
  <2>1. Head(batch) \in Req /\ Tail(batch) \in Seq(Req)
    BY <1>2, <1>7 DEF ProcessOperation
  <2>2. PICK o \in Outcomes(Head(batch)[2], txn.db) :
            /\ txn' = [txn EXCEPT !.db = o[1]]
            /\ results' = Append(results, result(Head(batch), o[2]))
    BY <1>7 DEF ProcessOperation
  <2>3. result(Head(batch), o[2]) \in Res
    BY <2>1, <2>2, AnswersAreTyped DEF Req
  <2>4. results' \in Seq(Res) /\ Len(results') = Len(results) + 1
    BY <1>2, <2>2, <2>3
  <2>5. txn'.broken = txn.broken
    BY <1>1, <2>2 DEF DiskInv
  <2>6. QueueInv' /\ PhaseInv'
    <3>1. phase' = "batch" /\ UNCHANGED <<queue, running>> /\ batch' = Tail(batch)
      BY <1>7 DEF ProcessOperation, disk
    <3>2. running
      BY <1>1, <1>7 DEF ProcessOperation, PhaseInv, Flags
    <3>3. Len(results') + Len(batch') > 0
      BY <1>2, <2>1, <2>4, <3>1
    <3> QED BY <1>2, <2>1, <2>4, <3>1, <3>2, <3>3 DEF QueueInv, PhaseInv
  <2> QED BY <1>1, <1>7, <2>5, <2>6 DEF ProcessOperation, Flags
<1>8. CASE AbortBatch
  <2>1. /\ results' = AllFailed(results) \o FailedResults(batch)
        /\ AllFailed(results) \in Seq(Res) /\ FailedResults(batch) \in Seq(Res)
        /\ Len(FailedResults(batch)) = Len(batch)
    BY <1>2, <1>3, <1>8 DEF AbortBatch
  <2>2. Len(batch) > 0
    BY <1>2, <1>8 DEF AbortBatch
  <2>3. results' \in Seq(Res) /\ Len(results') > 0
    BY <2>1, <2>2
  <2>4. QueueInv' /\ PhaseInv'
    <3>1. results' # <<>>
      BY <2>3
    <3>2. running
      BY <1>1, <1>8 DEF AbortBatch, PhaseInv, Flags
    <3> QED BY <1>2, <1>8, <2>3, <3>1, <3>2 DEF AbortBatch, QueueInv, PhaseInv
  <2>5. txn'.broken = FALSE
    BY <1>8 DEF AbortBatch, NoTxn
  <2> QED BY <1>1, <1>8, <2>4, <2>5 DEF AbortBatch, Flags
<1>9. CASE FailedMaintenance
  <2>1. Head(batch) \in Req /\ Tail(batch) \in Seq(Req)
    BY <1>2, <1>9 DEF FailedMaintenance
  <2>2. results' \in Seq(Res) /\ Len(results') = Len(results) + 1
    BY <1>2, <1>9, <2>1, FailuresAreTyped DEF FailedMaintenance
  <2>3. txn'.broken = TRUE
    BY <1>1, <1>9 DEF FailedMaintenance, DiskInv
  <2>4. QueueInv' /\ PhaseInv'
    <3>1. phase' = "batch" /\ UNCHANGED <<queue, running>> /\ batch' = Tail(batch)
      BY <1>9 DEF FailedMaintenance, disk
    <3>2. running
      BY <1>1, <1>9 DEF FailedMaintenance, PhaseInv, Flags
    <3>3. Len(results') + Len(batch') > 0
      BY <1>2, <2>1, <2>2, <3>1
    <3> QED BY <1>2, <2>1, <2>2, <3>1, <3>2, <3>3 DEF QueueInv, PhaseInv
  <2> QED BY <1>1, <1>9, <2>3, <2>4 DEF FailedMaintenance, Flags
<1>10. CASE Commit
  <2>1. /\ phase = "batch" /\ phase' = "answer" /\ batch = <<>> /\ UNCHANGED <<queue, batch, running>>
        /\ results' = results \/ results' = AllFailed(results)
    BY <1>10 DEF Commit
  <2>2. running /\ Len(results) > 0
    BY <1>1, <1>2, <2>1 DEF PhaseInv, Flags
  <2>3. results' \in Seq(Res) /\ Len(results') = Len(results)
    BY <1>2, <1>3, <2>1
  <2>4. results' # <<>>
    BY <2>2, <2>3
  <2>5. QueueInv' /\ PhaseInv'
    BY <1>2, <2>1, <2>2, <2>3, <2>4 DEF QueueInv, PhaseInv
  <2>6. txn'.broken = FALSE
    BY <1>10 DEF Commit, NoTxn
  <2> QED BY <1>1, <1>10, <2>5, <2>6 DEF Commit, Flags
<1>11. CASE Answer1
  <2>1. results # <<>> /\ batch = <<>> /\ running
    BY <1>1, <1>11 DEF Answer1, PhaseInv, Flags
  <2>2. results' \in Seq(Res) /\ Len(results') = Len(results) - 1
    BY <1>2, <1>11, <2>1 DEF Answer1
  <2>3. QueueInv'
    BY <1>2, <1>11, <2>2 DEF Answer1, QueueInv
  <2>4. PhaseInv'
    <3>1. phase' = IF Len(results) = 1 THEN "idle" ELSE "answer"
      BY <1>11 DEF Answer1
    <3>2. (Len(results) = 1 => results' = <<>>) /\ (Len(results) # 1 => results' # <<>>)
      BY <1>2, <2>1, <2>2
    <3> QED BY <1>11, <2>1, <3>1, <3>2 DEF Answer1, PhaseInv, disk
  <2> QED BY <1>1, <1>11, <2>3, <2>4 DEF Answer1, Flags, disk
<1>12. ASSUME NEW c \in Caller, Drop(c) PROVE QueueInv' /\ PhaseInv' /\ Flags'
  <2>1. UNCHANGED <<queue, running, phase, batch, txn, results, calls, stops>>
    BY <1>12 DEF Drop, ingester
  <2>2. waiting' \subseteq Caller /\ gone' \subseteq Caller
    BY <1>1, <1>12 DEF Drop, Flags
  <2> QED BY <1>1, <2>1, <2>2 DEF QueueInv, PhaseInv, Flags
<1>13. ASSUME NEW c \in Caller, NEW op \in Operation, Call(c, op) PROVE QueueInv' /\ PhaseInv' /\ Flags'
  <2>1. UNCHANGED <<running, phase, batch, txn, results, gone, stops>> /\ running
    BY <1>13 DEF Call, ingester
  <2>2. queue' \in Seq(Req)
    <3>1. <<c, op>> \in Req
      BY DEF Req
    <3> QED BY <1>2, <1>13, <3>1 DEF Call
  <2>3. calls' \in 0 .. MaxCalls
    BY <1>1, <1>13, FileAssumption DEF Call, Flags
  <2>4. waiting' \subseteq Caller
    BY <1>1, <1>13 DEF Call, Flags
  <2> QED BY <1>1, <2>1, <2>2, <2>3, <2>4 DEF QueueInv, PhaseInv, Flags
<1>14. CASE UNCHANGED vars
  BY <1>1, <1>14 DEF vars, QueueInv, PhaseInv, Flags
<1> QED BY <1>4, <1>5, <1>6, <1>7, <1>8, <1>9, <1>10, <1>11, <1>12, <1>13, <1>14 DEF Next, Ingest

LEMMA NextStore == StoreInv /\ [Next]_vars => StoreInv'
<1>1. (DiskInv /\ QueueInv /\ PhaseInv /\ Flags => StoreInv)'
  BY StoreParts, PTL
<1> QED BY <1>1, NextDisk, NextQueues

\* The disk and the transaction are whole at every step.
THEOREM StoreInvariant == Spec => []StoreInv
BY NextStore, InitStore, PTL DEF Spec

\* Every index table names exactly the stored events, in the committed tables
\* and in the transaction, whatever batches, failures, stops and upgrades came
\* before (store, remove, reindex, migrate_v1_to_v2).
THEOREM IndexesAreKept == Spec => []IndexesAgree
<1>1. StoreInv => IndexesAgree
  <2> SUFFICES ASSUME StoreInv PROVE IndexesAgree
    OBVIOUS
  <2>1. DiskInv
    BY StoreParts
  <2>2. running => Good(db)
    BY <2>1, KeptIsGood DEF DiskInv
  <2>3. Good(txn.db)
    BY <2>1, KeptIsGood DEF DiskInv
  <2>4. OneVersion(db) /\ TypeOK
    BY <2>1 DEF DiskInv, Kept, StoreInv
  <2> QED BY <2>2, <2>3, <2>4 DEF IndexesAgree, Good
<1> QED BY <1>1, StoreInvariant, PTL

\* No committed event contradicts a tombstone (save_event_with_txn,
\* handle_deletion_event, handle_request_to_vanish).
THEOREM TombstonesAreKept == Spec => []TombstonesHold
<1>1. StoreInv => TombstonesHold
  BY StoreParts DEF DiskInv, Kept, TombstonesHold
<1> QED BY <1>1, StoreInvariant, PTL

-----------------------------------------------------------------------------
(* The trail of a batch                                                    *)

\* A set of naturals has a least element: the smallest of the intervals from
\* 1, which are well founded by inclusion.
LEMMA LeastOfNaturals ==
    ASSUME NEW T \in SUBSET Nat, T # {}
    PROVE  \E n \in T : \A m \in T : n <= m
<1>1. PICK top \in T : TRUE
  OBVIOUS
<1> DEFINE S == 1 .. top
           F == {1 .. k : k \in {k \in T : k <= top}}
<1>2. IsFiniteSet(S) /\ FiniteSubsetsOf(S) = SUBSET S
  BY FS_Interval, FS_FiniteSubsetsOfFinite
<1>3. IsWellFoundedOn(StrictSubsetOrdering(S), SUBSET S)
  BY <1>2, FS_StrictSubsetOrderingWellFounded
<1>4. F \subseteq SUBSET S /\ F # {}
  OBVIOUS
<1>5. PICK x \in F : \A y \in F : ~(<<y, x>> \in StrictSubsetOrdering(S))
  <2> HIDE DEF F, S
  <2> QED BY <1>3, <1>4, WFMin
<1>6. PICK n \in T : x = 1 .. n /\ n <= top
  OBVIOUS
<1>7. ASSUME NEW m \in T, ~(n <= m) PROVE FALSE
  <2>1. m < n /\ m <= top /\ 1 .. m \in F
    BY <1>6, <1>7
  <2>2. 1 .. m \subseteq 1 .. n /\ n \in 1 .. n /\ n \notin 1 .. m
    BY <2>1
  <2>3. <<1 .. m, x>> \in StrictSubsetOrdering(S)
    BY <1>4, <1>6, <2>1, <2>2 DEF StrictSubsetOrdering
  <2> QED BY <1>5, <2>1, <2>3
<1> QED BY <1>7

\* Induction over a set of naturals.
LEMMA NaturalsByInduction ==
    ASSUME NEW P \in SUBSET Nat, 0 \in P, \A n \in P : n + 1 \in P
    PROVE  P = Nat
<1> SUFFICES ASSUME Nat \ P # {} PROVE FALSE
  OBVIOUS
<1>1. PICK n \in Nat \ P : \A m \in Nat \ P : n <= m
  BY LeastOfNaturals
<1>2. n # 0 /\ n - 1 \in Nat /\ ~(n <= n - 1)
  BY <1>1
<1>3. n - 1 \in P /\ (n - 1) + 1 = n
  BY <1>1, <1>2
<1> QED BY <1>3

\* The function that Results unfolds to: what the first m of the requests may
\* make of the contents "base", with their answers.
Onward(reqs, m, R) ==
    UNION {{<<o[1], Append(r[2], <<reqs[m][1], o[2]>>)>> : o \in Outcomes(reqs[m][2], r[1])} : r \in R}
Follows(reqs, base, n, f) ==
    f = [m \in 0 .. n |-> IF m = 0 THEN {<<base, <<>>>>} ELSE Onward(reqs, m, f[m - 1])]

LEMMA OnwardHas ==
    ASSUME NEW reqs, NEW m, NEW R, NEW r \in R, NEW o \in Outcomes(reqs[m][2], r[1])
    PROVE  <<o[1], Append(r[2], <<reqs[m][1], o[2]>>)>> \in Onward(reqs, m, R)
<1> PICK S : S = {<<q[1], Append(r[2], <<reqs[m][1], q[2]>>)>> : q \in Outcomes(reqs[m][2], r[1])}
  OBVIOUS
<1>1. <<o[1], Append(r[2], <<reqs[m][1], o[2]>>)>> \in S
  OBVIOUS
<1>2. S \in {{<<q[1], Append(x[2], <<reqs[m][1], q[2]>>)>> : q \in Outcomes(reqs[m][2], x[1])} : x \in R}
  OBVIOUS
<1> QED BY <1>1, <1>2 DEF Onward

LEMMA FollowsExists ==
    ASSUME NEW reqs, NEW base
    PROVE  \A n \in Nat : \E f : Follows(reqs, base, n, f)
<1> DEFINE Step(m, f) == IF m = 0 THEN {<<base, <<>>>>} ELSE Onward(reqs, m, f[m - 1])
           P == {n \in Nat : \E f : f = [m \in 0 .. n |-> Step(m, f)]}
<1>1. 0 \in P
  <2> DEFINE f == [m \in 0 .. 0 |-> {<<base, <<>>>>}]
  <2>1. \A m \in 0 .. 0 : m = 0
    OBVIOUS
  <2>2. f = [m \in 0 .. 0 |-> Step(m, f)]
    BY <2>1
  <2> QED BY <2>2
<1>2. ASSUME NEW n \in P PROVE n + 1 \in P
  <2>1. n \in Nat
    OBVIOUS
  <2>2. PICK f : f = [m \in 0 .. n |-> Step(m, f)]
    OBVIOUS
  <2> DEFINE g == [m \in 0 .. (n + 1) |-> Step(m, f)]
  <2>3. ASSUME NEW m \in 0 .. (n + 1) PROVE Step(m, f) = Step(m, g)
    <3>1. CASE m = 0
      BY <3>1
    <3>2. CASE m # 0
      <4>1. m - 1 \in 0 .. n /\ m - 1 \in 0 .. (n + 1)
        BY <2>1, <2>3, <3>2
      <4>2. f[m - 1] = Step(m - 1, f)
        BY <2>2, <4>1
      <4>3. g[m - 1] = Step(m - 1, f)
        BY <4>1
      <4> QED BY <3>2, <4>2, <4>3
    <3> QED BY <3>1, <3>2
  <2>4. g = [m \in 0 .. (n + 1) |-> Step(m, g)]
    <3> HIDE DEF Step
    <3> QED BY <2>3
  <2> HIDE DEF g
  <2> QED BY <2>1, <2>4
<1>3. P = Nat
  <2> HIDE DEF P
  <2>1. P \in SUBSET Nat
    BY DEF P
  <2> QED BY <1>1, <1>2, <2>1, NaturalsByInduction
<1> QED BY <1>3 DEF Follows

\* What the requests made of the tables one after the other is among it.
Along(rs, base, t) ==
    /\ t[0] = base
    /\ \A m \in 1 .. Len(rs) : <<t[m], rs[m].answer>> \in Outcomes(rs[m].op, t[m - 1])
Prefix(rs, m) == [k \in 1 .. m |-> Reported(rs[k])]

LEMMA AlongFollows ==
    ASSUME NEW rs \in Seq(Res), NEW base, NEW t, Along(rs, base, t), NEW reqs, NEW f,
           Follows(reqs, base, Len(rs), f), \A m \in 1 .. Len(rs) : reqs[m] = Request(rs[m])
    PROVE  <<t[Len(rs)], Prefix(rs, Len(rs))>> \in f[Len(rs)]
<1> DEFINE n == Len(rs)
           P == {m \in Nat : m <= n => <<t[m], Prefix(rs, m)>> \in f[m]}
<1>1. n \in Nat
  OBVIOUS
<1> HIDE DEF n
<1>2. \A m \in 0 .. n : f[m] = IF m = 0 THEN {<<base, <<>>>>} ELSE Onward(reqs, m, f[m - 1])
  BY DEF Follows, n
<1>3. 0 \in P
  <2>1. Prefix(rs, 0) = <<>>
    BY DEF Prefix
  <2>2. f[0] = {<<base, <<>>>>}
    BY <1>1, <1>2
  <2> QED BY <2>1, <2>2 DEF Along
<1>4. ASSUME NEW m \in P PROVE m + 1 \in P
  <2> SUFFICES ASSUME m + 1 <= n PROVE <<t[m + 1], Prefix(rs, m + 1)>> \in f[m + 1]
    OBVIOUS
  <2>1. m \in Nat /\ m <= n /\ m + 1 \in 1 .. n /\ m + 1 \in 0 .. n /\ m + 1 # 0 /\ (m + 1) - 1 = m
    BY <1>1
  <2>2. <<t[m], Prefix(rs, m)>> \in f[m]
    BY <2>1
  <2>3. f[m + 1] = Onward(reqs, m + 1, f[m])
    BY <1>2, <2>1
  <2>4. <<t[m + 1], rs[m + 1].answer>> \in Outcomes(rs[m + 1].op, t[m])
    BY <2>1 DEF Along, n
  <2>5. reqs[m + 1] = <<rs[m + 1].caller, rs[m + 1].op>>
    BY <2>1 DEF Request, n
  <2>6. Prefix(rs, m + 1) = Append(Prefix(rs, m), Reported(rs[m + 1]))
    BY <2>1 DEF Prefix
  <2> PICK p, o : p = <<t[m], Prefix(rs, m)>> /\ o = <<t[m + 1], rs[m + 1].answer>>
    OBVIOUS
  <2>7. p \in f[m] /\ p[1] = t[m] /\ p[2] = Prefix(rs, m)
    BY <2>2
  <2>8. o \in Outcomes(reqs[m + 1][2], p[1]) /\ o[1] = t[m + 1] /\ o[2] = rs[m + 1].answer
    BY <2>4, <2>5, <2>7
  <2>9. <<o[1], Append(p[2], <<reqs[m + 1][1], o[2]>>)>> \in Onward(reqs, m + 1, f[m])
    BY <2>7, <2>8, OnwardHas
  <2>10. Reported(rs[m + 1]) = <<reqs[m + 1][1], o[2]>>
    BY <2>5, <2>8 DEF Reported
  <2> QED BY <2>3, <2>6, <2>7, <2>8, <2>9, <2>10
<1>5. P = Nat
  <2> HIDE DEF P
  <2>1. P \in SUBSET Nat
    BY DEF P
  <2> QED BY <1>3, <1>4, <2>1, NaturalsByInduction
<1> QED BY <1>1, <1>5 DEF n

-----------------------------------------------------------------------------
(* The refinement                                                          *)

\* The requests and the answers of the atomic store
Reqs(rs) == [n \in DOMAIN rs |-> Request(rs[n])]
Reps(rs) == [n \in DOMAIN rs |-> Reported(rs[n])]
Requests == (IF phase = "answer" THEN <<>> ELSE Reqs(results)) \o batch \o queue
Answers == IF phase = "answer" THEN Reps(results) ELSE <<>>

LEMMA ResultsUnfold ==
    ASSUME NEW n
    PROVE  Atomic!Results(n) = (CHOOSE f : Follows(Requests, db, n, f))[n]
BY DEF Atomic!Results, Follows, Onward, Requests, Reqs

Decided(n) ==
    /\ Requests' = SubSeq(Requests, n + 1, Len(Requests))
    /\ Len(Answers') = n
    /\ \A m \in 1 .. n : Answers'[m][1] = Requests[m][1]
LEMMA AtomicParts ==
    /\ Atomic!Submit <=>
        /\ Len(Requests') = Len(Requests) + 1
        /\ SubSeq(Requests', 1, Len(Requests)) = Requests
        /\ Requests'[Len(Requests')] \in Req
        /\ UNCHANGED <<db, Answers>>
    /\ Atomic!Commit <=> \E n \in 1 .. Len(Requests) :
        /\ Decided(n)
        /\ <<db', Answers'>> \in Atomic!Results(n)
    /\ Atomic!Abort <=> \E n \in 1 .. Len(Requests) :
        /\ Decided(n)
        /\ \A m \in 1 .. n : Answers'[m][2] = Err
        /\ UNCHANGED db
    /\ Atomic!Deliver <=> Answers # <<>> /\ Answers' = Tail(Answers) /\ UNCHANGED <<db, Requests>>
    /\ Atomic!Stop <=> Requests' = <<>> /\ Answers' = <<>> /\ db' \in {db, migrate(db, 0)}
    /\ Atomic!vars = <<db, Requests, Answers>>
<1>1. Atomic!Submit <=>
        /\ Len(Requests') = Len(Requests) + 1
        /\ SubSeq(Requests', 1, Len(Requests)) = Requests
        /\ Requests'[Len(Requests')] \in Req
        /\ UNCHANGED <<db, Answers>>
  BY DEF Atomic!Submit, Requests, Answers, Reqs, Reps, Req
<1>2. Atomic!Commit <=> \E n \in 1 .. Len(Requests) :
        /\ Decided(n)
        /\ <<db', Answers'>> \in Atomic!Results(n)
  BY DEF Atomic!Commit, Atomic!Decide, Decided, Requests, Answers, Reqs, Reps
<1>3. Atomic!Abort <=> \E n \in 1 .. Len(Requests) :
        /\ Decided(n)
        /\ \A m \in 1 .. n : Answers'[m][2] = Err
        /\ UNCHANGED db
  BY DEF Atomic!Abort, Atomic!Decide, Decided, Requests, Answers, Reqs, Reps, Failed
<1>4. Atomic!Deliver <=> Answers # <<>> /\ Answers' = Tail(Answers) /\ UNCHANGED <<db, Requests>>
  BY DEF Atomic!Deliver, Requests, Answers, Reqs, Reps
<1>5. Atomic!Stop <=> Requests' = <<>> /\ Answers' = <<>> /\ db' \in {db, migrate(db, 0)}
  BY DEF Atomic!Stop, Requests, Answers, Reqs, Reps, Upgraded
<1>6. Atomic!vars = <<db, Requests, Answers>>
  BY DEF Atomic!vars, Requests, Answers, Reqs, Reps
<1> QED BY <1>1, <1>2, <1>3, <1>4, <1>5, <1>6

LEMMA RequestsTyped ==
    ASSUME NEW rs \in Seq(Res)
    PROVE  /\ Reqs(rs) \in Seq(Req) /\ Len(Reqs(rs)) = Len(rs)
           /\ \A n \in 1 .. Len(rs) : Reqs(rs)[n] = Request(rs[n])
           /\ Len(Reps(rs)) = Len(rs) /\ \A n \in 1 .. Len(rs) : Reps(rs)[n] = Reported(rs[n])
           /\ Reps(rs) \in Seq({Reported(r) : r \in Res})
<1>1. DOMAIN rs = 1 .. Len(rs) /\ Len(rs) \in Nat /\ \A n \in 1 .. Len(rs) : rs[n] \in Res
  OBVIOUS
<1>2. \A r \in Res : Request(r) \in Req
  BY DEF Res, Req, Request
<1> QED BY <1>1, <1>2 DEF Reqs, Reps

LEMMA NothingIsNothing == Reqs(<<>>) = <<>> /\ Reps(<<>>) = <<>>
BY DEF Reqs, Reps

\* Handing a request on from the batch to the results changes nothing.
LEMMA HandedOn ==
    ASSUME NEW rs \in Seq(Res), NEW b \in Seq(Req), b # <<>>, NEW answer,
           result(Head(b), answer) \in Res
    PROVE  Reqs(Append(rs, result(Head(b), answer))) \o Tail(b) = Reqs(rs) \o b
<1> PICK x : x = result(Head(b), answer)
  OBVIOUS
<1> DEFINE left == Reqs(Append(rs, x)) \o Tail(b)
           right == Reqs(rs) \o b
<1>1. Head(b) \in Req /\ Tail(b) \in Seq(Req) /\ Len(Tail(b)) = Len(b) - 1 /\ Len(b) \in Nat /\ Len(b) > 0
  OBVIOUS
<1>2. Request(x) = Head(b)
  BY <1>1 DEF Request, result, Req
<1>3. Append(rs, x) \in Seq(Res) /\ Len(Append(rs, x)) = Len(rs) + 1
  OBVIOUS
<1>4. /\ Reqs(Append(rs, x)) \in Seq(Req) /\ Len(Reqs(Append(rs, x))) = Len(rs) + 1
      /\ \A n \in 1 .. Len(rs) + 1 : Reqs(Append(rs, x))[n] = Request(Append(rs, x)[n])
  BY <1>3, RequestsTyped
<1>5. /\ Reqs(rs) \in Seq(Req) /\ Len(Reqs(rs)) = Len(rs) /\ Len(rs) \in Nat
      /\ \A n \in 1 .. Len(rs) : Reqs(rs)[n] = Request(rs[n])
  <2>1. Len(rs) \in Nat
    OBVIOUS
  <2> QED BY <2>1, RequestsTyped
<1>6. left \in Seq(Req) /\ right \in Seq(Req) /\ Len(left) = Len(right) /\ Len(left) = Len(rs) + Len(b)
  <2>1. left \in Seq(Req) /\ Len(left) = Len(Reqs(Append(rs, x))) + Len(Tail(b))
    BY <1>1, <1>4, ConcatProperties, Zenon
  <2>2. right \in Seq(Req) /\ Len(right) = Len(Reqs(rs)) + Len(b)
    BY <1>1, <1>5, ConcatProperties, Zenon
  <2> HIDE DEF left, right
  <2> QED BY <1>1, <1>4, <1>5, <2>1, <2>2
<1>7. ASSUME NEW n \in 1 .. Len(left) PROVE left[n] = right[n]
  <2>1. CASE n <= Len(rs)
    <3>1. left[n] = Request(Append(rs, x)[n]) /\ Append(rs, x)[n] = rs[n]
      BY <1>1, <1>4, <1>5, <1>6, <2>1
    <3>2. right[n] = Request(rs[n])
      BY <1>5, <2>1
    <3> QED BY <3>1, <3>2
  <2>2. CASE n = Len(rs) + 1
    <3>1. left[n] = Request(Append(rs, x)[n]) /\ Append(rs, x)[n] = x
      BY <1>1, <1>4, <1>5, <1>6, <2>2
    <3>2. right[n] = b[1] /\ Head(b) = b[1]
      BY <1>1, <1>5, <2>2
    <3> QED BY <1>2, <3>1, <3>2
  <2>3. CASE n > Len(rs) + 1
    <3>1. left[n] = Tail(b)[n - (Len(rs) + 1)]
      <4>1. ~(n <= Len(Reqs(Append(rs, x)))) /\ n \in 1 .. Len(Reqs(Append(rs, x))) + Len(Tail(b))
        BY <1>1, <1>4, <1>5, <1>6, <2>3
      <4>2. left[n] = Tail(b)[n - Len(Reqs(Append(rs, x)))]
        BY <1>1, <1>4, <4>1, ConcatProperties
      <4> QED BY <1>4, <4>2
    <3>2. right[n] = b[n - Len(rs)]
      <4>1. ~(n <= Len(Reqs(rs))) /\ n \in 1 .. Len(Reqs(rs)) + Len(b)
        BY <1>1, <1>5, <1>6, <2>3
      <4>2. \A k \in 1 .. Len(Reqs(rs)) + Len(b) :
                right[k] = IF k <= Len(Reqs(rs)) THEN Reqs(rs)[k] ELSE b[k - Len(Reqs(rs))]
        BY <1>5, ConcatProperties, Zenon
      <4> QED BY <1>5, <4>1, <4>2
    <3>3. Tail(b)[n - (Len(rs) + 1)] = b[n - Len(rs)]
      BY <1>1, <1>5, <1>6, <2>3
    <3> QED BY <3>1, <3>2, <3>3
  <2> QED BY <1>5, <1>6, <2>1, <2>2, <2>3
<1> HIDE DEF left, right
<1>8. left = right
  BY <1>6, <1>7, SeqEqual
<1> QED BY <1>8 DEF left, right

\* What is left when a batch has been decided
LEMMA TheRestIsLeft ==
    ASSUME NEW X \in Seq(Req), NEW b \in Seq(Req), NEW q \in Seq(Req),
           NEW Y, Y = X \o b \o q, NEW n, n = Len(X) + Len(b)
    PROVE  /\ Y \in Seq(Req) /\ Len(Y) = n + Len(q) /\ SubSeq(Y, n + 1, Len(Y)) = q
           /\ \A m \in 1 .. Len(X) : Y[m] = X[m]
           /\ \A m \in 1 .. Len(b) : Y[Len(X) + m] = b[m]
<1>1. /\ Len(X) \in Nat /\ Len(b) \in Nat /\ Len(q) \in Nat /\ n \in Nat
      /\ Y \in Seq(Req) /\ Len(Y) = n + Len(q)
  OBVIOUS
<1>2. \A m \in 1 .. Len(X) : Y[m] = X[m]
  OBVIOUS
<1>3. \A m \in 1 .. Len(b) : Y[Len(X) + m] = b[m]
  OBVIOUS
<1>4. \A m \in 1 .. Len(q) : Y[n + m] = q[m]
  BY <1>1
<1> DEFINE rest == SubSeq(Y, n + 1, Len(Y))
<1>5. rest \in Seq(Req) /\ Len(rest) = Len(q)
  BY <1>1
<1>6. \A m \in 1 .. Len(q) : rest[m] = q[m]
  <2> SUFFICES ASSUME NEW m \in 1 .. Len(q) PROVE rest[m] = q[m]
    OBVIOUS
  <2>1. rest[m] = Y[(n + 1) + m - 1]
    BY <1>1
  <2>2. (n + 1) + m - 1 = n + m
    BY <1>1
  <2> QED BY <1>4, <2>1, <2>2
<1> HIDE DEF rest
<1>7. rest = q
  BY <1>5, <1>6, SeqEqual
<1> QED BY <1>1, <1>2, <1>3, <1>7 DEF rest

LEMMA OneMoreRequest ==
    ASSUME NEW X \in Seq(Req), NEW b \in Seq(Req), NEW q \in Seq(Req), NEW e \in Req,
           NEW Y, Y = X \o b \o q, NEW Z, Z = X \o b \o Append(q, e)
    PROVE  /\ Len(Z) = Len(Y) + 1 /\ SubSeq(Z, 1, Len(Y)) = Y /\ Z[Len(Z)] = e
<1>1. /\ Y \in Seq(Req) /\ Z \in Seq(Req) /\ Len(Z) = Len(Y) + 1 /\ Len(Y) \in Nat
  OBVIOUS
<1>2. Z[Len(Y) + 1] = e
  OBVIOUS
<1>3. \A m \in 1 .. Len(Y) : Z[m] = Y[m]
  OBVIOUS
<1> DEFINE first == SubSeq(Z, 1, Len(Y))
<1>4. first \in Seq(Req) /\ Len(first) = Len(Y) /\ \A m \in 1 .. Len(Y) : first[m] = Z[m]
  BY <1>1
<1> HIDE DEF first
<1>5. first = Y
  BY <1>1, <1>3, <1>4, SeqEqual
<1> QED BY <1>1, <1>2, <1>5 DEF first

\* What was made of the batch so far is what its requests make of the
\* committed tables, one after the other, unless LMDB broke the transaction.
LeadsTo(rs, base, tables) == \E t \in [Nat -> Tables] : Along(rs, base, t) /\ t[Len(rs)] = tables
Trail == phase = "batch" /\ ~txn.broken => LeadsTo(results, db, txn.db)

LEMMA OutcomesArePairs ==
    ASSUME NEW d, NEW op \in Operation, NEW o \in Outcomes(op, d)
    PROVE  o = <<o[1], o[2]>>
<1>1. CASE \E i \in Id : op = Save(i)
  <2>1. op.type = "Save"
    BY <1>1 DEF Save
  <2>2. Outcomes(op, d) = {<<save_event_with_txn(d, op.event), Verdict(d, op.event)>>}
    BY <2>1 DEF Outcomes
  <2> QED BY <2>2
<1>2. CASE \E f \in DeleteFilter : op = Delete(f)
  <2>1. op.type = "Delete"
    BY <1>2 DEF Delete
  <2>2. Outcomes(op, d) = {<<remove(d, S), "Ok">> : S \in query(d, op.filter)}
    BY <2>1 DEF Outcomes
  <2> QED BY <2>2
<1>3. CASE op = Reindex
  <2>1. op.type = "Reindex"
    BY <1>3 DEF Reindex
  <2>2. Outcomes(op, d) = {<<reindex(d), "Ok">>}
    BY <2>1 DEF Outcomes
  <2> QED BY <2>2
<1>4. CASE op = Wipe
  <2>1. op.type = "Wipe"
    BY <1>4 DEF Wipe
  <2>2. Outcomes(op, d) = {<<wipe(d), "Ok">>}
    BY <2>1 DEF Outcomes
  <2> QED BY <2>2
<1> QED BY <1>1, <1>2, <1>3, <1>4 DEF Operation

\* One more operation leads the trail on.
LEMMA TrailGoesOn ==
    ASSUME NEW rs \in Seq(Res), NEW base, NEW t \in [Nat -> Tables], Along(rs, base, t),
           NEW r \in Res, NEW d \in Tables, <<d, r.answer>> \in Outcomes(r.op, t[Len(rs)])
    PROVE  LeadsTo(Append(rs, r), base, d)
<1> PICK n \in Nat : n = Len(rs)
  OBVIOUS
<1>1. /\ Len(Append(rs, r)) = n + 1 /\ n + 1 \in Nat /\ Append(rs, r)[n + 1] = r
      /\ \A m \in 1 .. n : Append(rs, r)[m] = rs[m]
  OBVIOUS
<1> PICK u : u = [t EXCEPT ![n + 1] = d]
  OBVIOUS
<1>2. u \in [Nat -> Tables] /\ u[n + 1] = d /\ \A m \in Nat : m # n + 1 => u[m] = t[m]
  BY <1>1
<1>3. u[0] = base
  BY <1>2 DEF Along
<1>4. ASSUME NEW m \in 1 .. n + 1
      PROVE  <<u[m], Append(rs, r)[m].answer>> \in Outcomes(Append(rs, r)[m].op, u[m - 1])
  <2>1. CASE m = n + 1
    <3>1. u[m] = d /\ m - 1 = n /\ u[n] = t[n]
      BY <1>2, <2>1
    <3> QED BY <1>1, <2>1, <3>1
  <2>2. CASE m # n + 1
    <3>1. m \in 1 .. n /\ m \in Nat /\ m - 1 \in Nat /\ m - 1 # n + 1
      BY <2>2
    <3>2. u[m] = t[m] /\ u[m - 1] = t[m - 1] /\ Append(rs, r)[m] = rs[m]
      BY <1>1, <1>2, <2>2, <3>1
    <3> QED BY <3>1, <3>2 DEF Along
  <2> QED BY <2>1, <2>2
<1>5. Along(Append(rs, r), base, u)
  BY <1>1, <1>3, <1>4 DEF Along
<1> QED BY <1>1, <1>2, <1>5 DEF LeadsTo

LEMMA TrailOfOperation ==
    ASSUME NEW rs \in Seq(Res), NEW base, NEW tables, Good(tables),
           LeadsTo(rs, base, tables), NEW req \in Req, NEW o \in Outcomes(req[2], tables)
    PROVE  LeadsTo(Append(rs, result(req, o[2])), base, o[1])
<1> PICK t \in [Nat -> Tables] : Along(rs, base, t) /\ t[Len(rs)] = tables
  BY DEF LeadsTo
<1> PICK op \in Operation : op = req[2]
  BY DEF Req
<1> PICK d, r : d = o[1] /\ r = result(req, o[2])
  OBVIOUS
<1>1. r \in Res /\ r.op = op /\ r.answer = o[2]
  <2>1. r \in Res
    BY AnswersAreTyped
  <2> QED BY <2>1 DEF result
<1>2. d \in Tables
  <2>1. Good(d)
    BY OutcomesAreGood
  <2> QED BY <2>1 DEF Good
<1>3. <<d, r.answer>> \in Outcomes(r.op, t[Len(rs)])
  <2>1. o = <<o[1], o[2]>>
    BY OutcomesArePairs
  <2> QED BY <1>1, <2>1
<1>4. LeadsTo(Append(rs, r), base, d)
  BY <1>1, <1>2, <1>3, TrailGoesOn
<1> QED BY <1>4

LEMMA InitTrail == Init => Trail
BY DEF Init, Trail

LEMMA NextTrail == StoreInv /\ Trail /\ [Next]_vars => Trail'
<1> SUFFICES ASSUME StoreInv, Trail, [Next]_vars PROVE Trail'
  OBVIOUS
<1>1. DiskInv /\ QueueInv /\ PhaseInv /\ Flags
  BY StoreParts
<1>2. queue \in Seq(Req) /\ batch \in Seq(Req) /\ results \in Seq(Res) /\ db \in Tables
  BY <1>1 DEF QueueInv, DiskInv, Kept
<1>3. ASSUME phase' # "batch" PROVE Trail'
  BY <1>3 DEF Trail
<1>4. ASSUME UNCHANGED <<db, phase, txn, results>> PROVE Trail'
  BY <1>4 DEF Trail
<1>5. CASE Open
  <2>1. phase' = "idle"
    BY <1>1, <1>5 DEF Open, PhaseInv, ingester
  <2> QED BY <1>3, <2>1
<1>6. CASE BeginBatch
  <2>1. CASE phase' = "answer"
    BY <1>3, <2>1
  <2>2. CASE phase' = "batch" /\ txn' = [db |-> db, broken |-> FALSE] /\ UNCHANGED results
    <3>1. results' = <<>> /\ Len(results') = 0 /\ db' = db /\ txn'.db = db
      BY <1>1, <1>6, <2>2 DEF BeginBatch, PhaseInv, disk
    <3> PICK t : t = [k \in Nat |-> db]
      OBVIOUS
    <3>2. t \in [Nat -> Tables] /\ t[0] = db
      BY <1>2
    <3>3. Along(results', db', t) /\ t[Len(results')] = txn'.db
      BY <3>1, <3>2 DEF Along
    <3> QED BY <3>2, <3>3 DEF Trail, LeadsTo
  <2> QED BY <1>6, <2>1, <2>2 DEF BeginBatch
<1>7. CASE ProcessOperation
  <2>1. LeadsTo(results, db, txn.db)
    BY <1>7 DEF ProcessOperation, Trail
  <2>2. Head(batch) \in Req
    BY <1>2, <1>7 DEF ProcessOperation
  <2>3. PICK o \in Outcomes(Head(batch)[2], txn.db) :
            /\ txn' = [txn EXCEPT !.db = o[1]]
            /\ results' = Append(results, result(Head(batch), o[2]))
    BY <1>7 DEF ProcessOperation
  <2>4. txn'.db = o[1] /\ db' = db
    BY <1>1, <1>7, <2>3 DEF ProcessOperation, DiskInv, disk
  <2>5. Good(txn.db)
    BY <1>1, KeptIsGood DEF DiskInv
  <2>6. LeadsTo(results', db, o[1])
    BY <1>2, <2>1, <2>2, <2>3, <2>5, TrailOfOperation
  <2> QED BY <2>4, <2>6 DEF Trail
<1>8. CASE FailedMaintenance
  <2>1. txn'.broken = TRUE
    BY <1>1, <1>8 DEF FailedMaintenance, DiskInv
  <2> QED BY <2>1 DEF Trail
<1>9. CASE Stop \/ AbortBatch \/ Commit
  <2>1. phase' # "batch"
    BY <1>9 DEF Stop, AbortBatch, Commit
  <2> QED BY <1>3, <2>1
<1>10. CASE Answer1
  <2>1. phase' # "batch"
    BY <1>10 DEF Answer1
  <2> QED BY <1>3, <2>1
<1>11. ASSUME NEW c \in Caller, Drop(c) \/ \E op \in Operation : Call(c, op) PROVE Trail'
  BY <1>4, <1>11 DEF Drop, Call, disk, ingester
<1>12. CASE UNCHANGED vars
  BY <1>4, <1>12 DEF vars
<1> QED BY <1>5, <1>6, <1>7, <1>8, <1>9, <1>10, <1>11, <1>12 DEF Next, Ingest

\* The requests Y of the atomic store: made, still in the batch, in the channel
Laid(Y, rs, b, q) == rs \in Seq(Res) /\ b \in Seq(Req) /\ q \in Seq(Req) /\ Y = Reqs(rs) \o b \o q
\* The n first of them are decided, with these answers.
Ended(Y, n, q, rs) ==
    /\ n \in 1 .. Len(Y) /\ SubSeq(Y, n + 1, Len(Y)) = q /\ Len(Reps(rs)) = n
    /\ \A m \in 1 .. n : Reps(rs)[m][1] = Y[m][1]
Refused(n, rs) == \A m \in 1 .. n : Reps(rs)[m][2] = Err

\* A batch that failed: every request of it is decided, none was made.
LEMMA AllAreFailed ==
    ASSUME NEW Y, NEW rs, NEW b, NEW q, Laid(Y, rs, b, q), Len(rs) + Len(b) > 0,
           NEW fs, fs = AllFailed(rs) \o FailedResults(b)
    PROVE  Ended(Y, Len(rs) + Len(b), q, fs) /\ Refused(Len(rs) + Len(b), fs)
<1> PICK n : n = Len(rs) + Len(b)
  OBVIOUS
<1>0. rs \in Seq(Res) /\ b \in Seq(Req) /\ q \in Seq(Req) /\ Y = Reqs(rs) \o b \o q
  BY DEF Laid
<1> USE <1>0
<1> PICK X, A, F : X = Reqs(rs) /\ A = AllFailed(rs) /\ F = FailedResults(b)
  OBVIOUS
<1>1. Len(rs) \in Nat /\ Len(b) \in Nat /\ Len(q) \in Nat
  OBVIOUS
<1>2. X \in Seq(Req) /\ Len(X) = Len(rs) /\ \A m \in 1 .. Len(rs) : X[m] = Request(rs[m])
  BY RequestsTyped
<1>3. A \in Seq(Res) /\ Len(A) = Len(rs) /\ F \in Seq(Res) /\ Len(F) = Len(b)
  BY FailuresAreTyped
<1>4. /\ Len(Y) = n + Len(q) /\ SubSeq(Y, n + 1, Len(Y)) = q
      /\ \A m \in 1 .. Len(rs) : Y[m] = X[m]
      /\ \A m \in 1 .. Len(b) : Y[Len(rs) + m] = b[m]
  <2>1. Y = X \o b \o q /\ n = Len(X) + Len(b)
    BY <1>2
  <2>2. /\ Len(Y) = n + Len(q) /\ SubSeq(Y, n + 1, Len(Y)) = q
        /\ \A m \in 1 .. Len(X) : Y[m] = X[m]
        /\ \A m \in 1 .. Len(b) : Y[Len(X) + m] = b[m]
    <3>1. X \in Seq(Req) /\ b \in Seq(Req) /\ q \in Seq(Req) /\ Y = X \o b \o q /\ n = Len(X) + Len(b)
      BY <1>2, <2>1
    <3> QED BY ONLY <3>1, TheRestIsLeft
  <2> QED BY <1>2, <2>2
<1>5. /\ fs \in Seq(Res) /\ Len(fs) = n
      /\ \A m \in 1 .. Len(rs) : fs[m] = A[m]
      /\ \A m \in 1 .. Len(b) : fs[Len(rs) + m] = F[m]
  BY <1>1, <1>3
<1>6. Len(Reps(fs)) = n /\ \A m \in 1 .. n : Reps(fs)[m] = Reported(fs[m])
  BY <1>5, RequestsTyped
<1>7. ASSUME NEW m \in 1 .. Len(rs) PROVE fs[m].caller = Y[m][1] /\ fs[m].answer = Err
  <2>1. rs[m] \in Res
    OBVIOUS
  <2>2. A[m] = [rs[m] EXCEPT !.answer = Err]
    <3>1. m \in DOMAIN rs
      OBVIOUS
    <3> QED BY <3>1 DEF AllFailed
  <2>3. A[m].caller = rs[m].caller /\ A[m].answer = Err
    BY <2>1, <2>2 DEF Res
  <2>4. Y[m][1] = rs[m].caller
    BY <1>2, <1>4 DEF Request
  <2> QED BY <1>5, <2>3, <2>4
<1>8. ASSUME NEW m \in 1 .. Len(b)
      PROVE  fs[Len(rs) + m].caller = Y[Len(rs) + m][1] /\ fs[Len(rs) + m].answer = Err
  <2>1. F[m] = result(b[m], Err)
    <3>1. m \in DOMAIN b
      OBVIOUS
    <3> QED BY <3>1 DEF FailedResults
  <2>2. F[m].caller = b[m][1] /\ F[m].answer = Err
    BY <2>1 DEF result
  <2>3. fs[Len(rs) + m] = F[m] /\ Y[Len(rs) + m] = b[m]
    BY <1>4, <1>5
  <2> QED BY <2>2, <2>3
<1>9. ASSUME NEW m \in 1 .. n PROVE fs[m].caller = Y[m][1] /\ fs[m].answer = Err
  <2>1. CASE m \in 1 .. Len(rs)
    BY <1>7, <2>1
  <2>2. CASE m \notin 1 .. Len(rs)
    <3> PICK k : k = m - Len(rs)
      OBVIOUS
    <3>1. k \in 1 .. Len(b) /\ m = Len(rs) + k
      BY <1>1, <2>2
    <3> QED BY <1>8, <3>1
  <2> QED BY <2>1, <2>2
<1>10. n \in 1 .. Len(Y)
  BY <1>1, <1>4
<1>11. ASSUME NEW m \in 1 .. n PROVE Reps(fs)[m][1] = Y[m][1] /\ Reps(fs)[m][2] = Err
  <2>1. \A r : Reported(r)[1] = r.caller /\ Reported(r)[2] = r.answer
    BY DEF Reported
  <2>2. Reps(fs)[m] = Reported(fs[m])
    BY <1>6
  <2> QED BY <1>9, <2>1, <2>2
<1> QED BY <1>4, <1>6, <1>10, <1>11 DEF Ended, Refused

\* A batch that was committed
LEMMA AllAreMade ==
    ASSUME NEW Y, NEW rs, NEW q, Laid(Y, rs, <<>>, q), Len(rs) > 0,
           NEW base, NEW tables, LeadsTo(rs, base, tables)
    PROVE  /\ Ended(Y, Len(rs), q, rs)
           /\ <<tables, Reps(rs)>> \in (CHOOSE f : Follows(Y, base, Len(rs), f))[Len(rs)]
<1> PICK n : n = Len(rs)
  OBVIOUS
<1>0. rs \in Seq(Res) /\ q \in Seq(Req) /\ Y = Reqs(rs) \o <<>> \o q
  BY DEF Laid
<1> USE <1>0
<1> PICK X : X = Reqs(rs)
  OBVIOUS
<1>1. n \in Nat /\ <<>> \in Seq(Req) /\ Len(<<>>) = 0 /\ n = n + 0
  OBVIOUS
<1>2. X \in Seq(Req) /\ Len(X) = n /\ \A m \in 1 .. n : X[m] = Request(rs[m])
  BY RequestsTyped
<1>3. Y = X \o <<>> \o q /\ n = Len(X) + Len(<<>>)
  BY <1>1, <1>2
<1>4. Len(Y) = n + Len(q) /\ SubSeq(Y, n + 1, Len(Y)) = q /\ \A m \in 1 .. n : Y[m] = X[m]
  <2>1. Len(Y) = n + Len(q) /\ SubSeq(Y, n + 1, Len(Y)) = q /\ \A m \in 1 .. Len(X) : Y[m] = X[m]
    <3>1. X \in Seq(Req) /\ <<>> \in Seq(Req) /\ q \in Seq(Req)
      BY <1>1, <1>2
    <3> QED BY ONLY <1>3, <3>1, TheRestIsLeft
  <2> QED BY <1>2, <2>1
<1>5. Len(Reps(rs)) = n /\ \A m \in 1 .. n : Reps(rs)[m] = Reported(rs[m])
  BY RequestsTyped
<1>6. \A m \in 1 .. n : Reps(rs)[m][1] = Y[m][1]
  BY <1>2, <1>4, <1>5 DEF Reported, Request
<1>7. n \in 1 .. Len(Y)
  BY <1>1, <1>4
<1> PICK f : f = CHOOSE g : Follows(Y, base, n, g)
  OBVIOUS
<1>8. Follows(Y, base, n, f)
  <2>1. \E g : Follows(Y, base, n, g)
    BY <1>1, FollowsExists
  <2> QED BY <2>1
<1>9. PICK t \in [Nat -> Tables] : Along(rs, base, t) /\ t[Len(rs)] = tables
  BY DEF LeadsTo
<1>10. \A m \in 1 .. Len(rs) : Y[m] = Request(rs[m])
  BY <1>2, <1>4
<1>11. <<t[Len(rs)], Prefix(rs, Len(rs))>> \in f[Len(rs)]
  BY <1>8, <1>9, <1>10, AlongFollows
<1>12. Prefix(rs, Len(rs)) = Reps(rs)
  BY DEF Prefix, Reps
<1> QED BY <1>4, <1>5, <1>6, <1>7, <1>9, <1>11, <1>12 DEF Ended

\* What the atomic store sees in each phase of the ingester
Seen == /\ phase # "batch" => Requests = queue /\ batch = <<>>
        /\ phase = "batch" => Requests = Reqs(results) \o batch \o queue
        /\ phase = "answer" => Answers = Reps(results)
        /\ phase # "answer" => Answers = <<>>
        /\ queue \in Seq(Req) /\ batch \in Seq(Req) /\ results \in Seq(Res)
        /\ phase \in {"idle", "batch", "answer"}
LEMMA RequestsWhen == StoreInv => Seen
<1> SUFFICES ASSUME StoreInv PROVE Seen
  OBVIOUS
<1>1. QueueInv /\ PhaseInv /\ phase \in {"idle", "batch", "answer"}
  BY StoreParts DEF Flags
<1>2. phase # "batch" => Requests = queue /\ batch = <<>>
  <2> SUFFICES ASSUME phase # "batch" PROVE Requests = queue /\ batch = <<>>
    OBVIOUS
  <2>1. batch = <<>> /\ queue \in Seq(Req)
    BY <1>1 DEF PhaseInv, QueueInv
  <2>2. <<>> \o <<>> \o queue = queue
    BY <2>1
  <2>3. phase = "idle" => Reqs(results) = <<>>
    BY <1>1, NothingIsNothing DEF PhaseInv
  <2>4. Requests = <<>> \o batch \o queue
    BY <1>1, <2>3 DEF Requests
  <2> QED BY <2>1, <2>2, <2>4
<1>3. phase = "batch" => Requests = Reqs(results) \o batch \o queue
  BY DEF Requests
<1>4. (phase = "answer" => Answers = Reps(results)) /\ (phase # "answer" => Answers = <<>>)
  BY DEF Answers
<1> QED BY <1>1, <1>2, <1>3, <1>4 DEF QueueInv, Seen

LEMMA RequestsThen ==
    ASSUME StoreInv, [Next]_vars
    PROVE  /\ phase' # "batch" => Requests' = queue' /\ batch' = <<>>
           /\ phase' = "batch" => Requests' = Reqs(results') \o batch' \o queue'
           /\ phase' = "answer" => Answers' = Reps(results')
           /\ phase' # "answer" => Answers' = <<>>
           /\ queue' \in Seq(Req) /\ batch' \in Seq(Req) /\ results' \in Seq(Res)
<1>1. (StoreInv => Seen)'
  BY RequestsWhen, PTL
<1> QED BY <1>1, NextStore DEF Seen

\* A start upgrades the tables as an upgrade from the first version would.
LEMMA StartIsStop == StoreInv /\ Open => Atomic!Stop
<1> SUFFICES ASSUME StoreInv, Open PROVE Atomic!Stop
  OBVIOUS
<1>1. DiskInv /\ QueueInv /\ PhaseInv /\ Flags
  BY StoreParts
<1>2. phase = "idle" /\ queue = <<>> /\ phase' = phase /\ queue' = queue
  BY <1>1 DEF Open, ingester, PhaseInv
<1>3. Requests' = <<>> /\ Answers' = <<>>
  BY <1>2, RequestsThen DEF Next
<1>4. db' \in {db, migrate(db, 0)}
  <2>1. CASE ~(version < DB_VERSION)
    BY <2>1 DEF Open
  <2>2. CASE version < 2
    BY <2>2 DEF Open, migrate, DB_VERSION
  <2>3. CASE version = 2
    <3>1. Kept(db, version) /\ db \in Tables
      BY <1>1 DEF DiskInv, Kept
    <3>2. db.index["kc"] = db.events
      BY <2>3, <3>1 DEF Kept, DB_VERSION, IndexTable
    <3>3. migrate_v1_to_v2(db) = db
      BY <3>1, <3>2 DEF migrate_v1_to_v2, Tables, IndexTable
    <3> QED BY <2>3, <3>3 DEF Open, migrate, DB_VERSION
  <2>4. version \in Nat
    BY <1>1 DEF DiskInv, Kept
  <2> QED BY <2>1, <2>2, <2>3, <2>4 DEF DB_VERSION
<1> QED BY <1>3, <1>4, AtomicParts

LEMMA StopIsStop == StoreInv /\ Stop => Atomic!Stop
<1> SUFFICES ASSUME StoreInv, Stop PROVE Atomic!Stop
  OBVIOUS
<1>1. phase' = "idle" /\ queue' = <<>> /\ db' = db
  BY DEF Stop, disk
<1>2. Requests' = <<>> /\ Answers' = <<>>
  BY <1>1, RequestsThen DEF Next
<1> QED BY <1>1, <1>2, AtomicParts

LEMMA CallIsSubmit ==
    ASSUME StoreInv, NEW c \in Caller, NEW op \in Operation, Call(c, op)
    PROVE  Atomic!Submit
<1>1. queue' = Append(queue, <<c, op>>) /\ UNCHANGED <<db, phase, batch, results>>
  BY DEF Call, disk, ingester
<1>2. <<c, op>> \in Req
  BY DEF Req
<1>3. [Next]_vars
  BY DEF Next
<1> PICK e, q, b, Y, Z : e = <<c, op>> /\ q = queue /\ b = batch /\ Y = Requests /\ Z = Requests'
  OBVIOUS
<1>4. UNCHANGED Answers
  BY <1>1, <1>3, RequestsThen, RequestsWhen DEF Seen
<1>5. CASE phase = "batch"
  <2> PICK X : X = Reqs(results)
    OBVIOUS
  <2>1. X \in Seq(Req) /\ b \in Seq(Req) /\ q \in Seq(Req)
    BY RequestsTyped, RequestsWhen DEF Seen
  <2>2. Y = X \o b \o q /\ Z = X \o b \o Append(q, e)
    BY <1>1, <1>3, <1>5, RequestsThen, RequestsWhen DEF Seen
  <2>3. Len(Z) = Len(Y) + 1 /\ SubSeq(Z, 1, Len(Y)) = Y /\ Z[Len(Z)] = e
    BY ONLY <1>2, <2>1, <2>2, OneMoreRequest
  <2> QED BY <1>1, <1>2, <1>4, <2>3, AtomicParts
<1>6. CASE phase # "batch"
  <2>1. <<>> \in Seq(Req) /\ q \in Seq(Req)
    BY RequestsWhen DEF Seen
  <2>2. Y = q /\ Z = Append(q, e)
    BY <1>1, <1>3, <1>6, RequestsThen, RequestsWhen DEF Seen
  <2>3. q = <<>> \o <<>> \o q /\ Append(q, e) = <<>> \o <<>> \o Append(q, e)
    BY <1>2, <2>1
  <2>4. Len(Z) = Len(Y) + 1 /\ SubSeq(Z, 1, Len(Y)) = Y /\ Z[Len(Z)] = e
    BY ONLY <1>2, <2>1, <2>2, <2>3, OneMoreRequest
  <2> QED BY <1>1, <1>2, <1>4, <2>4, AtomicParts
<1> QED BY <1>5, <1>6

LEMMA EndedIsAbort ==
    ASSUME NEW n, NEW q, NEW fs, Ended(Requests, n, q, fs), Refused(n, fs),
           Requests' = q, Answers' = Reps(fs), UNCHANGED db
    PROVE  Atomic!Abort
<1>1. n \in 1 .. Len(Requests) /\ Decided(n)
  BY DEF Ended, Decided, Refused
<1> QED BY <1>1, AtomicParts DEF Refused

LEMMA BeginIsAbortOrStutter ==
    StoreInv /\ BeginBatch => Atomic!Abort \/ UNCHANGED <<db, Requests, Answers>>
<1> SUFFICES ASSUME StoreInv, BeginBatch PROVE Atomic!Abort \/ UNCHANGED <<db, Requests, Answers>>
  OBVIOUS
<1>1. Seen /\ [Next]_vars /\ PhaseInv
  BY RequestsWhen, StoreParts DEF Next, Ingest
<1>2. phase = "idle" /\ results = <<>> /\ queue # <<>> /\ queue' = <<>> /\ db' = db
  BY <1>1 DEF BeginBatch, PhaseInv, disk
<1>3. Requests = queue /\ Answers = <<>> /\ batch = <<>> /\ queue \in Seq(Req) /\ Len(queue) > 0
  BY <1>1, <1>2 DEF Seen
<1>4. CASE phase' = "batch" /\ batch' = queue /\ UNCHANGED results
  <2>1. Requests' = Reqs(<<>>) \o queue \o <<>> /\ Answers' = <<>>
    BY <1>1, <1>2, <1>4, RequestsThen
  <2>2. <<>> \o queue \o <<>> = queue
    BY <1>3
  <2> QED BY <1>2, <1>3, <2>1, <2>2, NothingIsNothing
<1>5. CASE phase' = "answer" /\ results' = FailedResults(queue)
  <2>1. Requests' = <<>> /\ Answers' = Reps(results')
    BY <1>1, <1>2, <1>5, RequestsThen
  <2> PICK Y, b, q, fs, n : Y = Requests /\ b = queue /\ q = <<>> /\ fs = results' /\ n = Len(queue)
    OBVIOUS
  <2> PICK none : none = <<>>
    OBVIOUS
  <2>2. none \in Seq(Res) /\ b \in Seq(Req) /\ q \in Seq(Req) /\ n = Len(none) + Len(b) /\ n > 0
    BY <1>3
  <2>3. Laid(Y, none, b, q)
    <3>1. <<>> \o b \o q = b
      BY <1>3
    <3> QED BY <1>3, <2>2, <3>1, NothingIsNothing DEF Laid
  <2>4. fs = AllFailed(none) \o FailedResults(b)
    <3>1. AllFailed(<<>>) = <<>>
      BY DEF AllFailed
    <3>2. FailedResults(b) \in Seq(Res)
      BY <2>2, FailuresAreTyped
    <3>3. <<>> \o FailedResults(b) = FailedResults(b)
      BY <3>2
    <3> QED BY <1>5, <3>1, <3>3
  <2>5. Ended(Y, n, q, fs) /\ Refused(n, fs)
    BY <2>2, <2>3, <2>4, AllAreFailed
  <2> QED BY <1>2, <2>1, <2>5, EndedIsAbort
<1> QED BY <1>4, <1>5 DEF BeginBatch

LEMMA OperationIsStutter ==
    StoreInv /\ (ProcessOperation \/ FailedMaintenance) => UNCHANGED <<db, Requests, Answers>>
<1> SUFFICES ASSUME StoreInv, ProcessOperation \/ FailedMaintenance
             PROVE  UNCHANGED <<db, Requests, Answers>>
  OBVIOUS
<1>1. Seen /\ [Next]_vars
  BY RequestsWhen DEF Next, Ingest
<1>2. /\ phase = "batch" /\ batch # <<>> /\ batch' = Tail(batch)
      /\ UNCHANGED <<db, queue, phase>>
  BY DEF ProcessOperation, FailedMaintenance, disk
<1>3. Head(batch) \in Req
  BY <1>1, <1>2 DEF Seen
<1>4. PICK answer : results' = Append(results, result(Head(batch), answer)) /\ result(Head(batch), answer) \in Res
  <2>1. CASE ProcessOperation
    <3>1. PICK o \in Outcomes(Head(batch)[2], txn.db) : results' = Append(results, result(Head(batch), o[2]))
      BY <2>1 DEF ProcessOperation
    <3>2. result(Head(batch), o[2]) \in Res
      BY <1>3, <3>1, AnswersAreTyped DEF Req
    <3> QED BY <3>1, <3>2
  <2>2. CASE FailedMaintenance
    BY <1>3, <2>2, FailuresAreTyped DEF FailedMaintenance
  <2> QED BY <2>1, <2>2
<1>5. Reqs(results') \o batch' = Reqs(results) \o batch
  <2> PICK rs, b : rs = results /\ b = batch
    OBVIOUS
  <2>1. rs \in Seq(Res) /\ b \in Seq(Req) /\ b # <<>> /\ result(Head(b), answer) \in Res
    BY <1>1, <1>2, <1>4 DEF Seen
  <2>2. Reqs(Append(rs, result(Head(b), answer))) \o Tail(b) = Reqs(rs) \o b
    BY ONLY <2>1, HandedOn
  <2> QED BY <1>2, <1>4, <2>2
<1>6. Requests' = (Reqs(results') \o batch') \o queue /\ Requests = (Reqs(results) \o batch) \o queue
  BY <1>1, <1>2, RequestsThen DEF Seen
<1>7. Answers' = <<>> /\ Answers = <<>>
  BY <1>1, <1>2, RequestsThen DEF Seen
<1> QED BY <1>2, <1>5, <1>6, <1>7

LEMMA AbortIsAbort == StoreInv /\ AbortBatch => Atomic!Abort
<1> SUFFICES ASSUME StoreInv, AbortBatch PROVE Atomic!Abort
  OBVIOUS
<1>1. Seen /\ [Next]_vars
  BY RequestsWhen DEF Next, Ingest
<1>2. /\ phase = "batch" /\ batch # <<>> /\ phase' = "answer" /\ UNCHANGED <<db, queue>>
      /\ results' = AllFailed(results) \o FailedResults(batch)
  BY DEF AbortBatch, disk
<1>3. Requests' = queue /\ Answers' = Reps(results')
  BY <1>1, <1>2, RequestsThen
<1> PICK Y, rs, b, q, fs, n :
        /\ Y = Requests /\ rs = results /\ b = batch /\ q = queue /\ fs = results'
        /\ n = Len(results) + Len(batch)
  OBVIOUS
<1>4. Laid(Y, rs, b, q) /\ fs = AllFailed(rs) \o FailedResults(b) /\ n = Len(rs) + Len(b)
  BY <1>1, <1>2 DEF Seen, Laid
<1>5. n > 0
  BY <1>1, <1>2 DEF Seen
<1>6. Ended(Y, n, q, fs) /\ Refused(n, fs)
  BY <1>4, <1>5, AllAreFailed
<1> QED BY <1>2, <1>3, <1>6, EndedIsAbort

\* A commit decides the batch: all of it is made, or, when it fails, none.
LEMMA CommitDecides == StoreInv /\ Trail /\ Commit => Atomic!Commit \/ Atomic!Abort
<1> SUFFICES ASSUME StoreInv, Trail, Commit PROVE Atomic!Commit \/ Atomic!Abort
  OBVIOUS
<1>1. Seen /\ [Next]_vars /\ PhaseInv
  BY RequestsWhen, StoreParts DEF Next, Ingest
<1>2. phase = "batch" /\ batch = <<>> /\ phase' = "answer" /\ UNCHANGED queue
  BY DEF Commit
<1>3. Requests' = queue /\ Answers' = Reps(results')
  BY <1>1, <1>2, RequestsThen
<1> PICK Y, rs, q, n : Y = Requests /\ rs = results /\ q = queue /\ n = Len(results)
  OBVIOUS
<1>4. Laid(Y, rs, <<>>, q) /\ n = Len(rs)
  BY <1>1, <1>2 DEF Seen, Laid
<1>5. n \in Nat /\ n > 0 /\ rs \in Seq(Res)
  BY <1>1, <1>2 DEF Seen, PhaseInv
<1>6. CASE ~txn.broken /\ db' = txn.db /\ UNCHANGED results
  <2> PICK base, tables : base = db /\ tables = txn.db
    OBVIOUS
  <2>1. LeadsTo(rs, base, tables)
    BY <1>2, <1>6 DEF Trail
  <2>2. Ended(Y, n, q, rs) /\ <<tables, Reps(rs)>> \in (CHOOSE f : Follows(Y, base, n, f))[n]
    BY <1>4, <1>5, <2>1, AllAreMade
  <2>3. Decided(n) /\ n \in 1 .. Len(Requests)
    BY <1>3, <1>6, <2>2 DEF Decided, Ended
  <2>4. <<db', Answers'>> \in Atomic!Results(n)
    BY <1>3, <1>6, <2>2, ResultsUnfold
  <2> QED BY <2>3, <2>4, AtomicParts
<1>7. CASE results' = AllFailed(results) /\ UNCHANGED db
  <2> PICK fs, b : fs = results' /\ b = <<>>
    OBVIOUS
  <2>1. Laid(Y, rs, b, q) /\ n = Len(rs) + Len(b)
    BY <1>4, <1>5
  <2>2. fs = AllFailed(rs) \o FailedResults(b)
    <3>1. FailedResults(<<>>) = <<>>
      BY DEF FailedResults
    <3>2. AllFailed(rs) \in Seq(Res)
      BY <1>5, FailuresAreTyped
    <3>3. AllFailed(rs) \o <<>> = AllFailed(rs)
      BY <3>2
    <3> QED BY <1>7, <3>1, <3>3
  <2>3. Ended(Y, n, q, fs) /\ Refused(n, fs)
    BY <1>5, <2>1, <2>2, AllAreFailed
  <2> QED BY <1>3, <1>7, <2>3, EndedIsAbort
<1> QED BY <1>6, <1>7 DEF Commit

LEMMA AnswerIsDeliver == StoreInv /\ Answer1 => Atomic!Deliver
<1> SUFFICES ASSUME StoreInv, Answer1 PROVE Atomic!Deliver
  OBVIOUS
<1>1. Seen /\ [Next]_vars /\ PhaseInv
  BY RequestsWhen, StoreParts DEF Next, Ingest
<1>2. /\ phase = "answer" /\ results # <<>> /\ results' = Tail(results) /\ UNCHANGED <<db, queue>>
      /\ phase' = IF Len(results) = 1 THEN "idle" ELSE "answer"
  BY <1>1 DEF Answer1, PhaseInv, disk
<1>3. Requests = queue /\ Requests' = queue /\ Answers = Reps(results)
  BY <1>1, <1>2, RequestsThen DEF Seen
<1> PICK rs, rest : rs = results /\ rest = results'
  OBVIOUS
<1>4. /\ rs \in Seq(Res) /\ rest \in Seq(Res) /\ Len(rs) \in Nat /\ Len(rs) > 0 /\ Len(rest) = Len(rs) - 1
      /\ \A m \in 1 .. Len(rest) : rest[m] = rs[m + 1]
  BY <1>1, <1>2 DEF Seen
<1>5. /\ Len(Reps(rs)) = Len(rs) /\ Reps(rs) \in Seq({Reported(r) : r \in Res})
      /\ \A m \in 1 .. Len(rs) : Reps(rs)[m] = Reported(rs[m])
  BY <1>4, RequestsTyped
<1>6. /\ Len(Reps(rest)) = Len(rest) /\ Reps(rest) \in Seq({Reported(r) : r \in Res})
      /\ \A m \in 1 .. Len(rest) : Reps(rest)[m] = Reported(rest[m])
  BY <1>4, RequestsTyped
<1>7. Tail(Reps(rs)) = Reps(rest)
  <2> PICK S, s, r : S = {Reported(x) : x \in Res} /\ s = Reps(rs) /\ r = Reps(rest)
    OBVIOUS
  <2>1. s \in Seq(S) /\ s # <<>> /\ r \in Seq(S) /\ Len(s) = Len(rs) /\ Len(r) = Len(rs) - 1
    BY <1>4, <1>5, <1>6
  <2>2. /\ Tail(s) \in Seq(S) /\ Len(Tail(s)) = Len(rs) - 1
        /\ \A m \in 1 .. Len(Tail(s)) : Tail(s)[m] = s[m + 1]
    BY ONLY <2>1, HeadTailProperties
  <2>3. ASSUME NEW m \in 1 .. Len(r) PROVE Tail(s)[m] = r[m]
    <3>1. m \in 1 .. Len(rest) /\ m + 1 \in 1 .. Len(rs) /\ m \in 1 .. Len(Tail(s))
      BY <1>4, <2>1, <2>2
    <3> QED BY <1>4, <1>5, <1>6, <2>2, <3>1
  <2>4. Len(Tail(s)) = Len(r)
    BY <2>1, <2>2
  <2> QED BY <2>1, <2>2, <2>3, <2>4, SeqEqual
<1>8. Answers # <<>>
  BY <1>3, <1>4, <1>5
<1>9. Answers' = Tail(Answers)
  <2>1. CASE Len(rs) = 1
    <3>1. phase' = "idle" /\ rest = <<>>
      BY <1>2, <1>4, <2>1
    <3>2. Answers' = <<>>
      BY <1>1, <3>1, RequestsThen
    <3> QED BY <1>3, <1>7, <3>1, <3>2, NothingIsNothing
  <2>2. CASE Len(rs) # 1
    <3>1. Answers' = Reps(rest)
      BY <1>1, <1>2, <2>2, RequestsThen
    <3> QED BY <1>3, <1>7, <3>1
  <2> QED BY <2>1, <2>2
<1> QED BY <1>2, <1>3, <1>8, <1>9, AtomicParts

LEMMA NextIsAtomic == StoreInv /\ Trail /\ [Next]_vars => [Atomic!Next]_Atomic!vars
<1> SUFFICES ASSUME StoreInv, Trail, [Next]_vars PROVE Atomic!Next \/ UNCHANGED Atomic!vars
  OBVIOUS
<1>1. UNCHANGED <<db, Requests, Answers>> => UNCHANGED Atomic!vars
  BY AtomicParts DEF Atomic!vars, Requests, Answers, Reqs, Reps
<1>2. ASSUME UNCHANGED <<db, queue, phase, batch, results>> PROVE UNCHANGED <<db, Requests, Answers>>
  BY <1>2 DEF Requests, Answers
<1>3. CASE Open \/ Stop
  BY <1>3, StartIsStop, StopIsStop DEF Atomic!Next
<1>4. ASSUME NEW c \in Caller, NEW op \in Operation, Call(c, op) PROVE Atomic!Next
  BY <1>4, CallIsSubmit DEF Atomic!Next
<1>5. ASSUME NEW c \in Caller, Drop(c) PROVE UNCHANGED <<db, Requests, Answers>>
  BY <1>2, <1>5 DEF Drop, disk, ingester
<1>6. CASE Ingest
  BY <1>1, <1>6, BeginIsAbortOrStutter, OperationIsStutter, AbortIsAbort, CommitDecides,
     AnswerIsDeliver DEF Ingest, Atomic!Next
<1>7. CASE UNCHANGED vars
  <2>1. UNCHANGED <<db, queue, phase, batch, results>>
    BY <1>7 DEF vars
  <2> QED BY <1>1, <1>2, <2>1
<1> QED BY <1>1, <1>3, <1>4, <1>5, <1>6, <1>7 DEF Next

\* All or nothing, in order, and no answer before its effect is durable: what
\* the ingester does with its batches, its transaction and its answers is what
\* the atomic store promises, whatever the callers ask and wherever LMDB fails
\* or the process stops.
THEOREM StoreIsAtomic == Spec => ImplementsAtomicStore
<1>1. Spec => [](StoreInv /\ Trail)
  BY NextStore, InitStore, InitTrail, NextTrail, PTL DEF Spec
<1>2. Spec => [][Atomic!Next]_Atomic!vars
  BY <1>1, NextIsAtomic, PTL DEF Spec
<1> QED BY <1>2 DEF ImplementsAtomicStore, Atomic!Spec

-----------------------------------------------------------------------------
(* The newest of a set                                                     *)

\* Newest first, and by ID: a strict total order.
LEMMA BeforeIsTotal ==
    ASSUME NEW i \in Id, NEW j \in Id
    PROVE  /\ ~Before(i, i) /\ (i # j => Before(i, j) \/ Before(j, i))
           /\ \A k \in Id : Before(i, j) /\ Before(j, k) => Before(i, k)
<1>1. \A k \in Id : k \in Nat /\ created_at(k) \in Nat
  BY EventsAreTyped
<1>2. ~Before(i, i) /\ (i # j => Before(i, j) \/ Before(j, i))
  BY <1>1 DEF Before
<1>3. ASSUME NEW k \in Id, Before(i, j), Before(j, k) PROVE Before(i, k)
  <2>1. /\ i \in Nat /\ j \in Nat /\ k \in Nat
        /\ created_at(i) \in Nat /\ created_at(j) \in Nat /\ created_at(k) \in Nat
    BY <1>1
  <2> QED BY <1>3, <2>1 DEF Before
<1> QED BY <1>2, <1>3

\* The events that come before one of them
Ahead(S, i) == {j \in S : Before(j, i)}

LEMMA AheadCounts ==
    ASSUME NEW S \in SUBSET Id, IsFiniteSet(S), NEW i \in S
    PROVE  Cardinality(Ahead(S, i)) \in Nat
<1>1. Ahead(S, i) \in SUBSET S
  BY DEF Ahead
<1> QED BY <1>1, FS_Subset, FS_CardinalityType

LEMMA AheadIncreases ==
    ASSUME NEW S \in SUBSET Id, IsFiniteSet(S), NEW i \in S, NEW j \in S, Before(j, i)
    PROVE  Cardinality(Ahead(S, j)) < Cardinality(Ahead(S, i))
<1>1. Ahead(S, j) \in SUBSET Ahead(S, i) /\ j \in Ahead(S, i) /\ j \notin Ahead(S, j)
  BY BeforeIsTotal DEF Ahead
<1>2. IsFiniteSet(Ahead(S, i))
  <2>1. Ahead(S, i) \in SUBSET S
    BY DEF Ahead
  <2> QED BY <2>1, FS_Subset
<1>3. /\ Cardinality(Ahead(S, j)) <= Cardinality(Ahead(S, i))
      /\ Cardinality(Ahead(S, i)) = Cardinality(Ahead(S, j)) => Ahead(S, i) = Ahead(S, j)
  BY <1>1, <1>2, FS_Subset
<1>4. Cardinality(Ahead(S, i)) \in Nat /\ Cardinality(Ahead(S, j)) \in Nat
  BY AheadCounts
<1> QED BY <1>1, <1>3, <1>4

LEMMA FirstAreAhead ==
    ASSUME NEW S, NEW n
    PROVE  NewestN(S, n) = {i \in S : Cardinality(Ahead(S, i)) < n}
BY DEF NewestN, FirstN, Ahead

\* At most n of them are the first n: each has a rank of its own.
LEMMA FirstAreFew ==
    ASSUME NEW S \in SUBSET Id, IsFiniteSet(S), NEW n \in Nat
    PROVE  /\ NewestN(S, n) \in SUBSET S /\ IsFiniteSet(NewestN(S, n))
           /\ Cardinality(NewestN(S, n)) \in Nat
           /\ Cardinality(NewestN(S, n)) <= n
<1> DEFINE F == NewestN(S, n)
           rank == [i \in F |-> Cardinality(Ahead(S, i)) + 1]
<1>1. F = {i \in S : Cardinality(Ahead(S, i)) < n}
  BY FirstAreAhead
<1> HIDE DEF F
<1>2. \A i \in F : Cardinality(Ahead(S, i)) \in Nat
  BY <1>1, AheadCounts
<1>3. rank \in [F -> 1 .. n]
  BY <1>1, <1>2
<1>4. ASSUME NEW i \in F, NEW j \in F, rank[i] = rank[j] PROVE i = j
  <2>1. Cardinality(Ahead(S, i)) = Cardinality(Ahead(S, j))
    BY <1>2, <1>4
  <2>2. CASE Before(i, j)
    BY <1>1, <1>2, <2>1, <2>2, AheadIncreases
  <2>3. CASE Before(j, i)
    BY <1>1, <1>2, <2>1, <2>3, AheadIncreases
  <2> QED BY <1>1, <2>2, <2>3, BeforeIsTotal
<1> HIDE DEF rank
<1>5. rank \in Injection(F, 1 .. n)
  BY <1>3, <1>4 DEF Injection, IsInjective
<1>6. IsFiniteSet(1 .. n) /\ Cardinality(1 .. n) = n
  BY FS_Interval
<1>7. IsFiniteSet(F) /\ Cardinality(F) <= n
  BY <1>5, <1>6, FS_Injection
<1>8. F \in SUBSET S /\ Cardinality(F) \in Nat
  BY <1>1, <1>7, FS_CardinalityType
<1> QED
  <2>1. F = NewestN(S, n)
    BY DEF F
  <2> QED BY <1>7, <1>8, <2>1

\* Among finitely many events one comes first, and one comes last.
LEMMA OneIsFirst ==
    ASSUME NEW S \in SUBSET Id, IsFiniteSet(S), S # {}
    PROVE  \E i \in S : \A j \in S : j = i \/ Before(i, j)
<1> DEFINE T == {Cardinality(Ahead(S, i)) : i \in S}
<1>1. \A i \in S : Cardinality(Ahead(S, i)) \in Nat
  BY AheadCounts
<1>2. T \in SUBSET Nat /\ T # {}
  BY <1>1
<1>3. PICK n \in T : \A m \in T : n <= m
  <2> HIDE DEF T
  <2> QED BY <1>2, LeastOfNaturals
<1>4. PICK i \in S : n = Cardinality(Ahead(S, i))
  OBVIOUS
<1>5. ASSUME NEW j \in S, Before(j, i) PROVE FALSE
  <2>1. Cardinality(Ahead(S, j)) < n
    BY <1>4, <1>5, AheadIncreases
  <2>2. Cardinality(Ahead(S, j)) \in Nat /\ n \in Nat /\ n <= Cardinality(Ahead(S, j))
    BY <1>1, <1>3, <1>4
  <2> QED BY <2>1, <2>2
<1> QED BY <1>5, BeforeIsTotal

LEMMA OneIsLast ==
    ASSUME NEW S \in SUBSET Id, IsFiniteSet(S), S # {}
    PROVE  \E i \in S : \A j \in S : j = i \/ Before(j, i)
<1> PICK c : c = Cardinality(S)
  OBVIOUS
<1> DEFINE T == {c - Cardinality(Ahead(S, i)) : i \in S}
<1>1. c \in Nat
  BY FS_CardinalityType
<1>2. ASSUME NEW i \in S
      PROVE  Cardinality(Ahead(S, i)) \in Nat /\ c - Cardinality(Ahead(S, i)) \in Nat
  <2>1. Ahead(S, i) \in SUBSET S
    BY DEF Ahead
  <2>2. Cardinality(Ahead(S, i)) <= c
    BY <2>1, FS_Subset
  <2>3. Cardinality(Ahead(S, i)) \in Nat
    BY AheadCounts
  <2> QED BY <1>1, <2>2, <2>3
<1>3. T \in SUBSET Nat /\ T # {}
  BY <1>2
<1>4. PICK n \in T : \A m \in T : n <= m
  <2> HIDE DEF T
  <2> QED BY <1>3, LeastOfNaturals
<1>5. PICK i \in S : n = c - Cardinality(Ahead(S, i))
  OBVIOUS
<1>6. ASSUME NEW j \in S, Before(i, j) PROVE FALSE
  <2>1. Cardinality(Ahead(S, i)) < Cardinality(Ahead(S, j))
    BY <1>6, AheadIncreases
  <2>2. n <= c - Cardinality(Ahead(S, j))
    BY <1>4
  <2> QED BY <1>1, <1>2, <1>5, <2>1, <2>2
<1> QED BY <1>6, BeforeIsTotal

\* Whoever is not among the newest n has n of them before it.
LEMMA NewestAreAhead ==
    ASSUME NEW S \in SUBSET Id, IsFiniteSet(S), NEW n \in Nat, NEW i \in S, i \notin NewestN(S, n),
           NEW R, R = {j \in NewestN(S, n) : Before(j, i)}
    PROVE  IsFiniteSet(R) /\ Cardinality(R) \in Nat /\ Cardinality(R) >= n
<1>1. R \in SUBSET S /\ R \in SUBSET Ahead(S, i)
  BY FirstAreAhead DEF Ahead
<1>2. IsFiniteSet(R) /\ Cardinality(R) \in Nat
  BY <1>1, FS_Subset, FS_CardinalityType
<1>3. Cardinality(Ahead(S, i)) \in Nat /\ Cardinality(Ahead(S, i)) >= n
  BY AheadCounts, FirstAreAhead
<1>4. ASSUME Cardinality(R) < n PROVE FALSE
  <2> PICK rest : rest = Ahead(S, i) \ R
    OBVIOUS
  <2>1. rest # {}
    <3>1. R # Ahead(S, i)
      BY <1>2, <1>3, <1>4
    <3> QED BY <1>1, <3>1
  <2>2. rest \in SUBSET S /\ rest \in SUBSET Id /\ IsFiniteSet(rest)
    <3>1. rest \in SUBSET S
      BY DEF Ahead
    <3> QED BY <3>1, FS_Subset
  <2>3. PICK k \in rest : \A j \in rest : j = k \/ Before(k, j)
    BY <2>1, <2>2, OneIsFirst
  <2>4. Ahead(S, k) \in SUBSET R
    <3>1. ASSUME NEW j \in Ahead(S, k) PROVE j \in Ahead(S, i)
      <4>1. j \in Id /\ k \in Id /\ i \in Id /\ Before(j, k) /\ Before(k, i)
        BY <2>2 DEF Ahead
      <4>2. Before(j, i)
        BY <4>1, BeforeIsTotal
      <4> QED BY <4>2 DEF Ahead
    <3>2. ASSUME NEW j \in Ahead(S, k), j \in rest PROVE FALSE
      <4>1. j \in Id /\ k \in Id /\ Before(j, k)
        BY <2>2 DEF Ahead
      <4>2. j = k \/ Before(k, j)
        BY <2>3, <3>2
      <4> QED BY <4>1, <4>2, BeforeIsTotal
    <3> QED BY <3>1, <3>2
  <2>5. Cardinality(Ahead(S, k)) <= Cardinality(R)
    BY <1>2, <2>4, FS_Subset
  <2>6. k \in S /\ Cardinality(Ahead(S, k)) \in Nat
    BY <2>2, AheadCounts
  <2>7. k \in NewestN(S, n)
    BY <1>2, <1>4, <2>5, <2>6, FirstAreAhead
  <2>8. Before(k, i) /\ k \notin R
    BY DEF Ahead
  <2> QED BY <2>7, <2>8
<1> QED BY <1>2, <1>4

\* The newest n are n events, or all when there are fewer.
LEMMA NewestAreEnough ==
    ASSUME NEW S \in SUBSET Id, IsFiniteSet(S), NEW n \in Nat
    PROVE  /\ Cardinality(S) <= n => NewestN(S, n) = S
           /\ ~(Cardinality(S) <= n) => Cardinality(NewestN(S, n)) = n
<1> PICK F : F = NewestN(S, n)
  OBVIOUS
<1>1. F \in SUBSET S /\ IsFiniteSet(F) /\ Cardinality(F) \in Nat /\ Cardinality(F) <= n
  BY FirstAreFew
<1>2. /\ Cardinality(S) \in Nat /\ Cardinality(F) <= Cardinality(S)
      /\ Cardinality(S) = Cardinality(F) => S = F
  BY <1>1, FS_CardinalityType, FS_Subset
<1>3. ASSUME F # S PROVE Cardinality(F) >= n
  <2>1. PICK i \in S : i \notin F
    BY <1>1, <1>3
  <2> PICK R : R = {j \in F : Before(j, i)}
    OBVIOUS
  <2>2. Cardinality(R) \in Nat /\ Cardinality(R) >= n
    BY <2>1, NewestAreAhead
  <2>3. Cardinality(R) <= Cardinality(F)
    BY <1>1, FS_Subset
  <2> QED BY <1>1, <2>2, <2>3
<1> QED BY <1>1, <1>2, <1>3

\* What is among the newest of a set is among those of any part it is in.
LEMMA NewestOfPart ==
    ASSUME NEW S \in SUBSET Id, IsFiniteSet(S), NEW n \in Nat, NEW T \in SUBSET S, NEW i \in T,
           i \in NewestN(S, n)
    PROVE  i \in NewestN(T, n)
<1>1. Ahead(T, i) \in SUBSET Ahead(S, i) /\ Ahead(S, i) \in SUBSET S
  BY DEF Ahead
<1>2. IsFiniteSet(Ahead(S, i)) /\ IsFiniteSet(T)
  BY <1>1, FS_Subset
<1>3. Cardinality(Ahead(T, i)) <= Cardinality(Ahead(S, i))
  BY <1>1, <1>2, FS_Subset
<1>4. T \in SUBSET Id
  OBVIOUS
<1>5. Cardinality(Ahead(T, i)) \in Nat /\ Cardinality(Ahead(S, i)) \in Nat
  BY <1>2, <1>4, AheadCounts
<1> QED BY <1>3, <1>5, FirstAreAhead

\* The newest of a part that has all of the newest are the newest.
LEMMA NewestInPart ==
    ASSUME NEW S \in SUBSET Id, IsFiniteSet(S), NEW n \in Nat, NEW T \in SUBSET S,
           NewestN(S, n) \subseteq T
    PROVE  NewestN(T, n) = NewestN(S, n)
<1>1. ASSUME NEW i \in NewestN(S, n) PROVE i \in NewestN(T, n)
  BY NewestOfPart
<1>2. ASSUME NEW i \in NewestN(T, n), i \notin NewestN(S, n) PROVE FALSE
  <2>1. i \in T /\ i \in S /\ Cardinality(Ahead(T, i)) < n
    BY FirstAreAhead
  <2> PICK R : R = {j \in NewestN(S, n) : Before(j, i)}
    OBVIOUS
  <2>2. Cardinality(R) \in Nat /\ Cardinality(R) >= n
    BY <1>2, <2>1, NewestAreAhead
  <2>3. R \in SUBSET Ahead(T, i) /\ Ahead(T, i) \in SUBSET S
    BY DEF Ahead
  <2>4. IsFiniteSet(Ahead(T, i))
    BY <2>3, FS_Subset
  <2>5. Cardinality(R) <= Cardinality(Ahead(T, i)) /\ Cardinality(Ahead(T, i)) \in Nat
    BY <2>3, <2>4, FS_Subset, FS_CardinalityType
  <2> QED BY <2>1, <2>2, <2>5
<1> QED BY <1>1, <1>2

-----------------------------------------------------------------------------
(* The plans of a query                                                    *)

\* The events that match, and what a plan makes of them: scans of stored
\* events from "since" on, all of which it visits; a scan that ends at its
\* first hit has one.
Match(d, f) == {i \in d.events : match_event(f, i)}
IsScan(d, f, s) ==
    /\ s \in [ids : SUBSET Id, idOrder : BOOLEAN, one : BOOLEAN] /\ s.ids \subseteq d.events
    /\ \A i \in s.ids : created_at(i) >= f.since
    /\ s.one => ~s.idOrder /\ \A i, j \in s.ids : i = j
    /\ s.idOrder => f.authors # {} /\ f.kinds # {} /\ DOMAIN f.tags # {}
Visits(d, f, plan) ==
    /\ \A s \in plan : IsScan(d, f, s)
    /\ \A i \in Match(d, f) : \E s \in plan : i \in s.ids

\* The index tables name the stored events, so a range of one is a condition
\* on them.
Ranged(d, s, u) ==
    /\ \A i : i \in ci_iter(d, s, u) <=> i \in d.events /\ InTime(i, s, u)
    /\ \A a, i : i \in ac_iter(d, a, s, u) <=> i \in d.events /\ pubkey(i) = a /\ InTime(i, s, u)
    /\ \A k, i : i \in kc_iter(d, k, s, u) <=> i \in d.events /\ kind(i) = k /\ InTime(i, s, u)
    /\ \A a, k, i : i \in akc_iter(d, a, k, s, u) <=>
            i \in d.events /\ pubkey(i) = a /\ kind(i) = k /\ InTime(i, s, u)
    /\ \A n, v, i : i \in tc_iter(d, n, v, s, u) <=>
            i \in d.events /\ v \in Event[i].tags[n] /\ InTime(i, s, u)
    /\ \A a, n, v, i : i \in atc_iter(d, a, n, v, s, u) <=>
            i \in d.events /\ pubkey(i) = a /\ v \in Event[i].tags[n] /\ InTime(i, s, u)
    /\ \A k, n, v, i : i \in ktc_iter(d, k, n, v, s, u) <=>
            i \in d.events /\ kind(i) = k /\ v \in Event[i].tags[n] /\ InTime(i, s, u)

LEMMA RangesAreRight ==
    ASSUME NEW d, Good(d), NEW s, NEW u
    PROVE  Ranged(d, s, u)
<1>1. \A t \in IndexTable : d.index[t] = d.events
  BY DEF Good, Consistent
<1>2. /\ d.index["ci"] = d.events /\ d.index["tc"] = d.events /\ d.index["ac"] = d.events
      /\ d.index["akc"] = d.events /\ d.index["atc"] = d.events /\ d.index["kc"] = d.events
      /\ d.index["ktc"] = d.events
  BY <1>1 DEF IndexTable
<1> QED BY <1>2 DEF ci_iter, ac_iter, kc_iter, akc_iter, tc_iter, atc_iter, ktc_iter, Ranged

LEMMA ScanIs ==
    ASSUME NEW d, Good(d), NEW f, NEW X, X \subseteq d.events,
           \A i \in X : created_at(i) >= f.since, NEW byId \in BOOLEAN, NEW one \in BOOLEAN,
           one => ~byId /\ \A i, j \in X : i = j,
           byId => f.authors # {} /\ f.kinds # {} /\ DOMAIN f.tags # {}
    PROVE  IsScan(d, f, Scan(X, byId, one)) /\ Scan(X, byId, one).ids = X
<1>1. X \in SUBSET Id
  BY TablesTyped DEF Good
<1> QED BY <1>1 DEF Scan, IsScan

\* One of the tags that a filter asks for
LEMMA TagIsPaired ==
    ASSUME NEW f, DOMAIN f.tags # {}, NEW i, tag_match(f, i)
    PROVE  \E p \in TagPairs(f) : p[2] \in Event[i].tags[p[1]]
<1>1. PICK n \in DOMAIN f.tags : TRUE
  OBVIOUS
<1>2. PICK v \in f.tags[n] : v \in Event[i].tags[n]
  BY <1>1 DEF tag_match
<1>3. <<n, v>> \in {<<n, w>> : w \in f.tags[n]}
  OBVIOUS
<1>4. <<n, v>> \in TagPairs(f)
  BY <1>3 DEF TagPairs
<1> QED BY <1>2, <1>4

\* An author has one event of a replaceable kind.
LEMMA OneOfKind ==
    ASSUME NEW d, Good(d), NEW a, NEW k, is_replaceable(k),
           NEW i \in d.events, pubkey(i) = a, kind(i) = k,
           NEW j \in d.events, pubkey(j) = a, kind(j) = k
    PROVE  i = j
BY DEF Good, OneVersion, SameAddress

LEMMA SinceIsBefore ==
    ASSUME NEW i, NEW s, NEW u, InTime(i, s, u)
    PROVE  created_at(i) >= s
BY DEF InTime

LEMMA MatchMeans ==
    ASSUME NEW d, NEW f, NEW i \in Match(d, f)
    PROVE  /\ i \in d.events /\ InTime(i, f.since, f.until) /\ tag_match(f, i)
           /\ f.authors # {} => pubkey(i) \in f.authors
           /\ f.kinds # {} => kind(i) \in f.kinds
BY DEF Match, match_event, InTime

LEMMA QueryByAuthorsKindsAndTags ==
    ASSUME NEW d, Good(d), NEW f \in Filters, f.ids = {}, f.authors # {}, f.kinds # {},
           DOMAIN f.tags # {}
    PROVE  Visits(d, f, query_by_authors_kinds_and_tags(d, f))
<1> DEFINE plan == query_by_authors_kinds_and_tags(d, f)
           range(a, k, p) == akc_iter(d, a, k, f.since, f.until)
                               \cap atc_iter(d, a, p[1], p[2], f.since, f.until)
           scan(a, k, p) == Scan(range(a, k, p), TRUE, FALSE)
<1>1. \A x : x \in plan <=> \E a \in f.authors, k \in f.kinds, p \in TagPairs(f) : x = scan(a, k, p)
  BY SMT DEF query_by_authors_kinds_and_tags
<1>2. Ranged(d, f.since, f.until)
  BY RangesAreRight
<1>3. ASSUME NEW a \in f.authors, NEW k \in f.kinds, NEW p \in TagPairs(f)
      PROVE  IsScan(d, f, scan(a, k, p)) /\ scan(a, k, p).ids = range(a, k, p)
  <2> PICK X : X = range(a, k, p)
    OBVIOUS
  <2>1. X \subseteq d.events /\ \A i \in X : created_at(i) >= f.since
    BY <1>2, SinceIsBefore DEF Ranged
  <2>2. X \in SUBSET Id
    BY <2>1, TablesTyped DEF Good
  <2> QED BY <2>1, <2>2 DEF Scan, IsScan
<1>4. ASSUME NEW i \in Match(d, f) PROVE \E x \in plan : i \in x.ids
  <2>1. /\ i \in d.events /\ InTime(i, f.since, f.until)
        /\ pubkey(i) \in f.authors /\ kind(i) \in f.kinds
    BY MatchMeans
  <2>2. PICK p \in TagPairs(f) : p[2] \in Event[i].tags[p[1]]
    BY MatchMeans, TagIsPaired
  <2>3. PICK a \in f.authors, k \in f.kinds : a = pubkey(i) /\ k = kind(i)
    BY <2>1
  <2>4. i \in range(a, k, p)
    BY <1>2, <2>1, <2>2, <2>3 DEF Ranged
  <2>5. i \in scan(a, k, p).ids
    BY <1>3, <2>4
  <2>6. scan(a, k, p) \in plan
    BY <1>1
  <2> QED BY <2>5, <2>6
<1>5. ASSUME NEW x \in plan PROVE IsScan(d, f, x)
  <2>1. PICK a \in f.authors, k \in f.kinds, p \in TagPairs(f) : x = scan(a, k, p)
    BY <1>1
  <2> QED BY <1>3, <2>1
<1> QED BY <1>4, <1>5 DEF Visits

LEMMA QueryByAuthorsAndKinds ==
    ASSUME NEW d, Good(d), NEW f \in Filters, f.ids = {}, f.authors # {}, f.kinds # {}
    PROVE  Visits(d, f, query_by_authors_and_kinds(d, f))
<1> DEFINE plan == query_by_authors_and_kinds(d, f)
           range(a, k) == akc_iter(d, a, k, f.since, f.until)
           scan(a, k) == Scan(range(a, k), FALSE, is_replaceable(k))
<1>1. \A x : x \in plan <=> \E a \in f.authors, k \in f.kinds : x = scan(a, k)
  BY SMT DEF query_by_authors_and_kinds
<1>2. Ranged(d, f.since, f.until)
  BY RangesAreRight
<1>3. ASSUME NEW a \in f.authors, NEW k \in f.kinds
      PROVE  IsScan(d, f, scan(a, k)) /\ scan(a, k).ids = range(a, k)
  <2> PICK X : X = range(a, k)
    OBVIOUS
  <2>1. X \subseteq d.events /\ \A i \in X : created_at(i) >= f.since
    BY <1>2, SinceIsBefore DEF Ranged
  <2>2. is_replaceable(k) => \A i, j \in X : i = j
    BY <1>2, OneOfKind DEF Ranged
  <2>3. is_replaceable(k) \in BOOLEAN
    BY DEF is_replaceable
  <2>4. X \in SUBSET Id
    BY <2>1, TablesTyped DEF Good
  <2> QED BY <2>1, <2>2, <2>3, <2>4 DEF Scan, IsScan
<1>4. ASSUME NEW i \in Match(d, f) PROVE \E x \in plan : i \in x.ids
  <2>1. /\ i \in d.events /\ InTime(i, f.since, f.until)
        /\ pubkey(i) \in f.authors /\ kind(i) \in f.kinds
    BY MatchMeans
  <2>2. PICK a \in f.authors, k \in f.kinds : a = pubkey(i) /\ k = kind(i)
    BY <2>1
  <2>3. i \in range(a, k)
    BY <1>2, <2>1, <2>2 DEF Ranged
  <2>4. i \in scan(a, k).ids
    BY <1>3, <2>3
  <2>5. scan(a, k) \in plan
    BY <1>1
  <2> QED BY <2>4, <2>5
<1>5. ASSUME NEW x \in plan PROVE IsScan(d, f, x)
  <2>1. PICK a \in f.authors, k \in f.kinds : x = scan(a, k)
    BY <1>1
  <2> QED BY <1>3, <2>1
<1> QED BY <1>4, <1>5 DEF Visits

LEMMA QueryByAuthorsAndTags ==
    ASSUME NEW d, Good(d), NEW f \in Filters, f.ids = {}, f.authors # {}, DOMAIN f.tags # {}
    PROVE  Visits(d, f, query_by_authors_and_tags(d, f))
<1> DEFINE plan == query_by_authors_and_tags(d, f)
           range(a, p) == atc_iter(d, a, p[1], p[2], f.since, f.until)
           scan(a, p) == Scan(range(a, p), FALSE, FALSE)
<1>1. \A x : x \in plan <=> \E a \in f.authors, p \in TagPairs(f) : x = scan(a, p)
  BY SMT DEF query_by_authors_and_tags
<1>2. Ranged(d, f.since, f.until)
  BY RangesAreRight
<1>3. ASSUME NEW a \in f.authors, NEW p \in TagPairs(f)
      PROVE  IsScan(d, f, scan(a, p)) /\ scan(a, p).ids = range(a, p)
  <2> PICK X : X = range(a, p)
    OBVIOUS
  <2>1. X \subseteq d.events /\ \A i \in X : created_at(i) >= f.since
    BY <1>2, SinceIsBefore DEF Ranged
  <2> QED BY <2>1, ScanIs
<1>4. ASSUME NEW i \in Match(d, f) PROVE \E x \in plan : i \in x.ids
  <2>1. i \in d.events /\ InTime(i, f.since, f.until) /\ pubkey(i) \in f.authors
    BY MatchMeans
  <2>2. PICK p \in TagPairs(f) : p[2] \in Event[i].tags[p[1]]
    BY MatchMeans, TagIsPaired
  <2>3. PICK a \in f.authors : a = pubkey(i)
    BY <2>1
  <2>4. i \in range(a, p)
    BY <1>2, <2>1, <2>2, <2>3 DEF Ranged
  <2>5. i \in scan(a, p).ids
    BY <1>3, <2>4
  <2>6. scan(a, p) \in plan
    BY <1>1
  <2> QED BY <2>5, <2>6
<1>5. ASSUME NEW x \in plan PROVE IsScan(d, f, x)
  <2>1. PICK a \in f.authors, p \in TagPairs(f) : x = scan(a, p)
    BY <1>1
  <2> QED BY <1>3, <2>1
<1> QED BY <1>4, <1>5 DEF Visits

LEMMA QueryByKindsAndTags ==
    ASSUME NEW d, Good(d), NEW f \in Filters, f.ids = {}, f.kinds # {}, DOMAIN f.tags # {}
    PROVE  Visits(d, f, query_by_kinds_and_tags(d, f))
<1> DEFINE plan == query_by_kinds_and_tags(d, f)
           range(k, p) == ktc_iter(d, k, p[1], p[2], f.since, f.until)
           scan(k, p) == Scan(range(k, p), FALSE, FALSE)
<1>1. \A x : x \in plan <=> \E k \in f.kinds, p \in TagPairs(f) : x = scan(k, p)
  BY SMT DEF query_by_kinds_and_tags
<1>2. Ranged(d, f.since, f.until)
  BY RangesAreRight
<1>3. ASSUME NEW k \in f.kinds, NEW p \in TagPairs(f)
      PROVE  IsScan(d, f, scan(k, p)) /\ scan(k, p).ids = range(k, p)
  <2> PICK X : X = range(k, p)
    OBVIOUS
  <2>1. X \subseteq d.events /\ \A i \in X : created_at(i) >= f.since
    BY <1>2, SinceIsBefore DEF Ranged
  <2> QED BY <2>1, ScanIs
<1>4. ASSUME NEW i \in Match(d, f) PROVE \E x \in plan : i \in x.ids
  <2>1. i \in d.events /\ InTime(i, f.since, f.until) /\ kind(i) \in f.kinds
    BY MatchMeans
  <2>2. PICK p \in TagPairs(f) : p[2] \in Event[i].tags[p[1]]
    BY MatchMeans, TagIsPaired
  <2>3. PICK k \in f.kinds : k = kind(i)
    BY <2>1
  <2>4. i \in range(k, p)
    BY <1>2, <2>1, <2>2, <2>3 DEF Ranged
  <2>5. i \in scan(k, p).ids
    BY <1>3, <2>4
  <2>6. scan(k, p) \in plan
    BY <1>1
  <2> QED BY <2>5, <2>6
<1>5. ASSUME NEW x \in plan PROVE IsScan(d, f, x)
  <2>1. PICK k \in f.kinds, p \in TagPairs(f) : x = scan(k, p)
    BY <1>1
  <2> QED BY <1>3, <2>1
<1> QED BY <1>4, <1>5 DEF Visits

LEMMA QueryByTags ==
    ASSUME NEW d, Good(d), NEW f \in Filters, f.ids = {}, DOMAIN f.tags # {}
    PROVE  Visits(d, f, query_by_tags(d, f))
<1> DEFINE plan == query_by_tags(d, f)
           range(p) == tc_iter(d, p[1], p[2], f.since, f.until)
           scan(p) == Scan(range(p), FALSE, FALSE)
<1>1. \A x : x \in plan <=> \E p \in TagPairs(f) : x = scan(p)
  BY SMT DEF query_by_tags
<1>2. Ranged(d, f.since, f.until)
  BY RangesAreRight
<1>3. ASSUME NEW p \in TagPairs(f)
      PROVE  IsScan(d, f, scan(p)) /\ scan(p).ids = range(p)
  <2> PICK X : X = range(p)
    OBVIOUS
  <2>1. X \subseteq d.events /\ \A i \in X : created_at(i) >= f.since
    BY <1>2, SinceIsBefore DEF Ranged
  <2> QED BY <2>1, ScanIs
<1>4. ASSUME NEW i \in Match(d, f) PROVE \E x \in plan : i \in x.ids
  <2>1. i \in d.events /\ InTime(i, f.since, f.until)
    BY MatchMeans
  <2>2. PICK p \in TagPairs(f) : p[2] \in Event[i].tags[p[1]]
    BY MatchMeans, TagIsPaired
  <2>3. i \in range(p)
    BY <1>2, <2>1, <2>2 DEF Ranged
  <2>4. i \in scan(p).ids
    BY <1>3, <2>3
  <2>5. scan(p) \in plan
    BY <1>1
  <2> QED BY <2>4, <2>5
<1>5. ASSUME NEW x \in plan PROVE IsScan(d, f, x)
  <2>1. PICK p \in TagPairs(f) : x = scan(p)
    BY <1>1
  <2> QED BY <1>3, <2>1
<1> QED BY <1>4, <1>5 DEF Visits

LEMMA QueryByAuthors ==
    ASSUME NEW d, Good(d), NEW f \in Filters, f.ids = {}, f.authors # {}
    PROVE  Visits(d, f, query_by_authors(d, f))
<1> DEFINE plan == query_by_authors(d, f)
           range(a) == ac_iter(d, a, f.since, f.until)
           scan(a) == Scan(range(a), FALSE, FALSE)
<1>1. \A x : x \in plan <=> \E a \in f.authors : x = scan(a)
  BY SMT DEF query_by_authors
<1>2. Ranged(d, f.since, f.until)
  BY RangesAreRight
<1>3. ASSUME NEW a \in f.authors
      PROVE  IsScan(d, f, scan(a)) /\ scan(a).ids = range(a)
  <2> PICK X : X = range(a)
    OBVIOUS
  <2>1. X \subseteq d.events /\ \A i \in X : created_at(i) >= f.since
    BY <1>2, SinceIsBefore DEF Ranged
  <2> QED BY <2>1, ScanIs
<1>4. ASSUME NEW i \in Match(d, f) PROVE \E x \in plan : i \in x.ids
  <2>1. i \in d.events /\ InTime(i, f.since, f.until) /\ pubkey(i) \in f.authors
    BY MatchMeans
  <2>2. PICK a \in f.authors : a = pubkey(i)
    BY <2>1
  <2>3. i \in range(a)
    BY <1>2, <2>1, <2>2 DEF Ranged
  <2>4. i \in scan(a).ids
    BY <1>3, <2>3
  <2>5. scan(a) \in plan
    BY <1>1
  <2> QED BY <2>4, <2>5
<1>5. ASSUME NEW x \in plan PROVE IsScan(d, f, x)
  <2>1. PICK a \in f.authors : x = scan(a)
    BY <1>1
  <2> QED BY <1>3, <2>1
<1> QED BY <1>4, <1>5 DEF Visits

LEMMA QueryByKinds ==
    ASSUME NEW d, Good(d), NEW f \in Filters, f.ids = {}, f.kinds # {}
    PROVE  Visits(d, f, query_by_kinds(d, f))
<1> DEFINE plan == query_by_kinds(d, f)
           range(k) == kc_iter(d, k, f.since, f.until)
           scan(k) == Scan(range(k), FALSE, FALSE)
<1>1. \A x : x \in plan <=> \E k \in f.kinds : x = scan(k)
  BY SMT DEF query_by_kinds
<1>2. Ranged(d, f.since, f.until)
  BY RangesAreRight
<1>3. ASSUME NEW k \in f.kinds
      PROVE  IsScan(d, f, scan(k)) /\ scan(k).ids = range(k)
  <2> PICK X : X = range(k)
    OBVIOUS
  <2>1. X \subseteq d.events /\ \A i \in X : created_at(i) >= f.since
    BY <1>2, SinceIsBefore DEF Ranged
  <2> QED BY <2>1, ScanIs
<1>4. ASSUME NEW i \in Match(d, f) PROVE \E x \in plan : i \in x.ids
  <2>1. i \in d.events /\ InTime(i, f.since, f.until) /\ kind(i) \in f.kinds
    BY MatchMeans
  <2>2. PICK k \in f.kinds : k = kind(i)
    BY <2>1
  <2>3. i \in range(k)
    BY <1>2, <2>1, <2>2 DEF Ranged
  <2>4. i \in scan(k).ids
    BY <1>3, <2>3
  <2>5. scan(k) \in plan
    BY <1>1
  <2> QED BY <2>4, <2>5
<1>5. ASSUME NEW x \in plan PROVE IsScan(d, f, x)
  <2>1. PICK k \in f.kinds : x = scan(k)
    BY <1>1
  <2> QED BY <1>3, <2>1
<1> QED BY <1>4, <1>5 DEF Visits

LEMMA QueryByScraping ==
    ASSUME NEW d, Good(d), NEW f \in Filters, f.ids = {}
    PROVE  Visits(d, f, query_by_scraping(d, f))
<1> DEFINE plan == query_by_scraping(d, f)
           range == ci_iter(d, f.since, f.until)
           scan == Scan(range, FALSE, FALSE)
<1>1. \A x : x \in plan <=> x = scan
  BY SMT DEF query_by_scraping
<1>2. Ranged(d, f.since, f.until)
  BY RangesAreRight
<1>3. IsScan(d, f, scan) /\ scan.ids = range
  <2> PICK X : X = range
    OBVIOUS
  <2>1. X \subseteq d.events /\ \A i \in X : created_at(i) >= f.since
    BY <1>2, SinceIsBefore DEF Ranged
  <2> QED BY <2>1, ScanIs
<1>4. ASSUME NEW i \in Match(d, f) PROVE \E x \in plan : i \in x.ids
  <2>1. i \in d.events /\ InTime(i, f.since, f.until)
    BY MatchMeans
  <2>2. i \in range
    BY <1>2, <2>1 DEF Ranged
  <2>3. i \in scan.ids
    BY <1>3, <2>2
  <2>4. scan \in plan
    BY <1>1
  <2> QED BY <2>3, <2>4
<1>5. ASSUME NEW x \in plan PROVE IsScan(d, f, x)
  BY <1>1, <1>3
<1> QED BY <1>4, <1>5 DEF Visits

LEMMA PlanVisits ==
    ASSUME NEW d, Good(d), NEW f \in Filters, f.ids = {}
    PROVE  Visits(d, f, Plan(d, f))
<1> DEFINE authors == f.authors # {}
           kinds == f.kinds # {}
           tags == DOMAIN f.tags # {}
<1>1. CASE authors /\ kinds /\ tags
  BY <1>1, QueryByAuthorsKindsAndTags DEF Plan
<1>2. CASE authors /\ kinds /\ ~tags
  BY <1>2, QueryByAuthorsAndKinds DEF Plan
<1>3. CASE authors /\ ~kinds /\ tags
  BY <1>3, QueryByAuthorsAndTags DEF Plan
<1>4. CASE ~authors /\ kinds /\ tags
  BY <1>4, QueryByKindsAndTags DEF Plan
<1>5. CASE ~authors /\ ~kinds /\ tags
  BY <1>5, QueryByTags DEF Plan
<1>6. CASE authors /\ ~kinds /\ ~tags
  BY <1>6, QueryByAuthors DEF Plan
<1>7. CASE ~authors /\ kinds /\ ~tags
  BY <1>7, QueryByKinds DEF Plan
<1>8. CASE ~authors /\ ~kinds /\ ~tags
  BY <1>8, QueryByScraping DEF Plan
<1> QED BY <1>1, <1>2, <1>3, <1>4, <1>5, <1>6, <1>7, <1>8

-----------------------------------------------------------------------------
(* One scan                                                                *)

\* The parts of RunScan: the order of the scan, the events it gets to, those
\* that match, those it takes, and the last of these.
Precedes(s, i, j) == IF s.idOrder THEN i < j ELSE Before(i, j)
Live(s, acc) ==
    {i \in s.ids : \A j \in s.ids : (j = i \/ Precedes(s, j, i)) => created_at(j) >= acc.since}
Hits(f, s, acc) == {i \in Live(s, acc) : match_event(f, i)}
FirstHits(f, s, acc, n) ==
    {i \in Hits(f, s, acc) : Cardinality({j \in Hits(f, s, acc) : Precedes(s, j, i)}) < n}
AtLeastOne(f) == IF f.limit = 0 THEN 1 ELSE f.limit
Taken(f, s, acc) ==
    IF s.one THEN FirstHits(f, s, acc, 1)
    ELSE IF f.limit = NoLimit THEN Hits(f, s, acc) ELSE FirstHits(f, s, acc, AtLeastOne(f))
LastTaken(f, s, acc) ==
    CHOOSE i \in Taken(f, s, acc) : \A j \in Taken(f, s, acc) : j = i \/ Precedes(s, j, i)
SinceAfter(f, s, acc) ==
    IF /\ f.limit # NoLimit
       /\ Taken(f, s, acc) # {} /\ Cardinality(Taken(f, s, acc)) >= f.limit
       /\ created_at(LastTaken(f, s, acc)) > acc.since
    THEN created_at(LastTaken(f, s, acc)) ELSE acc.since

LEMMA ScanUnfolds ==
    ASSUME NEW f, NEW s, NEW acc
    PROVE  RunScan(f, s, acc) = [out |-> acc.out \cup Taken(f, s, acc),
                                 since |-> SinceAfter(f, s, acc)]
BY DEF RunScan, FirstN, SinceAfter, LastTaken, Taken, AtLeastOne, FirstHits, Hits, Live, Precedes

\* The events an answer is to have
Wanted(d, f) == Newest(Match(d, f), f.limit)

\* What the scans have found of the events they visited: matching events, and,
\* when the plan keeps the order, all the wanted ones.  No wanted event is
\* older than the time the next scan starts from.
Found(d, f, acc, visited) ==
    /\ acc.out \subseteq Match(d, f)
    /\ InOrder(f) => /\ acc.since \in Nat /\ (f.limit = NoLimit => acc.since = f.since)
                     /\ Wanted(d, f) \cap visited \subseteq acc.out
                     /\ \A i \in Wanted(d, f) : created_at(i) >= acc.since

LEMMA MatchesAreFinite ==
    ASSUME NEW d, Good(d), NEW f
    PROVE  /\ Match(d, f) \in SUBSET Id /\ IsFiniteSet(Match(d, f))
           /\ Wanted(d, f) \subseteq Match(d, f)
<1>1. Match(d, f) \in SUBSET Id
  BY TablesTyped DEF Match, Good
<1>2. IsFiniteSet(Match(d, f))
  BY <1>1, QueryAssumption, FS_Subset
<1>3. Newest(Match(d, f), f.limit) \subseteq Match(d, f)
  BY FirstAreAhead DEF Newest
<1> QED BY <1>1, <1>2, <1>3 DEF Wanted

LEMMA HitsMatch ==
    ASSUME NEW d, Good(d), NEW f, NEW s, IsScan(d, f, s), NEW acc
    PROVE  /\ Hits(f, s, acc) \subseteq Match(d, f) /\ Taken(f, s, acc) \subseteq Hits(f, s, acc)
           /\ Hits(f, s, acc) \subseteq s.ids
<1>1. Hits(f, s, acc) \subseteq Match(d, f) /\ Hits(f, s, acc) \subseteq s.ids
  BY DEF Hits, Live, IsScan, Match
<1>2. Taken(f, s, acc) \subseteq Hits(f, s, acc)
  BY DEF Taken, FirstHits
<1> QED BY <1>1, <1>2

\* A scan in the order of the index gets to every event it has that is not
\* older than "since"; without a limit every scan gets to all of its events.
LEMMA WantedAreHit ==
    ASSUME NEW d, Good(d), NEW f \in Filters, NEW s, IsScan(d, f, s), InOrder(f),
           NEW acc, NEW visited, Found(d, f, acc, visited),
           NEW i \in Wanted(d, f), i \in s.ids
    PROVE  i \in Hits(f, s, acc)
<1>1. i \in Match(d, f) /\ created_at(i) >= acc.since /\ acc.since \in Nat /\ i \in Id
  BY MatchesAreFinite DEF Found
<1>2. s.ids \subseteq Id /\ \A j \in s.ids : created_at(j) >= f.since
  BY TablesTyped DEF IsScan, Good
<1>3. ASSUME NEW j \in s.ids, j = i \/ Precedes(s, j, i) PROVE created_at(j) >= acc.since
  <2>1. j \in Id /\ created_at(j) \in Nat /\ created_at(i) \in Nat
    BY <1>1, <1>2, EventsAreTyped
  <2>2. CASE j = i
    BY <1>1, <2>2
  <2>3. CASE f.limit = NoLimit
    BY <1>2, <2>3 DEF Found
  <2>4. CASE f.limit # NoLimit /\ Precedes(s, j, i)
    <3>1. ~s.idOrder
      BY <2>4 DEF InOrder, IsScan
    <3>2. Before(j, i)
      BY <2>4, <3>1 DEF Precedes
    <3>3. created_at(j) >= created_at(i)
      BY <2>1, <3>2 DEF Before
    <3> QED BY <1>1, <2>1, <3>3
  <2> QED BY <1>3, <2>2, <2>3, <2>4
<1>4. i \in Live(s, acc)
  BY <1>3 DEF Live
<1> QED BY <1>1, <1>4 DEF Hits, Match

LEMMA OneHitIsAll ==
    ASSUME NEW d, Good(d), NEW f, NEW s, IsScan(d, f, s), s.one, NEW acc
    PROVE  FirstHits(f, s, acc, 1) = Hits(f, s, acc)
<1>1. Hits(f, s, acc) \subseteq s.ids /\ Hits(f, s, acc) \subseteq Id
  BY HitsMatch, MatchesAreFinite
<1>2. ~s.idOrder /\ \A i, j \in s.ids : i = j
  BY DEF IsScan
<1>3. ASSUME NEW i \in Hits(f, s, acc)
      PROVE  Cardinality({j \in Hits(f, s, acc) : Precedes(s, j, i)}) < 1
  <2>1. ASSUME NEW j \in Hits(f, s, acc), Precedes(s, j, i) PROVE FALSE
    <3>1. j = i /\ i \in Id /\ Before(j, i)
      BY <1>1, <1>2, <2>1 DEF Precedes
    <3> QED BY <3>1, BeforeIsTotal
  <2>2. {j \in Hits(f, s, acc) : Precedes(s, j, i)} = {}
    BY <2>1
  <2> QED BY <2>2, FS_EmptySet
<1> QED BY <1>3 DEF FirstHits

LEMMA InIndexOrder ==
    ASSUME NEW f, NEW s, ~s.idOrder, NEW acc, NEW n
    PROVE  FirstHits(f, s, acc, n) = NewestN(Hits(f, s, acc), n)
BY DEF FirstHits, NewestN, FirstN, Precedes

LEMMA WantedAreTaken ==
    ASSUME NEW d, Good(d), NEW f \in Filters, NEW s, IsScan(d, f, s), InOrder(f),
           NEW acc, NEW visited, Found(d, f, acc, visited),
           NEW i \in Wanted(d, f), i \in s.ids
    PROVE  i \in Taken(f, s, acc)
<1>1. i \in Hits(f, s, acc)
  BY WantedAreHit
<1>2. CASE s.one
  BY <1>1, <1>2, OneHitIsAll DEF Taken
<1>3. CASE ~s.one /\ f.limit = NoLimit
  BY <1>1, <1>3 DEF Taken
<1>4. CASE ~s.one /\ f.limit # NoLimit
  <2>1. f.limit \in Nat
    BY <1>4, QueryAssumption
  <2>2. ~s.idOrder
    BY <1>4 DEF InOrder, IsScan
  <2> PICK hits : hits = Hits(f, s, acc)
    OBVIOUS
  <2>3. Match(d, f) \in SUBSET Id /\ IsFiniteSet(Match(d, f)) /\ hits \in SUBSET Match(d, f)
    BY MatchesAreFinite, HitsMatch
  <2>4. i \in NewestN(Match(d, f), f.limit)
    BY <1>4 DEF Wanted, Newest
  <2>5. i \in NewestN(hits, f.limit)
    BY <1>1, <2>1, <2>3, <2>4, NewestOfPart
  <2>6. Cardinality(Ahead(hits, i)) < f.limit
    BY <2>5, FirstAreAhead
  <2>7. hits \in SUBSET Id /\ IsFiniteSet(hits)
    BY <2>3, FS_Subset
  <2>8. Cardinality(Ahead(hits, i)) \in Nat
    BY <1>1, <2>7, AheadCounts
  <2>9. Cardinality(Ahead(hits, i)) < AtLeastOne(f)
    BY <2>1, <2>6, <2>8 DEF AtLeastOne
  <2>10. i \in NewestN(hits, AtLeastOne(f))
    BY <1>1, <2>9, FirstAreAhead
  <2> QED BY <1>4, <2>2, <2>10, InIndexOrder DEF Taken
<1> QED BY <1>2, <1>3, <1>4

\* A scan that filled up moves "since" to its last event; whoever is older
\* than that has as many newer ones as the limit allows.
LEMMA SinceIsSafe ==
    ASSUME NEW d, Good(d), NEW f \in Filters, NEW s, IsScan(d, f, s), InOrder(f),
           NEW acc, NEW visited, Found(d, f, acc, visited)
    PROVE  \A i \in Wanted(d, f) : created_at(i) >= SinceAfter(f, s, acc)
<1> SUFFICES ASSUME NEW i \in Wanted(d, f) PROVE created_at(i) >= SinceAfter(f, s, acc)
  OBVIOUS
<1> DEFINE moved == /\ f.limit # NoLimit
                    /\ Taken(f, s, acc) # {} /\ Cardinality(Taken(f, s, acc)) >= f.limit
                    /\ created_at(LastTaken(f, s, acc)) > acc.since
<1>1. CASE ~moved
  BY <1>1 DEF Found, SinceAfter
<1>2. CASE moved
  <2> PICK taken, last : taken = Taken(f, s, acc) /\ last = LastTaken(f, s, acc)
    OBVIOUS
  <2>1. f.limit \in Nat /\ f.limit # NoLimit
    BY <1>2, QueryAssumption
  <2>2. ~s.idOrder
    BY <2>1 DEF InOrder, IsScan
  <2>3. Match(d, f) \in SUBSET Id /\ IsFiniteSet(Match(d, f)) /\ taken \in SUBSET Match(d, f)
    BY MatchesAreFinite, HitsMatch
  <2>4. taken \in SUBSET Id /\ IsFiniteSet(taken) /\ taken # {}
    BY <1>2, <2>3, FS_Subset
  <2>5. last \in taken /\ \A j \in taken : j = last \/ Before(j, last)
    <3>1. \E k \in taken : \A j \in taken : j = k \/ Before(j, k)
      BY <2>4, OneIsLast
    <3>2. last = CHOOSE k \in taken : \A j \in taken : j = k \/ Before(j, k)
      BY <2>2 DEF LastTaken, Precedes
    <3> QED BY <3>1, <3>2
  <2>6. i \in NewestN(Match(d, f), f.limit)
    BY <2>1 DEF Wanted, Newest
  <2>7. i \in Match(d, f) /\ Cardinality(Ahead(Match(d, f), i)) < f.limit
    BY <2>6, FirstAreAhead
  <2>8. SinceAfter(f, s, acc) = created_at(last)
    BY <1>2 DEF SinceAfter
  <2>9. ASSUME ~(created_at(i) >= created_at(last)) PROVE FALSE
    <3>1. ASSUME NEW j \in taken PROVE j \in Ahead(Match(d, f), i)
      <4>1. /\ created_at(j) \in Nat /\ created_at(last) \in Nat /\ created_at(i) \in Nat
        BY <2>3, <2>4, <2>5, <2>7, EventsAreTyped
      <4>2. created_at(j) >= created_at(last)
        BY <2>5, <4>1 DEF Before
      <4>3. created_at(j) > created_at(i)
        BY <2>9, <4>1, <4>2
      <4> QED BY <2>3, <4>3 DEF Ahead, Before
    <3>2. Ahead(Match(d, f), i) \in SUBSET Match(d, f)
      BY DEF Ahead
    <3>3. IsFiniteSet(Ahead(Match(d, f), i)) /\ taken \in SUBSET Ahead(Match(d, f), i)
      BY <2>3, <3>1, <3>2, FS_Subset
    <3>4. /\ Cardinality(taken) <= Cardinality(Ahead(Match(d, f), i))
          /\ Cardinality(taken) \in Nat /\ Cardinality(Ahead(Match(d, f), i)) \in Nat
      BY <2>4, <3>3, FS_Subset, FS_CardinalityType
    <3>5. Cardinality(taken) >= f.limit
      BY <1>2
    <3> QED BY <2>1, <2>7, <3>4, <3>5
  <2> QED BY <2>8, <2>9
<1> QED BY <1>1, <1>2

LEMMA SinceIsTyped ==
    ASSUME NEW d, Good(d), NEW f \in Filters, NEW s, IsScan(d, f, s), InOrder(f),
           NEW acc, NEW visited, Found(d, f, acc, visited)
    PROVE  /\ SinceAfter(f, s, acc) \in Nat
           /\ f.limit = NoLimit => SinceAfter(f, s, acc) = f.since
<1>1. acc.since \in Nat /\ (f.limit = NoLimit => acc.since = f.since)
  BY DEF Found
<1> DEFINE moved == /\ f.limit # NoLimit
                    /\ Taken(f, s, acc) # {} /\ Cardinality(Taken(f, s, acc)) >= f.limit
                    /\ created_at(LastTaken(f, s, acc)) > acc.since
<1>2. CASE ~moved
  BY <1>1, <1>2 DEF SinceAfter
<1>3. CASE moved
  <2> PICK taken, last : taken = Taken(f, s, acc) /\ last = LastTaken(f, s, acc)
    OBVIOUS
  <2>1. taken \in SUBSET Id /\ IsFiniteSet(taken) /\ taken # {}
    <3>1. taken \in SUBSET Match(d, f)
      BY HitsMatch
    <3> QED BY <1>3, <3>1, MatchesAreFinite, FS_Subset
  <2>2. last \in Id
    <3>1. last = CHOOSE k \in taken : \A j \in taken : j = k \/ Precedes(s, j, k)
      BY DEF LastTaken
    <3>2. ~s.idOrder
      BY <1>3 DEF InOrder, IsScan
    <3>3. \E k \in taken : \A j \in taken : j = k \/ Precedes(s, j, k)
      BY <2>1, <3>2, OneIsLast DEF Precedes
    <3> QED BY <2>1, <3>1, <3>3
  <2> QED BY <1>1, <1>3, <2>2, EventsAreTyped DEF SinceAfter
<1> QED BY <1>2, <1>3

LEMMA ScanFinds ==
    ASSUME NEW d, Good(d), NEW f \in Filters, NEW s, IsScan(d, f, s),
           NEW acc, NEW visited, Found(d, f, acc, visited)
    PROVE  Found(d, f, RunScan(f, s, acc), visited \cup s.ids)
<1> PICK next : next = RunScan(f, s, acc)
  OBVIOUS
<1>1. next.out = acc.out \cup Taken(f, s, acc) /\ next.since = SinceAfter(f, s, acc)
  BY ScanUnfolds
<1>2. next.out \subseteq Match(d, f)
  BY <1>1, HitsMatch DEF Found
<1>3. ASSUME InOrder(f)
      PROVE  /\ next.since \in Nat /\ (f.limit = NoLimit => next.since = f.since)
             /\ Wanted(d, f) \cap (visited \cup s.ids) \subseteq next.out
             /\ \A i \in Wanted(d, f) : created_at(i) >= next.since
  <2>1. next.since \in Nat /\ (f.limit = NoLimit => next.since = f.since)
    BY <1>1, <1>3, SinceIsTyped
  <2>2. ASSUME NEW i \in Wanted(d, f), i \in visited PROVE i \in next.out
    BY <1>1, <1>3, <2>2 DEF Found
  <2>3. ASSUME NEW i \in Wanted(d, f), i \in s.ids PROVE i \in next.out
    BY <1>1, <1>3, <2>3, WantedAreTaken
  <2>4. \A i \in Wanted(d, f) : created_at(i) >= next.since
    BY <1>1, <1>3, SinceIsSafe
  <2> QED BY <2>1, <2>2, <2>3, <2>4
<1> QED BY <1>2, <1>3 DEF Found

-----------------------------------------------------------------------------
(* All scans of a plan                                                     *)

LEMMA NothingIsFound ==
    ASSUME NEW d, Good(d), NEW f \in Filters
    PROVE  Found(d, f, [out |-> {}, since |-> f.since], {})
<1>1. f.since \in Nat
  BY QueryAssumption
<1>2. \A i \in Wanted(d, f) : created_at(i) >= f.since
  BY MatchesAreFinite DEF Match, match_event
<1> QED BY <1>1, <1>2 DEF Found

\* The scans made up to the n-th, as RunPlan defines them
Runs(f, order, n, run) ==
    run = [m \in 0 .. n |-> IF m = 0 THEN [out |-> {}, since |-> f.since]
                            ELSE RunScan(f, order[m], run[m - 1])]

LEMMA RunsExist ==
    ASSUME NEW f, NEW order
    PROVE  \A n \in Nat : \E run : Runs(f, order, n, run)
<1> DEFINE Step(m, run) == IF m = 0 THEN [out |-> {}, since |-> f.since]
                           ELSE RunScan(f, order[m], run[m - 1])
           P == {n \in Nat : \E run : run = [m \in 0 .. n |-> Step(m, run)]}
<1>1. 0 \in P
  <2> DEFINE run == [m \in 0 .. 0 |-> [out |-> {}, since |-> f.since]]
  <2>1. \A m \in 0 .. 0 : m = 0
    OBVIOUS
  <2>2. run = [m \in 0 .. 0 |-> Step(m, run)]
    BY <2>1
  <2> QED BY <2>2
<1>2. ASSUME NEW n \in P PROVE n + 1 \in P
  <2>1. n \in Nat
    OBVIOUS
  <2>2. PICK run : run = [m \in 0 .. n |-> Step(m, run)]
    OBVIOUS
  <2> DEFINE more == [m \in 0 .. (n + 1) |-> Step(m, run)]
  <2>3. ASSUME NEW m \in 0 .. (n + 1) PROVE Step(m, run) = Step(m, more)
    <3>1. CASE m = 0
      BY <3>1
    <3>2. CASE m # 0
      <4>1. m - 1 \in 0 .. n /\ m - 1 \in 0 .. (n + 1)
        BY <2>1, <2>3, <3>2
      <4>2. run[m - 1] = Step(m - 1, run)
        BY <2>2, <4>1
      <4>3. more[m - 1] = Step(m - 1, run)
        BY <4>1
      <4> QED BY <3>2, <4>2, <4>3
    <3> QED BY <3>1, <3>2
  <2>4. more = [m \in 0 .. (n + 1) |-> Step(m, more)]
    <3> HIDE DEF Step
    <3> QED BY <2>3
  <2> HIDE DEF more
  <2> QED BY <2>1, <2>4
<1>3. P = Nat
  <2> HIDE DEF P
  <2>1. P \in SUBSET Nat
    BY DEF P
  <2> QED BY <1>1, <1>2, <2>1, NaturalsByInduction
<1> QED BY <1>3 DEF Runs

LEMMA RunUnfolds ==
    ASSUME NEW f, NEW order, NEW n
    PROVE  RunPlan(f, order, n) = (CHOOSE run : Runs(f, order, n, run))[n].out
BY DEF RunPlan, Runs

Visited(order, n) == UNION {order[m].ids : m \in 1 .. n}

LEMMA RunFinds ==
    ASSUME NEW d, Good(d), NEW f \in Filters, NEW n \in Nat,
           NEW order, \A m \in 1 .. n : IsScan(d, f, order[m])
    PROVE  \E acc : RunPlan(f, order, n) = acc.out /\ Found(d, f, acc, Visited(order, n))
<1> PICK run : run = CHOOSE r : Runs(f, order, n, r)
  OBVIOUS
<1>1. Runs(f, order, n, run)
  BY RunsExist
<1> DEFINE P == {m \in Nat : m <= n => Found(d, f, run[m], Visited(order, m))}
<1>2. \A m \in 0 .. n : run[m] = IF m = 0 THEN [out |-> {}, since |-> f.since]
                                 ELSE RunScan(f, order[m], run[m - 1])
  BY <1>1 DEF Runs
<1>3. 0 \in P
  <2>1. Visited(order, 0) = {}
    BY DEF Visited
  <2>2. run[0] = [out |-> {}, since |-> f.since]
    BY <1>2
  <2> QED BY <2>1, <2>2, NothingIsFound
<1>4. ASSUME NEW m \in P PROVE m + 1 \in P
  <2> SUFFICES ASSUME m + 1 <= n PROVE Found(d, f, run[m + 1], Visited(order, m + 1))
    OBVIOUS
  <2>1. m \in Nat /\ m <= n /\ m + 1 \in 1 .. n /\ m + 1 \in 0 .. n /\ m + 1 # 0 /\ (m + 1) - 1 = m
    OBVIOUS
  <2>2. Found(d, f, run[m], Visited(order, m))
    BY <2>1
  <2>3. run[m + 1] = RunScan(f, order[m + 1], run[m])
    BY <1>2, <2>1
  <2>4. Visited(order, m + 1) = Visited(order, m) \cup order[m + 1].ids
    <3>1. 1 .. m + 1 = (1 .. m) \cup {m + 1}
      BY <2>1
    <3> QED BY <3>1 DEF Visited
  <2> QED BY <2>1, <2>2, <2>3, <2>4, ScanFinds
<1>5. P = Nat
  <2> HIDE DEF P
  <2>1. P \in SUBSET Nat
    BY DEF P
  <2> QED BY <1>3, <1>4, <2>1, NaturalsByInduction
<1>6. Found(d, f, run[n], Visited(order, n))
  BY <1>5
<1>7. RunPlan(f, order, n) = run[n].out
  BY RunUnfolds
<1> QED BY <1>6, <1>7

\* A plan is finite, so its scans can be put in an order.
LEMMA PlanIsFinite ==
    ASSUME NEW d, NEW f, NEW plan, Visits(d, f, plan)
    PROVE  Cardinality(plan) \in Nat /\ Orders(plan) # {}
<1> DEFINE parts == (SUBSET Id) \X (BOOLEAN \X BOOLEAN)
           part == [s \in plan |-> <<s.ids, <<s.idOrder, s.one>>>>]
<1>1. plan \subseteq [ids : SUBSET Id, idOrder : BOOLEAN, one : BOOLEAN]
  BY DEF Visits, IsScan
<1>2. IsFiniteSet(BOOLEAN)
  <2>1. IsFiniteSet({TRUE}) /\ BOOLEAN = {TRUE} \cup {FALSE}
    BY FS_Singleton
  <2> QED BY <2>1, FS_AddElement
<1>3. IsFiniteSet(parts)
  BY <1>2, QueryAssumption, FS_SUBSET, FS_Product
<1>4. part \in [plan -> parts]
  BY <1>1
<1>5. ASSUME NEW s \in plan, NEW t \in plan, part[s] = part[t] PROVE s = t
  BY <1>1, <1>5
<1>6. IsFiniteSet(plan)
  <2> HIDE DEF part, parts
  <2>1. part \in Injection(plan, parts)
    BY <1>4, <1>5 DEF Injection, IsInjective
  <2> QED BY <1>3, <2>1, FS_Injection
<1>7. Cardinality(plan) \in Nat /\ ExistsBijection(1 .. Cardinality(plan), plan)
  BY <1>6, FS_CardinalityType
<1>8. PICK order \in Bijection(1 .. Cardinality(plan), plan) : TRUE
  BY <1>7 DEF ExistsBijection
<1>9. /\ order \in [1 .. Cardinality(plan) -> plan]
      /\ \A s \in plan : \E n \in 1 .. Cardinality(plan) : order[n] = s
  BY <1>8 DEF Bijection, Injection, Surjection
<1>10. order \in Orders(plan)
  BY <1>9 DEF Orders
<1> QED BY <1>7, <1>10

-----------------------------------------------------------------------------
(* Queries                                                                 *)

\* What a plan answers, whatever the order of its scans.
LEMMA PlanAnswers ==
    ASSUME NEW d, Good(d), NEW f \in Filters, NEW plan, Visits(d, f, plan),
           NEW order \in Orders(plan)
    PROVE  LET S == Newest(RunPlan(f, order, Cardinality(plan)), f.limit)
           IN /\ InOrder(f) => S = Wanted(d, f)
              /\ S \subseteq Match(d, f) /\ (f.limit # NoLimit => Cardinality(S) <= f.limit)
<1> PICK n : n = Cardinality(plan)
  OBVIOUS
<1>1. n \in Nat
  BY PlanIsFinite
<1>2. order \in [1 .. n -> plan] /\ {order[m] : m \in 1 .. n} = plan
  BY DEF Orders
<1>3. \A m \in 1 .. n : IsScan(d, f, order[m])
  BY <1>2 DEF Visits
<1>4. PICK acc : RunPlan(f, order, n) = acc.out /\ Found(d, f, acc, Visited(order, n))
  BY <1>1, <1>3, RunFinds
<1> PICK out : out = acc.out
  OBVIOUS
<1>5. Match(d, f) \in SUBSET Id /\ IsFiniteSet(Match(d, f)) /\ Wanted(d, f) \subseteq Match(d, f)
  BY MatchesAreFinite
<1>6. out \in SUBSET Match(d, f)
  BY <1>4 DEF Found
<1>7. ASSUME InOrder(f) PROVE Wanted(d, f) \subseteq out
  <2>1. ASSUME NEW i \in Match(d, f) PROVE i \in Visited(order, n)
    <3>1. PICK s \in plan : i \in s.ids
      BY DEF Visits
    <3>2. PICK m \in 1 .. n : order[m] = s
      BY <1>2
    <3> QED BY <3>1, <3>2 DEF Visited
  <2> QED BY <1>4, <1>5, <1>7, <2>1 DEF Found
<1>8. CASE f.limit = NoLimit
  <2>1. Wanted(d, f) = Match(d, f) /\ Newest(out, f.limit) = out /\ InOrder(f)
    BY <1>8 DEF Wanted, Newest, InOrder
  <2> QED BY <1>4, <1>6, <1>7, <1>8, <2>1
<1>9. CASE f.limit # NoLimit
  <2>1. f.limit \in Nat
    BY <1>9, QueryAssumption
  <2>2. Wanted(d, f) = NewestN(Match(d, f), f.limit) /\ Newest(out, f.limit) = NewestN(out, f.limit)
    BY <1>9 DEF Wanted, Newest
  <2>3. out \in SUBSET Id /\ IsFiniteSet(out)
    BY <1>5, <1>6, FS_Subset
  <2>4. NewestN(out, f.limit) \in SUBSET out /\ Cardinality(NewestN(out, f.limit)) <= f.limit
    BY <2>1, <2>3, FirstAreFew
  <2>5. InOrder(f) => NewestN(out, f.limit) = NewestN(Match(d, f), f.limit)
    BY <1>5, <1>6, <1>7, <2>1, <2>2, NewestInPart
  <2> QED BY <1>4, <1>6, <2>2, <2>4, <2>5
<1> QED BY <1>8, <1>9

LEMMA QueryAnswers ==
    ASSUME NEW d, Good(d), NEW f \in Filters
    PROVE  /\ InOrder(f) => query(d, f) = {Wanted(d, f)}
           /\ \A S \in query(d, f) : /\ S \subseteq Match(d, f)
                                     /\ f.limit # NoLimit => Cardinality(S) <= f.limit
<1>1. CASE f.ids # {}
  <2>1. {i \in d.events \cap f.ids : match_event(f, i)} = Match(d, f)
    BY <1>1 DEF Match, match_event
  <2>2. query(d, f) = IF f.limit = NoLimit \/ Cardinality(Match(d, f)) <= f.limit
                      THEN {Match(d, f)}
                      ELSE {S \in SUBSET Match(d, f) : Cardinality(S) = f.limit}
    BY <1>1, <2>1 DEF query
  <2>3. f.limit # NoLimit => f.limit \in Nat
    BY QueryAssumption
  <2>4. InOrder(f) => f.limit = NoLimit
    BY <1>1 DEF InOrder
  <2>5. f.limit = NoLimit => Wanted(d, f) = Match(d, f)
    BY DEF Wanted, Newest
  <2> QED BY <2>2, <2>3, <2>4, <2>5
<1>2. CASE f.ids = {}
  <2> PICK plan : plan = Plan(d, f)
    OBVIOUS
  <2>1. Visits(d, f, plan)
    BY <1>2, PlanVisits
  <2>2. Orders(plan) # {}
    BY <2>1, PlanIsFinite
  <2>3. query(d, f) = {Newest(RunPlan(f, o, Cardinality(plan)), f.limit) : o \in Orders(plan)}
    BY <1>2 DEF query
  <2>4. \A o \in Orders(plan) :
            LET S == Newest(RunPlan(f, o, Cardinality(plan)), f.limit)
            IN /\ InOrder(f) => S = Wanted(d, f)
               /\ S \subseteq Match(d, f) /\ (f.limit # NoLimit => Cardinality(S) <= f.limit)
    BY <2>1, PlanAnswers
  <2> QED BY <2>2, <2>3, <2>4
<1> QED BY <1>1, <1>2

\* Without conditions but times, an index tells how many events match.
LEMMA IndexCounts ==
    ASSUME NEW d, Good(d), NEW f, f.ids = {}, f.authors = {}, f.kinds = {}, DOMAIN f.tags = {}
    PROVE  /\ ci_iter(d, f.since, f.until) = Match(d, f)
           /\ f.since = 0 /\ f.until = MaxTime => d.index["ci"] = Match(d, f)
<1>1. \A i : i \in ci_iter(d, f.since, f.until) <=> i \in d.events /\ InTime(i, f.since, f.until)
  BY RangesAreRight DEF Ranged
<1>2. ASSUME NEW i \in d.events PROVE InTime(i, f.since, f.until) <=> match_event(f, i)
  <2>1. created_at(i) \in Nat /\ i \in Id
    BY TablesTyped, EventsAreTyped DEF Good
  <2>2. tag_match(f, i)
    BY DEF tag_match
  <2>3. f.since <= created_at(i) <=> created_at(i) >= f.since
    OBVIOUS
  <2> QED BY <2>2, <2>3 DEF InTime, match_event
<1>3. ci_iter(d, f.since, f.until) = Match(d, f)
  BY <1>1, <1>2 DEF Match
<1>4. d.index["ci"] = d.events /\ d.events \subseteq Id
  BY TablesTyped DEF Good, Consistent, IndexTable
<1>5. f.since = 0 /\ f.until = MaxTime => \A i \in d.events : InTime(i, f.since, f.until)
  BY <1>4, AlwaysInTime
<1> QED BY <1>2, <1>3, <1>4, <1>5 DEF Match

LEMMA CountAnswers ==
    ASSUME NEW d, Good(d), NEW f \in Filters, InOrder(f)
    PROVE  count(d, f) = {Cardinality(Wanted(d, f))}
<1> DEFINE free == f.ids = {} /\ f.authors = {} /\ f.kinds = {} /\ DOMAIN f.tags = {}
           least(a, b) == IF f.limit = NoLimit \/ a <= b THEN a ELSE b
<1>1. CASE ~free
  <2>1. query(d, f) = {Wanted(d, f)}
    BY QueryAnswers
  <2>2. count(d, f) = {Cardinality(S) : S \in query(d, f)}
    BY <1>1 DEF count
  <2> QED BY <2>1, <2>2
<1>2. CASE free
  <2>1. count(d, f) = {least(Cardinality(Match(d, f)), f.limit)}
    BY <1>2, IndexCounts DEF count
  <2>2. least(Cardinality(Match(d, f)), f.limit) = Cardinality(Wanted(d, f))
    <3>1. Match(d, f) \in SUBSET Id /\ IsFiniteSet(Match(d, f))
      BY MatchesAreFinite
    <3>2. CASE f.limit = NoLimit
      BY <3>2 DEF Wanted, Newest
    <3>3. CASE f.limit # NoLimit
      <4>1. f.limit \in Nat
        BY <3>3, QueryAssumption
      <4>2. Wanted(d, f) = NewestN(Match(d, f), f.limit)
        BY <3>3 DEF Wanted, Newest
      <4> QED BY <3>1, <3>3, <4>1, <4>2, NewestAreEnough
    <3> QED BY <3>2, <3>3
  <2> QED BY <2>1, <2>2
<1> QED BY <1>1, <1>2

LEMMA WholeTablesAnswer ==
    ASSUME NEW d, Good(d), NEW f \in Filters
    PROVE  AnswersRight(d, f)
<1>1. Answer(d.events, f) = Wanted(d, f)
  BY DEF Answer, Wanted, Match
<1>2. CASE InOrder(f)
  BY <1>1, <1>2, QueryAnswers, CountAnswers DEF AnswersRight
<1>3. CASE ~InOrder(f)
  <2>1. f.limit # NoLimit
    BY <1>3 DEF InOrder
  <2>2. \A S \in query(d, f) : /\ S \subseteq Match(d, f) /\ Cardinality(S) <= f.limit
    BY <2>1, QueryAnswers
  <2> QED BY <1>3, <2>2 DEF AnswersRight, Match
<1> QED BY <1>2, <1>3

\* A commit or an upgrade leaves whole tables behind.
LEMMA WrittenIsWhole == StoreInv /\ [Next]_vars /\ db' # db => Good(db')
<1> SUFFICES ASSUME StoreInv, [Next]_vars, db' # db PROVE Good(db')
  OBVIOUS
<1>1. StoreInv'
  BY NextStore
<1>2. Kept(db', version') /\ (running' => version' = DB_VERSION)
  BY <1>1 DEF StoreInv
<1>3. running' \/ UNCHANGED db
  BY DEF StoreInv, Next, vars, Open, Stop, Ingest, BeginBatch, ProcessOperation, AbortBatch,
         FailedMaintenance, Commit, Answer1, Drop, Call, disk
<1>4. Kept(db', DB_VERSION)
  BY <1>2, <1>3
<1> QED BY <1>4, KeptIsGood

\* Queries answer with the newest events that match, count with their number,
\* after every commit and upgrade (query, count, the eight plans): the ranges
\* are the stored events (StoreInv), a scan misses no wanted event, and none
\* is older than the time a filled scan leaves to the next.
THEOREM QueriesAnswer == Spec => QueriesAreRight
<1>1. StoreInv /\ [Next]_vars =>
        [db' # db => \A f \in QueryFilter : AnswersRight(db', f)]_db
  BY WrittenIsWhole, WholeTablesAnswer DEF Filters
<1> QED BY <1>1, StoreInvariant, PTL DEF Spec, QueriesAreRight

\* At every step while the store is open, and inside the write transaction.
AllAnswer ==
    \A f \in Filters : (running => AnswersRight(db, f)) /\ AnswersRight(txn.db, f)
LEMMA WholeStoreAnswers == StoreInv => AllAnswer
<1> SUFFICES ASSUME StoreInv, NEW f \in Filters
             PROVE  (running => AnswersRight(db, f)) /\ AnswersRight(txn.db, f)
  BY DEF AllAnswer
<1>1. (running => Kept(db, DB_VERSION)) /\ Kept(txn.db, DB_VERSION)
  BY DEF StoreInv
<1>2. (running => Good(db)) /\ Good(txn.db)
  BY <1>1, KeptIsGood
<1> QED BY <1>2, WholeTablesAnswer

\* Queries answer so at every step, not only after a commit, and inside the
\* write transaction, where a deletion by filter removes what its query finds
\* (delete).
THEOREM StoreAlwaysAnswers == Spec => []AllAnswer
BY WholeStoreAnswers, StoreInvariant, PTL

-----------------------------------------------------------------------------
(* Who waits                                                               *)

\* Callers in line, apart from each other: those of the channel, of the batch
\* and of what was made; w are those that wait, g those that are gone.
Differ(s) == \A m, n \in DOMAIN s : s[m] = s[n] => m = n
Apart(s, t) == \A m \in DOMAIN s, n \in DOMAIN t : s[m] # t[n]
Lined(q, b, r, w, g) ==
    /\ Differ(q) /\ Differ(b) /\ Differ(r)
    /\ Apart(q, b) /\ Apart(q, r) /\ Apart(b, r)
    /\ \A n \in DOMAIN q : q[n] \in w \cup g
    /\ \A n \in DOMAIN b : b[n] \in w \cup g
    /\ \A n \in DOMAIN r : r[n] \in w \cup g
    /\ \A c \in w : \/ \E n \in DOMAIN q : q[n] = c
                    \/ \E n \in DOMAIN b : b[n] = c
                    \/ \E n \in DOMAIN r : r[n] = c

LEMMA BatchTaken ==
    ASSUME NEW q, NEW w, NEW g, Lined(q, <<>>, <<>>, w, g)
    PROVE  Lined(<<>>, q, <<>>, w, g) /\ Lined(<<>>, <<>>, q, w, g)
BY DEF Lined, Differ, Apart

LEMMA OneMade ==
    ASSUME NEW q, NEW b \in Seq(Caller), b # <<>>, NEW r \in Seq(Caller), NEW w, NEW g,
           Lined(q, b, r, w, g)
    PROVE  Lined(q, Tail(b), Append(r, Head(b)), w, g)
<1> PICK t, a : t = Tail(b) /\ a = Append(r, Head(b))
  OBVIOUS
<1>1. /\ Len(b) \in Nat /\ Len(b) > 0 /\ DOMAIN b = 1 .. Len(b)
      /\ Len(r) \in Nat /\ DOMAIN r = 1 .. Len(r)
  OBVIOUS
<1>2. /\ t \in Seq(Caller) /\ DOMAIN t = 1 .. Len(b) - 1
      /\ \A n \in 1 .. Len(b) - 1 : t[n] = b[n + 1]
  BY <1>1
<1>3. /\ a \in Seq(Caller) /\ DOMAIN a = 1 .. Len(r) + 1
      /\ \A n \in 1 .. Len(r) : a[n] = r[n]
      /\ a[Len(r) + 1] = b[1]
  BY <1>1
<1>4. Differ(t)
  BY <1>1, <1>2 DEF Lined, Differ
<1>5. Differ(a)
  BY <1>1, <1>3 DEF Lined, Differ, Apart
<1>6. Apart(q, t) /\ Apart(q, a)
  BY <1>1, <1>2, <1>3 DEF Lined, Apart
<1>7. Apart(t, a)
  BY <1>1, <1>2, <1>3 DEF Lined, Differ, Apart
<1>8. (\A n \in DOMAIN t : t[n] \in w \cup g) /\ (\A n \in DOMAIN a : a[n] \in w \cup g)
  BY <1>1, <1>2, <1>3 DEF Lined
<1>9. ASSUME NEW c \in w
      PROVE  \/ \E n \in DOMAIN q : q[n] = c
             \/ \E n \in DOMAIN t : t[n] = c
             \/ \E n \in DOMAIN a : a[n] = c
  <2>1. CASE \E n \in DOMAIN b : b[n] = c
    <3>1. PICK n \in 1 .. Len(b) : b[n] = c
      BY <1>1, <2>1
    <3>2. CASE n = 1
      <4>1. Len(r) + 1 \in DOMAIN a /\ a[Len(r) + 1] = c
        BY <1>1, <1>3, <3>1, <3>2
      <4> QED BY <4>1
    <3>3. CASE n # 1
      <4>1. n - 1 \in 1 .. Len(b) - 1 /\ t[n - 1] = c
        BY <1>1, <1>2, <3>1, <3>3
      <4> QED BY <1>2, <4>1
    <3> QED BY <3>2, <3>3
  <2>2. CASE \E n \in DOMAIN r : r[n] = c
    BY <1>1, <1>3, <2>2
  <2> QED BY <2>1, <2>2 DEF Lined
<1> QED BY <1>4, <1>5, <1>6, <1>7, <1>8, <1>9 DEF Lined

LEMMA AllMade ==
    ASSUME NEW q, NEW b \in Seq(Caller), NEW r \in Seq(Caller), NEW w, NEW g,
           Lined(q, b, r, w, g)
    PROVE  Lined(q, <<>>, r \o b, w, g)
<1> PICK a : a = r \o b
  OBVIOUS
<1>1. /\ Len(b) \in Nat /\ DOMAIN b = 1 .. Len(b) /\ Len(r) \in Nat /\ DOMAIN r = 1 .. Len(r)
      /\ DOMAIN a = 1 .. Len(r) + Len(b)
  OBVIOUS
<1>2. /\ \A n \in 1 .. Len(r) : a[n] = r[n]
      /\ \A n \in 1 .. Len(b) : Len(r) + n \in DOMAIN a /\ a[Len(r) + n] = b[n]
      /\ \A n \in DOMAIN a : \/ n \in 1 .. Len(r) /\ a[n] = r[n]
                             \/ n - Len(r) \in 1 .. Len(b) /\ a[n] = b[n - Len(r)]
  BY <1>1
<1>3. Differ(a)
  <2> SUFFICES ASSUME NEW m \in DOMAIN a, NEW n \in DOMAIN a, a[m] = a[n] PROVE m = n
    BY DEF Differ
  <2>1. \/ m \in 1 .. Len(r) /\ a[m] = r[m]
        \/ m - Len(r) \in 1 .. Len(b) /\ a[m] = b[m - Len(r)]
    BY <1>2
  <2>2. \/ n \in 1 .. Len(r) /\ a[n] = r[n]
        \/ n - Len(r) \in 1 .. Len(b) /\ a[n] = b[n - Len(r)]
    BY <1>2
  <2> QED BY <1>1, <2>1, <2>2 DEF Lined, Differ, Apart
<1>4. Apart(q, a) /\ \A n \in DOMAIN a : a[n] \in w \cup g
  BY <1>1, <1>2 DEF Lined, Apart
<1>5. ASSUME NEW c \in w PROVE (\E n \in DOMAIN q : q[n] = c) \/ (\E n \in DOMAIN a : a[n] = c)
  <2>1. CASE \E n \in DOMAIN b : b[n] = c
    <3>1. PICK n \in 1 .. Len(b) : b[n] = c
      BY <1>1, <2>1
    <3>2. Len(r) + n \in DOMAIN a /\ a[Len(r) + n] = c
      BY <1>2, <3>1
    <3> QED BY <3>2
  <2>2. CASE \E n \in DOMAIN r : r[n] = c
    <3>1. PICK n \in 1 .. Len(r) : r[n] = c
      BY <1>1, <2>2
    <3>2. n \in DOMAIN a /\ a[n] = c
      BY <1>1, <1>2, <3>1
    <3> QED BY <3>2
  <2> QED BY <2>1, <2>2 DEF Lined
<1>6. DOMAIN <<>> = {}
  OBVIOUS
<1> QED BY <1>3, <1>4, <1>5, <1>6 DEF Lined, Differ, Apart

LEMMA OneTold ==
    ASSUME NEW q, NEW b, NEW r \in Seq(Caller), r # <<>>, NEW w, NEW g, Lined(q, b, r, w, g)
    PROVE  Lined(q, b, Tail(r), w \ {Head(r)}, g)
<1> PICK t : t = Tail(r)
  OBVIOUS
<1>1. Len(r) \in Nat /\ Len(r) > 0 /\ DOMAIN r = 1 .. Len(r) /\ 1 \in DOMAIN r /\ Head(r) = r[1]
  OBVIOUS
<1>2. DOMAIN t = 1 .. Len(r) - 1 /\ \A n \in 1 .. Len(r) - 1 : t[n] = r[n + 1]
  BY <1>1
<1>3. Differ(t) /\ Apart(q, t) /\ Apart(b, t)
  BY <1>1, <1>2 DEF Lined, Differ, Apart
<1>4. /\ \A n \in DOMAIN q : q[n] # r[1]
      /\ \A n \in DOMAIN b : b[n] # r[1]
      /\ \A n \in DOMAIN t : t[n] # r[1]
  BY <1>1, <1>2 DEF Lined, Differ, Apart
<1>5. \A n \in DOMAIN t : t[n] \in w \cup g
  BY <1>1, <1>2 DEF Lined
<1>6. ASSUME NEW c \in w, c # r[1]
      PROVE  \/ \E n \in DOMAIN q : q[n] = c
             \/ \E n \in DOMAIN b : b[n] = c
             \/ \E n \in DOMAIN t : t[n] = c
  <2>1. CASE \E n \in DOMAIN r : r[n] = c
    <3>1. PICK n \in 1 .. Len(r) : r[n] = c
      BY <1>1, <2>1
    <3>2. n - 1 \in 1 .. Len(r) - 1 /\ t[n - 1] = c
      BY <1>1, <1>2, <1>6, <3>1
    <3> QED BY <1>2, <3>2
  <2> QED BY <2>1 DEF Lined
<1>7. Lined(q, b, t, w \ {r[1]}, g)
  BY <1>3, <1>4, <1>5, <1>6 DEF Lined
<1> QED BY <1>1, <1>7

LEMMA OneComes ==
    ASSUME NEW q \in Seq(Caller), NEW b, NEW r, NEW w, NEW g, Lined(q, b, r, w, g),
           NEW c \in Caller, c \notin w \cup g
    PROVE  Lined(Append(q, c), b, r, w \cup {c}, g)
<1> PICK a : a = Append(q, c)
  OBVIOUS
<1>1. /\ Len(q) \in Nat /\ DOMAIN q = 1 .. Len(q) /\ DOMAIN a = 1 .. Len(q) + 1
      /\ \A n \in 1 .. Len(q) : a[n] = q[n]
      /\ a[Len(q) + 1] = c
  OBVIOUS
<1>2. Differ(a) /\ Apart(a, b) /\ Apart(a, r)
  BY <1>1 DEF Lined, Differ, Apart
<1>3. \A n \in DOMAIN a : a[n] \in (w \cup {c}) \cup g
  BY <1>1 DEF Lined
<1>4. \A d \in w \cup {c} : \/ \E n \in DOMAIN a : a[n] = d
                            \/ \E n \in DOMAIN b : b[n] = d
                            \/ \E n \in DOMAIN r : r[n] = d
  BY <1>1 DEF Lined
<1> QED BY <1>2, <1>3, <1>4 DEF Lined

LEMMA OneLeaves ==
    ASSUME NEW q, NEW b, NEW r, NEW w, NEW g, Lined(q, b, r, w, g), NEW c
    PROVE  Lined(q, b, r, w \ {c}, g \cup {c})
BY DEF Lined

\* The callers of requests and of results
First(reqs) == [n \in DOMAIN reqs |-> reqs[n][1]]
Told(rs) == [n \in DOMAIN rs |-> rs[n].caller]
LineInv == Lined(First(queue), First(batch), Told(results), waiting, gone)

LEMMA CallersTyped ==
    /\ \A reqs \in Seq(Req) : First(reqs) \in Seq(Caller) /\ (First(reqs) = <<>> <=> reqs = <<>>)
    /\ \A rs \in Seq(Res) : Told(rs) \in Seq(Caller) /\ (Told(rs) = <<>> <=> rs = <<>>)
<1>1. ASSUME NEW reqs \in Seq(Req)
      PROVE  First(reqs) \in Seq(Caller) /\ (First(reqs) = <<>> <=> reqs = <<>>)
  <2>1. /\ DOMAIN reqs = 1 .. Len(reqs) /\ Len(reqs) \in Nat
        /\ \A n \in 1 .. Len(reqs) : reqs[n][1] \in Caller
    BY DEF Req
  <2>2. First(reqs) \in Seq(Caller) /\ Len(First(reqs)) = Len(reqs)
    BY <2>1 DEF First
  <2> QED BY <2>2, EmptySeq
<1>2. ASSUME NEW rs \in Seq(Res)
      PROVE  Told(rs) \in Seq(Caller) /\ (Told(rs) = <<>> <=> rs = <<>>)
  <2>1. /\ DOMAIN rs = 1 .. Len(rs) /\ Len(rs) \in Nat
        /\ \A n \in 1 .. Len(rs) : rs[n] \in Res
    OBVIOUS
  <2>2. \A n \in 1 .. Len(rs) : rs[n].caller \in Caller
    BY <2>1 DEF Res
  <2>3. Told(rs) \in Seq(Caller) /\ Len(Told(rs)) = Len(rs)
    BY <2>1, <2>2 DEF Told
  <2> QED BY <2>3, EmptySeq
<1> QED BY <1>1, <1>2

LEMMA CallersMove ==
    /\ \A reqs \in Seq(Req) : reqs # <<>> => /\ First(Tail(reqs)) = Tail(First(reqs))
                                             /\ Head(reqs)[1] = Head(First(reqs))
    /\ \A reqs \in Seq(Req), x \in Req : First(Append(reqs, x)) = Append(First(reqs), x[1])
    /\ \A rs \in Seq(Res) : rs # <<>> => /\ Told(Tail(rs)) = Tail(Told(rs))
                                         /\ Head(rs).caller = Head(Told(rs))
    /\ \A rs \in Seq(Res), x \in Res : Told(Append(rs, x)) = Append(Told(rs), x.caller)
<1>1. ASSUME NEW reqs \in Seq(Req), reqs # <<>>
      PROVE  First(Tail(reqs)) = Tail(First(reqs)) /\ Head(reqs)[1] = Head(First(reqs))
  <2>1. First(reqs) \in Seq(Caller) /\ First(reqs) # <<>> /\ DOMAIN First(reqs) = DOMAIN reqs
    BY <1>1, CallersTyped DEF First
  <2>2. Len(First(reqs)) = Len(reqs) /\ Len(reqs) \in Nat /\ Len(reqs) > 0
    BY <1>1, <2>1
  <2>3. \A n \in 1 .. Len(reqs) : First(reqs)[n] = reqs[n][1]
    BY DEF First
  <2>4. /\ Tail(reqs) \in Seq(Req) /\ Len(Tail(reqs)) = Len(reqs) - 1
        /\ \A n \in 1 .. Len(reqs) - 1 : Tail(reqs)[n] = reqs[n + 1]
    BY <1>1, <2>2
  <2>5. /\ First(Tail(reqs)) \in Seq(Caller) /\ Len(First(Tail(reqs))) = Len(reqs) - 1
        /\ \A n \in 1 .. Len(reqs) - 1 : First(Tail(reqs))[n] = reqs[n + 1][1]
    <3>1. First(Tail(reqs)) \in Seq(Caller)
      BY <2>4, CallersTyped
    <3>2. DOMAIN First(Tail(reqs)) = 1 .. Len(reqs) - 1
      BY <2>2, <2>4 DEF First
    <3> QED BY <2>2, <2>4, <3>1, <3>2 DEF First
  <2>6. /\ Tail(First(reqs)) \in Seq(Caller) /\ Len(Tail(First(reqs))) = Len(reqs) - 1
        /\ \A n \in 1 .. Len(reqs) - 1 : Tail(First(reqs))[n] = reqs[n + 1][1]
    BY <2>1, <2>2, <2>3
  <2>7. First(Tail(reqs)) = Tail(First(reqs))
    BY <2>5, <2>6, SeqEqual
  <2> QED BY <2>1, <2>2, <2>3, <2>7
<1>2. ASSUME NEW reqs \in Seq(Req), NEW x \in Req
      PROVE  First(Append(reqs, x)) = Append(First(reqs), x[1])
  <2>1. /\ Append(reqs, x) \in Seq(Req) /\ Len(reqs) \in Nat /\ x[1] \in Caller
        /\ First(reqs) \in Seq(Caller) /\ Len(First(reqs)) = Len(reqs)
    <3>1. First(reqs) \in Seq(Caller) /\ DOMAIN First(reqs) = DOMAIN reqs
      BY CallersTyped DEF First
    <3> QED BY <3>1 DEF Req
  <2> PICK a, e : a = First(Append(reqs, x)) /\ e = Append(First(reqs), x[1])
    OBVIOUS
  <2>2. a \in Seq(Caller) /\ Len(a) = Len(reqs) + 1
    <3>1. a \in Seq(Caller) /\ DOMAIN a = 1 .. Len(reqs) + 1
      BY <2>1, CallersTyped DEF First
    <3> QED BY <2>1, <3>1
  <2>3. e \in Seq(Caller) /\ Len(e) = Len(reqs) + 1
    BY <2>1
  <2>4. ASSUME NEW n \in 1 .. Len(reqs) + 1 PROVE a[n] = e[n]
    <3>1. a[n] = Append(reqs, x)[n][1]
      BY <2>1 DEF First
    <3>2. CASE n = Len(reqs) + 1
      BY <2>1, <3>1, <3>2
    <3>3. CASE n # Len(reqs) + 1
      <4>1. n \in 1 .. Len(reqs) /\ Append(reqs, x)[n] = reqs[n] /\ e[n] = First(reqs)[n]
        BY <2>1, <3>3
      <4>2. First(reqs)[n] = reqs[n][1]
        BY <4>1 DEF First
      <4> QED BY <3>1, <4>1, <4>2
    <3> QED BY <3>2, <3>3
  <2> QED BY <2>2, <2>3, <2>4, SeqEqual
<1>3. ASSUME NEW rs \in Seq(Res), rs # <<>>
      PROVE  Told(Tail(rs)) = Tail(Told(rs)) /\ Head(rs).caller = Head(Told(rs))
  <2>1. Told(rs) \in Seq(Caller) /\ Told(rs) # <<>> /\ DOMAIN Told(rs) = DOMAIN rs
    BY <1>3, CallersTyped DEF Told
  <2>2. Len(Told(rs)) = Len(rs) /\ Len(rs) \in Nat /\ Len(rs) > 0
    BY <1>3, <2>1
  <2>3. \A n \in 1 .. Len(rs) : Told(rs)[n] = rs[n].caller
    BY DEF Told
  <2>4. /\ Tail(rs) \in Seq(Res) /\ Len(Tail(rs)) = Len(rs) - 1
        /\ \A n \in 1 .. Len(rs) - 1 : Tail(rs)[n] = rs[n + 1]
    BY <1>3, <2>2
  <2>5. /\ Told(Tail(rs)) \in Seq(Caller) /\ Len(Told(Tail(rs))) = Len(rs) - 1
        /\ \A n \in 1 .. Len(rs) - 1 : Told(Tail(rs))[n] = rs[n + 1].caller
    <3>1. Told(Tail(rs)) \in Seq(Caller)
      BY <2>4, CallersTyped
    <3>2. DOMAIN Told(Tail(rs)) = 1 .. Len(rs) - 1
      BY <2>2, <2>4 DEF Told
    <3> QED BY <2>2, <2>4, <3>1, <3>2 DEF Told
  <2>6. /\ Tail(Told(rs)) \in Seq(Caller) /\ Len(Tail(Told(rs))) = Len(rs) - 1
        /\ \A n \in 1 .. Len(rs) - 1 : Tail(Told(rs))[n] = rs[n + 1].caller
    BY <2>1, <2>2, <2>3
  <2>7. Told(Tail(rs)) = Tail(Told(rs))
    BY <2>5, <2>6, SeqEqual
  <2> QED BY <2>1, <2>2, <2>3, <2>7
<1>4. ASSUME NEW rs \in Seq(Res), NEW x \in Res
      PROVE  Told(Append(rs, x)) = Append(Told(rs), x.caller)
  <2>1. /\ Append(rs, x) \in Seq(Res) /\ Len(rs) \in Nat /\ x.caller \in Caller
        /\ Told(rs) \in Seq(Caller) /\ Len(Told(rs)) = Len(rs)
    <3>1. Told(rs) \in Seq(Caller) /\ DOMAIN Told(rs) = DOMAIN rs
      BY CallersTyped DEF Told
    <3> QED BY <3>1 DEF Res
  <2> PICK a, e : a = Told(Append(rs, x)) /\ e = Append(Told(rs), x.caller)
    OBVIOUS
  <2>2. a \in Seq(Caller) /\ Len(a) = Len(rs) + 1
    <3>1. a \in Seq(Caller) /\ DOMAIN a = 1 .. Len(rs) + 1
      BY <2>1, CallersTyped DEF Told
    <3> QED BY <2>1, <3>1
  <2>3. e \in Seq(Caller) /\ Len(e) = Len(rs) + 1
    BY <2>1
  <2>4. ASSUME NEW n \in 1 .. Len(rs) + 1 PROVE a[n] = e[n]
    <3>1. a[n] = Append(rs, x)[n].caller
      BY <2>1 DEF Told
    <3>2. CASE n = Len(rs) + 1
      BY <2>1, <3>1, <3>2
    <3>3. CASE n # Len(rs) + 1
      <4>1. n \in 1 .. Len(rs) /\ Append(rs, x)[n] = rs[n] /\ e[n] = Told(rs)[n]
        BY <2>1, <3>3
      <4>2. Told(rs)[n] = rs[n].caller
        BY <4>1 DEF Told
      <4> QED BY <3>1, <4>1, <4>2
    <3> QED BY <3>2, <3>3
  <2> QED BY <2>2, <2>3, <2>4, SeqEqual
<1> QED BY <1>1, <1>2, <1>3, <1>4

LEMMA FailuresKeepCallers ==
    /\ \A rs \in Seq(Res) : Told(AllFailed(rs)) = Told(rs)
    /\ \A reqs \in Seq(Req) : Told(FailedResults(reqs)) = First(reqs)
    /\ \A rs \in Seq(Res), reqs \in Seq(Req) :
            Told(AllFailed(rs) \o FailedResults(reqs)) = Told(rs) \o First(reqs)
<1>1. ASSUME NEW rs \in Seq(Res) PROVE Told(AllFailed(rs)) = Told(rs)
  <2>1. \A n \in DOMAIN rs : rs[n] \in Res
    OBVIOUS
  <2>2. \A n \in DOMAIN rs : [rs[n] EXCEPT !.answer = Err].caller = rs[n].caller
    BY <2>1 DEF Res
  <2> QED BY <2>2 DEF Told, AllFailed
<1>2. ASSUME NEW reqs \in Seq(Req) PROVE Told(FailedResults(reqs)) = First(reqs)
  BY DEF Told, FailedResults, First, result
<1>3. ASSUME NEW rs \in Seq(Res), NEW reqs \in Seq(Req)
      PROVE  Told(AllFailed(rs) \o FailedResults(reqs)) = Told(rs) \o First(reqs)
  <2> PICK a, b, k, l : a = AllFailed(rs) /\ b = FailedResults(reqs) /\ k = Told(rs) /\ l = First(reqs)
    OBVIOUS
  <2>1. a \in Seq(Res) /\ b \in Seq(Res) /\ Told(a) = k /\ Told(b) = l
    BY <1>1, <1>2, FailuresAreTyped
  <2>2. k \in Seq(Caller) /\ l \in Seq(Caller)
    BY CallersTyped
  <2>3. /\ Len(a) \in Nat /\ Len(b) \in Nat /\ Len(k) = Len(a) /\ Len(l) = Len(b)
        /\ \A n \in 1 .. Len(a) : k[n] = a[n].caller
        /\ \A n \in 1 .. Len(b) : l[n] = b[n].caller
    <3>1. DOMAIN k = DOMAIN a /\ DOMAIN l = DOMAIN b
      BY <2>1 DEF Told
    <3>2. Len(k) = Len(a) /\ Len(l) = Len(b) /\ Len(a) \in Nat /\ Len(b) \in Nat
      BY <2>1, <2>2, <3>1
    <3>3. (\A n \in DOMAIN a : Told(a)[n] = a[n].caller) /\ (\A n \in DOMAIN b : Told(b)[n] = b[n].caller)
      BY DEF Told
    <3>4. DOMAIN a = 1 .. Len(a) /\ DOMAIN b = 1 .. Len(b)
      BY <2>1
    <3> QED BY <2>1, <3>2, <3>3, <3>4
  <2> PICK s, t : s = Told(a \o b) /\ t = k \o l
    OBVIOUS
  <2>4. /\ a \o b \in Seq(Res) /\ Len(a \o b) = Len(a) + Len(b)
        /\ \A n \in 1 .. Len(a) + Len(b) :
                (a \o b)[n] = IF n <= Len(a) THEN a[n] ELSE b[n - Len(a)]
    BY <2>1, ConcatProperties
  <2>5. /\ t \in Seq(Caller) /\ Len(t) = Len(a) + Len(b)
        /\ \A n \in 1 .. Len(a) + Len(b) : t[n] = IF n <= Len(a) THEN k[n] ELSE l[n - Len(a)]
    <3>1. /\ t \in Seq(Caller) /\ Len(t) = Len(k) + Len(l)
          /\ \A n \in 1 .. Len(k) + Len(l) : t[n] = IF n <= Len(k) THEN k[n] ELSE l[n - Len(k)]
      BY <2>2, ConcatProperties, Zenon
    <3> QED BY <2>3, <3>1
  <2>6. s \in Seq(Caller) /\ Len(s) = Len(a) + Len(b)
    <3> PICK c : c = a \o b
      OBVIOUS
    <3>1. s \in Seq(Caller) /\ DOMAIN s = DOMAIN c
      BY <2>4, CallersTyped DEF Told
    <3>2. c \in Seq(Res) /\ Len(c) = Len(a) + Len(b)
      BY <2>4
    <3> QED BY <2>3, <3>1, <3>2
  <2>7. ASSUME NEW n \in 1 .. Len(a) + Len(b) PROVE s[n] = t[n]
    <3>1. s[n] = (a \o b)[n].caller
      <4> PICK c : c = a \o b
        OBVIOUS
      <4>1. c \in Seq(Res) /\ Len(c) = Len(a) + Len(b)
        BY <2>4
      <4>2. n \in DOMAIN c
        BY <2>3, <4>1
      <4> QED BY <4>2 DEF Told
    <3>2. CASE n <= Len(a)
      BY <2>3, <2>4, <2>5, <3>1, <3>2
    <3>3. CASE ~(n <= Len(a))
      <4>1. n - Len(a) \in 1 .. Len(b)
        BY <2>3, <3>3
      <4> QED BY <2>3, <2>4, <2>5, <3>1, <3>3, <4>1
    <3> QED BY <3>2, <3>3
  <2>8. s = t
    BY <2>5, <2>6, <2>7, SeqEqual
  <2> QED BY <2>8
<1> QED BY <1>1, <1>2, <1>3

LEMMA InitLine == Init => LineInv
BY DEF Init, LineInv, Lined, Differ, Apart, First, Told

LEMMA NextLine == StoreInv /\ LineInv /\ [Next]_vars => LineInv'
<1> SUFFICES ASSUME StoreInv, LineInv, [Next]_vars PROVE LineInv'
  OBVIOUS
<1> PICK q, b, r : q = First(queue) /\ b = First(batch) /\ r = Told(results)
  OBVIOUS
<1>1. queue \in Seq(Req) /\ batch \in Seq(Req) /\ results \in Seq(Res) /\ Flags
  BY StoreParts DEF QueueInv
<1>2. Lined(q, b, r, waiting, gone)
  BY DEF LineInv
<1>3. q \in Seq(Caller) /\ b \in Seq(Caller) /\ r \in Seq(Caller)
  BY <1>1, CallersTyped
<1>4. First(<<>>) = <<>> /\ Told(<<>>) = <<>>
  BY DEF First, Told
<1>5. CASE UNCHANGED <<queue, batch, results, waiting, gone>>
  BY <1>5 DEF LineInv, First, Told
<1>6. ASSUME NEW c \in Caller, NEW op \in Operation, Call(c, op) PROVE LineInv'
  <2>1. <<c, op>> \in Req /\ <<c, op>>[1] = c
    BY DEF Req
  <2>2. First(queue') = Append(q, c)
    BY <1>1, <1>6, <2>1, CallersMove DEF Call
  <2>3. waiting' = waiting \cup {c} /\ c \notin waiting \cup gone /\ UNCHANGED <<batch, results, gone>>
    BY <1>6 DEF Call, ingester
  <2>4. First(batch') = b /\ Told(results') = r
    BY <2>3
  <2>5. Lined(Append(q, c), b, r, waiting \cup {c}, gone)
    BY <1>2, <1>3, <2>3, OneComes
  <2> QED BY <2>2, <2>3, <2>4, <2>5 DEF LineInv
<1>7. ASSUME NEW c \in Caller, Drop(c) PROVE LineInv'
  <2>1. /\ waiting' = waiting \ {c} /\ gone' = gone \cup {c} /\ UNCHANGED <<queue, batch, results>>
    BY <1>7 DEF Drop, ingester
  <2>2. First(queue') = q /\ First(batch') = b /\ Told(results') = r
    BY <2>1
  <2> QED BY <1>2, <2>1, <2>2, OneLeaves DEF LineInv
<1>8. CASE BeginBatch
  <2>1. batch = <<>> /\ results = <<>> /\ queue' = <<>> /\ UNCHANGED <<waiting, gone>>
    BY <1>8 DEF BeginBatch, StoreInv
  <2>2. Lined(q, <<>>, <<>>, waiting, gone)
    BY <1>2, <1>4, <2>1
  <2>3. CASE batch' = queue /\ results' = results
    BY <1>4, <2>1, <2>2, <2>3, BatchTaken DEF LineInv
  <2>4. CASE results' = FailedResults(queue) /\ batch' = batch
    <3>1. Told(results') = q
      BY <1>1, <2>4, FailuresKeepCallers
    <3> QED BY <1>4, <2>1, <2>2, <2>4, <3>1, BatchTaken DEF LineInv
  <2> QED BY <1>8, <2>3, <2>4 DEF BeginBatch
<1>9. CASE ProcessOperation \/ FailedMaintenance
  <2>1. /\ batch # <<>> /\ batch' = Tail(batch) /\ UNCHANGED <<queue, waiting, gone>>
        /\ \E answer : results' = Append(results, result(Head(batch), answer))
    BY <1>9 DEF ProcessOperation, FailedMaintenance
  <2>2. PICK answer : results' = Append(results, result(Head(batch), answer))
    BY <2>1
  <2>3. results' \in Seq(Res)
    <3>1. StoreInv'
      BY NextStore
    <3> QED BY <3>1 DEF StoreInv
  <2>4. result(Head(batch), answer) \in Res
    <3>1. results'[Len(results) + 1] = result(Head(batch), answer) /\ Len(results') = Len(results) + 1
      BY <1>1, <2>2
    <3> QED BY <1>1, <2>3, <3>1
  <2>5. result(Head(batch), answer).caller = Head(b)
    BY <1>1, <2>1, CallersMove DEF result
  <2>6. Told(results') = Append(r, Head(b)) /\ First(batch') = Tail(b) /\ First(queue') = q
    BY <1>1, <2>1, <2>2, <2>4, <2>5, CallersMove
  <2>7. b # <<>>
    BY <1>1, <2>1, CallersTyped
  <2>8. Lined(q, Tail(b), Append(r, Head(b)), waiting, gone)
    BY <1>2, <1>3, <2>7, OneMade
  <2> QED BY <2>1, <2>6, <2>8 DEF LineInv
<1>10. CASE AbortBatch
  <2>1. /\ results' = AllFailed(results) \o FailedResults(batch) /\ batch' = <<>>
        /\ UNCHANGED <<queue, waiting, gone>>
    BY <1>10 DEF AbortBatch
  <2>2. Told(results') = r \o b /\ First(batch') = <<>> /\ First(queue') = q
    BY <1>1, <1>4, <2>1, FailuresKeepCallers
  <2> QED BY <1>2, <1>3, <2>1, <2>2, AllMade DEF LineInv
<1>11. CASE Commit
  <2>1. UNCHANGED <<queue, batch, waiting, gone>> /\ (results' = results \/ results' = AllFailed(results))
    BY <1>11 DEF Commit
  <2>2. Told(results') = r /\ First(batch') = b /\ First(queue') = q
    BY <1>1, <2>1, FailuresKeepCallers
  <2> QED BY <1>2, <2>1, <2>2 DEF LineInv
<1>12. CASE Answer1
  <2>1. /\ results # <<>> /\ results' = Tail(results) /\ waiting' = waiting \ {Head(results).caller}
        /\ UNCHANGED <<queue, batch, gone>>
    BY <1>12 DEF Answer1, StoreInv
  <2>2. Told(results') = Tail(r) /\ Head(results).caller = Head(r) /\ r # <<>>
    BY <1>1, <2>1, CallersMove, CallersTyped
  <2>3. First(queue') = q /\ First(batch') = b
    BY <2>1
  <2>4. Lined(q, b, Tail(r), waiting \ {Head(r)}, gone)
    BY <1>2, <1>3, <2>2, OneTold
  <2> QED BY <2>1, <2>2, <2>3, <2>4 DEF LineInv
<1>13. CASE Stop
  <2>1. queue' = <<>> /\ batch' = <<>> /\ results' = <<>> /\ waiting' = {} /\ gone' = {}
    BY <1>13 DEF Stop
  <2>2. First(queue') = <<>> /\ First(batch') = <<>> /\ Told(results') = <<>>
    BY <1>4, <2>1
  <2> QED BY <2>1, <2>2 DEF LineInv, Lined, Differ, Apart
<1>14. CASE Open
  BY <1>5, <1>14 DEF Open, ingester
<1>15. CASE UNCHANGED vars
  BY <1>5, <1>15 DEF vars
<1> QED
  BY <1>6, <1>7, <1>8, <1>9, <1>10, <1>11, <1>12, <1>13, <1>14, <1>15 DEF Next, Ingest

LEMMA LineIsPlaces == LineInv => EachRequestHasAPlace
<1> SUFFICES ASSUME LineInv PROVE EachRequestHasAPlace
  OBVIOUS
<1>1. /\ \A n \in DOMAIN queue : <<"queue", n>> \in Place /\ CallerAt(<<"queue", n>>) = queue[n][1]
      /\ \A n \in DOMAIN batch : <<"batch", n>> \in Place /\ CallerAt(<<"batch", n>>) = batch[n][1]
      /\ \A n \in DOMAIN results : /\ <<"results", n>> \in Place
                                   /\ CallerAt(<<"results", n>>) = results[n].caller
  BY DEF Place, CallerAt
<1>2. ASSUME NEW p \in Place
      PROVE  \/ \E n \in DOMAIN queue : p = <<"queue", n>>
             \/ \E n \in DOMAIN batch : p = <<"batch", n>>
             \/ \E n \in DOMAIN results : p = <<"results", n>>
  BY DEF Place
<1>3. /\ \A m, n \in DOMAIN queue : queue[m][1] = queue[n][1] => m = n
      /\ \A m, n \in DOMAIN batch : batch[m][1] = batch[n][1] => m = n
      /\ \A m, n \in DOMAIN results : results[m].caller = results[n].caller => m = n
      /\ \A m \in DOMAIN queue, n \in DOMAIN batch : queue[m][1] # batch[n][1]
      /\ \A m \in DOMAIN queue, n \in DOMAIN results : queue[m][1] # results[n].caller
      /\ \A m \in DOMAIN batch, n \in DOMAIN results : batch[m][1] # results[n].caller
  BY DEF LineInv, Lined, Differ, Apart, First, Told
<1>4. /\ \A n \in DOMAIN queue : queue[n][1] \in waiting \cup gone
      /\ \A n \in DOMAIN batch : batch[n][1] \in waiting \cup gone
      /\ \A n \in DOMAIN results : results[n].caller \in waiting \cup gone
      /\ \A c \in waiting : \/ \E n \in DOMAIN queue : queue[n][1] = c
                            \/ \E n \in DOMAIN batch : batch[n][1] = c
                            \/ \E n \in DOMAIN results : results[n].caller = c
  BY DEF LineInv, Lined, First, Told
<1>5. ASSUME NEW p \in Place, NEW o \in Place, CallerAt(p) = CallerAt(o) PROVE p = o
  <2>1. CASE \E n \in DOMAIN queue : p = <<"queue", n>>
    BY <1>1, <1>2, <1>3, <1>5, <2>1
  <2>2. CASE \E n \in DOMAIN batch : p = <<"batch", n>>
    BY <1>1, <1>2, <1>3, <1>5, <2>2
  <2>3. CASE \E n \in DOMAIN results : p = <<"results", n>>
    BY <1>1, <1>2, <1>3, <1>5, <2>3
  <2> QED BY <1>2, <2>1, <2>2, <2>3
<1>6. ASSUME NEW c \in waiting PROVE \E p \in Place : CallerAt(p) = c
  <2>1. CASE \E n \in DOMAIN queue : queue[n][1] = c
    BY <1>1, <2>1
  <2>2. CASE \E n \in DOMAIN batch : batch[n][1] = c
    BY <1>1, <2>2
  <2>3. CASE \E n \in DOMAIN results : results[n].caller = c
    BY <1>1, <2>3
  <2> QED BY <1>4, <2>1, <2>2, <2>3
<1>7. ASSUME NEW p \in Place PROVE CallerAt(p) \in waiting \cup gone
  <2>1. CASE \E n \in DOMAIN queue : p = <<"queue", n>>
    BY <1>1, <1>4, <2>1
  <2>2. CASE \E n \in DOMAIN batch : p = <<"batch", n>>
    BY <1>1, <1>4, <2>2
  <2>3. CASE \E n \in DOMAIN results : p = <<"results", n>>
    BY <1>1, <1>4, <2>3
  <2> QED BY <1>2, <2>1, <2>2, <2>3
<1>8. waiting \subseteq {CallerAt(p) : p \in Place}
  BY <1>6
<1>9. {CallerAt(p) : p \in Place} \subseteq waiting \cup gone
  BY <1>7
<1> QED BY <1>5, <1>8, <1>9 DEF EachRequestHasAPlace

\* Nobody is forgotten: while a caller waits, and the process runs, its request
\* is in the channel, in the batch or among what was made, there once and as
\* the only one of that caller (run_ingester_loop and process_batch_in_transaction
\* keep the sender of each request with it).
THEOREM NobodyIsForgotten == Spec => []EachRequestHasAPlace
<1>1. Spec => []LineInv
  BY InitLine, NextLine, StoreInvariant, PTL DEF Spec
<1> QED BY <1>1, LineIsPlaces, PTL

=============================================================================
