----------------------------- MODULE MemoryStore -----------------------------
(* The in-memory event store: a sorted set of events that may be bounded,  *)
(* four maps kept in step with it, and the tombstones.  Every operation    *)
(* holds the write lock, so it is one step; what is at stake is that a long*)
(* sequence of saves, replacements, deletions, expiries and evictions      *)
(* keeps the maps and the set together.                                    *)
EXTENDS NostrEvents

CONSTANTS
    Capacity,    \* max_events, or 0 for no bound
    DeleteFilter,\* the filters callers delete by
    QueryFilter, \* the filters callers query by
    LastTime     \* bound on the clock

ASSUME StoreAssumption ==
    /\ Capacity \in Nat /\ LastTime \in Nat
    /\ \A f \in QueryFilter :
        /\ IsFiniteSet(f.authors) /\ IsFiniteSet(f.kinds)
        /\ \A n \in DOMAIN f.tags : IsFiniteSet(f.tags[n])
        /\ f.since \in Nat /\ f.until \in Nat

\* The events of this model have one "d" tag at most.
ASSUME OneIdentifier == \A i \in Id : Event[i].tags["d"] = identifier(i)

VARIABLES
    events,                  \* the BTreeCapSet
    ids,                     \* the keys of the map from IDs
    author_index,            \* author -> events
    kind_author_index,       \* <<kind, author>> -> events
    param_replaceable_index, \* coordinate -> event: pairs <<coordinate, id>>
    deleted_ids,
    deleted_coordinates,     \* pairs <<coordinate, time>>
    vanished_public_keys,
    now                      \* the clock
store == <<events, ids, author_index, kind_author_index, param_replaceable_index>>
tombstones == <<deleted_ids, deleted_coordinates, vanished_public_keys>>
vars == <<store, tombstones, now>>

Author == {pubkey(i) : i \in Id}
KindAuthor == {<<kind(i), pubkey(i)>> : i \in Id}

TypeOK ==
    /\ events \subseteq Id /\ ids \subseteq Id
    /\ author_index \in [Author -> SUBSET Id]
    /\ kind_author_index \in [KindAuthor -> SUBSET Id]
    /\ \A x \in param_replaceable_index : x[2] \in Id
    /\ deleted_ids \subseteq Id /\ vanished_public_keys \subseteq Author
    /\ now \in 0 .. LastTime

Empty ==
    /\ events = {} /\ ids = {}
    /\ author_index = [a \in Author |-> {}]
    /\ kind_author_index = [x \in KindAuthor |-> {}]
    /\ param_replaceable_index = {}
    /\ deleted_ids = {} /\ deleted_coordinates = {} /\ vanished_public_keys = {}

Init == Empty /\ now = 0

-----------------------------------------------------------------------------
(* Queries *)

InTime(i, since, until) == since <= created_at(i) /\ created_at(i) <= until

internal_query_by_author(a, since, until) ==
    {i \in (IF a \in Author THEN author_index[a] ELSE {}) :
        i \notin deleted_ids /\ InTime(i, since, until)}

\* Mutant: "since" is not looked at.
internal_query_by_kind_and_author_AnyTime(k, a, since, until) ==
    {i \in (IF <<k, a>> \in KindAuthor THEN kind_author_index[<<k, a>>] ELSE {}) :
        i \notin deleted_ids /\ created_at(i) <= until}

internal_query_by_kind_and_author(k, a, since, until) ==
    {i \in (IF <<k, a>> \in KindAuthor THEN kind_author_index[<<k, a>>] ELSE {}) :
        i \notin deleted_ids /\ InTime(i, since, until)}

internal_query_param_replaceable(k, a, d, since, until) ==
    {i \in {x[2] : x \in {y \in param_replaceable_index :
                            y[1] = [kind |-> k, pubkey |-> a, identifier |-> d]}} :
        is_addressable(k) /\ i \notin deleted_ids /\ InTime(i, since, until)}

internal_generic_query(f) == {i \in events : i \notin deleted_ids /\ match_event(f, i)}

IsSingle(S) == Cardinality(S) = 1
The(S) == CHOOSE x \in S : TRUE
HasIdentifier(f) == "d" \in DOMAIN f.tags
\* The identifiers of a filter are sorted; the plan for a coordinate takes the
\* first.  No order of strings is modelled: any of them may be the first.
QueryPatterns(f) ==
    IF IsSingle(f.authors) /\ f.ids = {} /\ f.kinds = {} /\ DOMAIN f.tags = {}
    THEN {internal_query_by_author(The(f.authors), f.since, f.until)}
    ELSE IF IsSingle(f.authors) /\ f.ids = {} /\ IsSingle(f.kinds) /\ DOMAIN f.tags = {}
    THEN {internal_query_by_kind_and_author(The(f.kinds), The(f.authors), f.since, f.until)}
    ELSE IF /\ IsSingle(f.authors) /\ f.ids = {} /\ IsSingle(f.kinds) /\ HasIdentifier(f)
            /\ is_addressable(The(f.kinds))
    THEN {internal_query_param_replaceable(The(f.kinds), The(f.authors), d, f.since, f.until) :
            d \in f.tags["d"]}
    ELSE {internal_generic_query(f)}

\* A filter without any condition answers with everything.
query(f) ==
    IF f = AnyFilter THEN {events}
    ELSE {Newest(S, f.limit) : S \in QueryPatterns(f)}

negentropy_items(f) == {{i \in S : ~is_expired_at(i, now)} : S \in query(f)}

-----------------------------------------------------------------------------
(* Saving *)

\* Some refusals come before anything is looked up, in this order.
Refusal(i) ==
    IF is_ephemeral(kind(i)) THEN "Ephemeral"
    ELSE IF i \in ids THEN "Duplicate"
    ELSE IF i \in deleted_ids THEN "Deleted"
    ELSE IF pubkey(i) \in vanished_public_keys THEN "Vanished"
    ELSE IF HasCoordinate(i) /\ \E x \in deleted_coordinates :
                x[1] = coordinate(i) /\ created_at(i) <= x[2] THEN "Deleted"
    ELSE IF is_expired_at(i, now) THEN "Expired"
    ELSE "None"

\* The stored versions of the event.
Versions(i) ==
    IF is_replaceable(kind(i))
    THEN internal_query_by_kind_and_author(kind(i), pubkey(i), 0, MaxTime)
    ELSE IF is_addressable(kind(i)) /\ identifier(i) # {}
    THEN internal_query_param_replaceable(kind(i), pubkey(i), The(identifier(i)), 0, MaxTime)
    ELSE {}

\* Mutant: the coordinates of what is discarded stay in their map.
discard_events_KeepsCoordinates(S) ==
    [events |-> events \ S, ids |-> ids \ S,
     author_index |-> [a \in Author |-> author_index[a] \ S],
     kind_author_index |-> [x \in KindAuthor |-> kind_author_index[x] \ S],
     param_replaceable_index |-> param_replaceable_index]

\* What a save removes, besides what it evicts.
discard_events(S) ==
    LET gone == S \cap ids
    IN [events |-> events \ gone, ids |-> ids \ gone,
        author_index |-> [a \in Author |-> author_index[a] \ gone],
        kind_author_index |-> [x \in KindAuthor |-> kind_author_index[x] \ gone],
        param_replaceable_index |->
            {x \in param_replaceable_index :
                ~\E i \in gone : /\ is_addressable(kind(i)) /\ identifier(i) # {}
                                 /\ x[1] = coordinate(i)}]

\* BTreeCapSet with the policy that drops the last (an external crate): the
\* eviction may or may not take the new event into account.
Evictions(S, i) ==
    IF Capacity = 0 \/ Cardinality(S \cup {i}) <= Capacity THEN {{}}
    ELSE {(S \cup {i}) \ NewestN(S \cup {i}, Capacity),
          S \ NewestN(S, Capacity - 1)}

\* Insert the event where "s" is the store after the discards, then take out
\* of every map what the set evicted.
Insert(s, i, evicted) ==
    LET indexed == is_addressable(kind(i)) /\ identifier(i) # {}
        self == <<kind(i), pubkey(i)>>
        Leaves(x) == \E j \in evicted : /\ is_addressable(kind(j)) /\ identifier(j) # {}
                                        /\ x[1] = coordinate(j)
        named == IF indexed
                 THEN {x \in s.param_replaceable_index : x[1] # coordinate(i)} \cup {<<coordinate(i), i>>}
                 ELSE s.param_replaceable_index
        kept == IF is_replaceable(kind(i)) THEN {} ELSE s.kind_author_index[self]
    IN /\ events' = (s.events \cup {i}) \ evicted
       /\ ids' = (s.ids \cup {i}) \ evicted
       /\ author_index' = [a \in Author |->
            (s.author_index[a] \cup IF a = pubkey(i) THEN {i} ELSE {}) \ evicted]
       /\ kind_author_index' = [x \in KindAuthor |->
            (IF x = self THEN kept \cup {i} ELSE s.kind_author_index[x]) \ evicted]
       /\ param_replaceable_index' = {x \in named : ~Leaves(x)}

Keep(s) ==
    /\ events' = s.events /\ ids' = s.ids /\ author_index' = s.author_index
    /\ kind_author_index' = s.kind_author_index
    /\ param_replaceable_index' = s.param_replaceable_index

Store(S, i) == LET s == discard_events(S)
               IN \E evicted \in Evictions(s.events, i) : Insert(s, i, evicted)

Refuse(i) ==
    /\ Refusal(i) # "None"
    /\ UNCHANGED vars

\* A replaceable or addressable event: its older versions are discarded, even
\* when another version turns out to take precedence.
SaveVersion(i) ==
    /\ Refusal(i) = "None" /\ HasCoordinate(i)
    /\ LET ahead == {v \in Versions(i) : has_event_been_replaced(v, i)}
           refused == ahead # {} \/ (is_addressable(kind(i)) /\ identifier(i) = {})
       IN IF refused THEN Keep(discard_events(Versions(i) \ ahead))
          ELSE Store(Versions(i), i)
    /\ UNCHANGED <<tombstones, now>>

\* Mutant: what belongs to others is reached too.
Reached_Foreign(S, foreign) == {S}

\* A deletion.  The e tags are gone through in order until one names an event
\* of somebody else, the a tags until one names a coordinate of somebody else;
\* what was reached is deleted even though the deletion is then refused.  The
\* order of the tags is not modelled: any part may have been reached.
Reached(S, foreign) == IF foreign = {} THEN {S} ELSE SUBSET (S \ foreign)

UnderCoordinate(c, until) ==
    IF c.identifier # ""
    THEN internal_query_param_replaceable(c.kind, c.pubkey, c.identifier, 0, until)
    ELSE internal_query_by_kind_and_author(c.kind, c.pubkey, 0, until)

\* Mutant: an older deletion that arrives later takes the place of a newer one.
mark_coordinates_deleted_Overwrites(S, time) ==
    {x \in deleted_coordinates : x[1] \notin S} \cup {<<c, time>> : c \in S}

mark_coordinates_deleted(S, time) ==
    LET Time(c) == {x[2] : x \in {y \in deleted_coordinates : y[1] = c}}
    IN {x \in deleted_coordinates : x[1] \notin S}
        \cup {<<c, IF \E t \in Time(c) : t >= time THEN The(Time(c)) ELSE time>> : c \in S}

SaveDeletion(i) ==
    /\ Refusal(i) = "None" /\ kind(i) = EventDeletion
    /\ LET foreignIds == {j \in event_ids(i) \cap ids : pubkey(j) # pubkey(i)}
           foreignCoordinates == {c \in coordinates(i) : c.pubkey # pubkey(i)}
       IN \E es \in Reached(event_ids(i) \cap ids, foreignIds),
             cs \in Reached(coordinates(i), foreignCoordinates) :
            LET doomed == {j \in es : created_at(j) <= created_at(i)}
                under == UNION {UnderCoordinate(c, created_at(i)) : c \in cs}
            IN /\ deleted_ids' = deleted_ids \cup doomed
               /\ deleted_coordinates' = mark_coordinates_deleted(cs, created_at(i))
               /\ IF foreignIds \cup foreignCoordinates = {}
                  THEN Store(doomed \cup under, i)
                  ELSE Keep(discard_events(doomed \cup under))
    /\ UNCHANGED <<vanished_public_keys, now>>

\* A request to vanish takes the author's events and the gift wraps to the
\* author; the request itself is stored.
SaveVanish(i) ==
    /\ Refusal(i) = "None"
    /\ kind(i) = RequestToVanish /\ is_valid_vanish_request_for_relay(i)
    /\ vanished_public_keys' = vanished_public_keys \cup {pubkey(i)}
    /\ LET wraps == [AnyFilter EXCEPT !.kinds = {GiftWrap},
                                      !.tags = [n \in {"p"} |-> {pubkey(i)}]]
       IN Store(internal_query_by_author(pubkey(i), 0, MaxTime) \cup internal_generic_query(wraps), i)
    /\ UNCHANGED <<deleted_ids, deleted_coordinates, now>>

SaveRegular(i) ==
    /\ Refusal(i) = "None"
    /\ ~HasCoordinate(i) /\ kind(i) # EventDeletion
    /\ ~(kind(i) = RequestToVanish /\ is_valid_vanish_request_for_relay(i))
    /\ Store({}, i)
    /\ UNCHANGED <<tombstones, now>>

Save(i) == Refuse(i) \/ SaveVersion(i) \/ SaveDeletion(i) \/ SaveVanish(i) \/ SaveRegular(i)

-----------------------------------------------------------------------------

\* A filter without any condition clears the store, tombstones included.
clear ==
    /\ events' = {} /\ ids' = {}
    /\ author_index' = [a \in Author |-> {}]
    /\ kind_author_index' = [x \in KindAuthor |-> {}]
    /\ param_replaceable_index' = {}
    /\ deleted_ids' = {} /\ deleted_coordinates' = {} /\ vanished_public_keys' = {}
    /\ UNCHANGED now

Delete(f) ==
    \/ f = AnyFilter /\ clear
    \/ /\ f # AnyFilter
       /\ \E S \in query(f) : Keep(discard_events(S))
       /\ UNCHANGED <<tombstones, now>>

Wipe == clear

Tick == now < LastTime /\ now' = now + 1 /\ UNCHANGED <<store, tombstones>>

Next ==
    \/ \E i \in Id : Save(i)
    \/ \E f \in DeleteFilter : Delete(f)
    \/ Wipe \/ Tick
Spec == Init /\ [][Next]_vars

-----------------------------------------------------------------------------
(* Properties *)

\* The sorted set and the four maps name the same events, through evictions,
\* replacements and the two ways an event is taken out; there are never more
\* than max_events of them, nor two versions of a replaceable or addressable
\* event (discard_events, discard_event, internal_index_event).
MapsAgree ==
    /\ TypeOK
    /\ ids = events
    /\ author_index = [a \in Author |-> {i \in events : pubkey(i) = a}]
    /\ kind_author_index =
        [x \in KindAuthor |-> {i \in events : kind(i) = x[1] /\ pubkey(i) = x[2]}]
    /\ param_replaceable_index =
        {<<coordinate(i), i>> : i \in {j \in events : is_addressable(kind(j))}}
    /\ Capacity # 0 => Cardinality(events) <= Capacity
    /\ \A i, j \in events :
        HasCoordinate(i) /\ HasCoordinate(j) /\ coordinate(i) = coordinate(j) => i = j

\* No stored event contradicts a tombstone, and as long as a deletion is
\* stored no version of its coordinates up to its time is: "Update only if
\* newer" keeps the time of a coordinate when deletions arrive in any order.
\* A replaceable event with an identifier is not looked for by its coordinate,
\* which Coordinate::verify would not let through and the store does not ask.
TombstonesHold ==
    /\ events \cap deleted_ids = {}
    /\ \A i \in events : pubkey(i) \in vanished_public_keys => kind(i) = RequestToVanish
    /\ \A i, del \in events :
        /\ kind(del) = EventDeletion /\ HasCoordinate(i)
        /\ coordinate(i) \in coordinates(del)
        /\ is_replaceable(kind(i)) => coordinate(i).identifier = ""
        => created_at(i) > created_at(del)

\* Saving an event, accepted or refused, never takes out an event of another
\* author, but for an eviction, and the gift wraps of who vanishes
\* (the checks on the author in internal_index_event).
OfOthers(i) ==
    {j \in events \ events' :
        /\ pubkey(j) # pubkey(i)
        /\ ~(kind(i) = RequestToVanish /\ kind(j) = GiftWrap /\ pubkey(i) \in Event[j].tags["p"])}
OnlyOwnDeletes ==
    [][\A i \in Id : (events' # events /\ Save(i)) =>
            /\ i \notin events' => OfOthers(i) = {}
            /\ Cardinality(OfOthers(i)) <= 1
            /\ OfOthers(i) # {} => Cardinality(events) = Capacity]_events

\* Every plan of a query answers with the newest "limit" events that match,
\* although three of the four read a map instead of the sorted set.  The plan
\* for a coordinate is right when the filter names one identifier and no
\* other tag: it reads no more of the filter (QueryPattern, internal_query).
ReadWhole(f) ==
    (/\ IsSingle(f.authors) /\ IsSingle(f.kinds) /\ f.ids = {} /\ HasIdentifier(f)
     /\ is_addressable(The(f.kinds)))
        => DOMAIN f.tags = {"d"} /\ IsSingle(f.tags["d"])
QueriesAreRight ==
    \A f \in QueryFilter : ReadWhole(f) => query(f) = {Answer(events, f)}

-----------------------------------------------------------------------------
(* The inductive invariants behind the theorems of MemoryStoreProofs *)

\* An addressable event is stored under its identifier, or not at all.
MapsInv ==
    /\ MapsAgree /\ IsFiniteSet(events)
    /\ \A i \in events : is_addressable(kind(i)) => identifier(i) # {}

\* A coordinate has one time, which is not before any stored deletion of it.
TombstonesInv ==
    /\ TombstonesHold
    /\ \A x, y \in deleted_coordinates : x[2] \in Nat /\ (x[1] = y[1] => x[2] = y[2])
    /\ \A del \in events : \A c \in coordinates(del) :
        kind(del) = EventDeletion =>
            \E x \in deleted_coordinates : x[1] = c /\ x[2] >= created_at(del)
=============================================================================
