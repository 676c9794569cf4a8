----------------------------- MODULE LmdbTables -----------------------------
(* The tables of the LMDB event store as a value, and what one operation   *)
(* of the store makes of them inside a write transaction: saving an event  *)
(* with everything that follows from it (replacement, deletion, vanishing),*)
(* deleting by filter, wiping, re-indexing, and the plans of a query.      *)
(*                                                                         *)
(* An index table holds the ID of an event under a key made of attributes  *)
(* of that event; since the key is a function of the event, a table is the *)
(* set of the IDs it holds and a range of keys is a condition on them. Tag *)
(* values are taken to fit in a key (182 bytes).                           *)
EXTENDS NostrEvents

\* The events of this model have one "d" tag at most.
ASSUME OneIdentifier == \A i \in Id : Event[i].tags["d"] = identifier(i)

IndexTable == {"ci", "tc", "ac", "akc", "atc", "kc", "ktc"}

EmptyTables ==
    [events |-> {}, index |-> [t \in IndexTable |-> {}],
     deleted |-> {},       \* deleted_ids: confirmed deletions
     claims |-> {},        \* deleted_ids_by_author: <<id, author>>
     coordinates |-> {},   \* deleted_coordinates: <<coordinate, time>>
     vanished |-> {}]      \* vanished_public_keys

-----------------------------------------------------------------------------
(* Ranges of the index tables, newest first *)

InTime(i, since, until) == since <= created_at(i) /\ created_at(i) <= until
ci_iter(db, since, until) == {i \in db.index["ci"] : InTime(i, since, until)}
ac_iter(db, author, since, until) ==
    {i \in db.index["ac"] : pubkey(i) = author /\ InTime(i, since, until)}
kc_iter(db, k, since, until) ==
    {i \in db.index["kc"] : kind(i) = k /\ InTime(i, since, until)}
akc_iter(db, author, k, since, until) ==
    {i \in db.index["akc"] : /\ pubkey(i) = author /\ kind(i) = k
                             /\ InTime(i, since, until)}
tc_iter(db, name, value, since, until) ==
    {i \in db.index["tc"] : value \in Event[i].tags[name] /\ InTime(i, since, until)}
atc_iter(db, author, name, value, since, until) ==
    {i \in db.index["atc"] : /\ pubkey(i) = author /\ value \in Event[i].tags[name]
                             /\ InTime(i, since, until)}
ktc_iter(db, k, name, value, since, until) ==
    {i \in db.index["ktc"] : /\ kind(i) = k /\ value \in Event[i].tags[name]
                             /\ InTime(i, since, until)}

-----------------------------------------------------------------------------
(* Query plans.  A plan is a set of scans; the scans are made in the order  *)
(* in which hash sets of authors and kinds are iterated, which may be any.  *)

\* "idOrder": the scan is sorted by ID, not newest first.  "one": it ends at
\* its first hit.
Scan(ids, idOrder, one) == [ids |-> ids, idOrder |-> idOrder, one |-> one]

TagPairs(f) == UNION {{<<n, v>> : v \in f.tags[n]} : n \in DOMAIN f.tags}

query_by_authors_kinds_and_tags(db, f) ==
    {Scan(akc_iter(db, a, k, f.since, f.until)
            \cap atc_iter(db, a, p[1], p[2], f.since, f.until), TRUE, FALSE) :
        a \in f.authors, k \in f.kinds, p \in TagPairs(f)}
query_by_authors_and_kinds(db, f) ==
    {Scan(akc_iter(db, a, k, f.since, f.until), FALSE, is_replaceable(k)) :
        a \in f.authors, k \in f.kinds}
query_by_authors_and_tags(db, f) ==
    {Scan(atc_iter(db, a, p[1], p[2], f.since, f.until), FALSE, FALSE) :
        a \in f.authors, p \in TagPairs(f)}
query_by_kinds_and_tags(db, f) ==
    {Scan(ktc_iter(db, k, p[1], p[2], f.since, f.until), FALSE, FALSE) :
        k \in f.kinds, p \in TagPairs(f)}
query_by_tags(db, f) ==
    {Scan(tc_iter(db, p[1], p[2], f.since, f.until), FALSE, FALSE) : p \in TagPairs(f)}
query_by_authors(db, f) ==
    {Scan(ac_iter(db, a, f.since, f.until), FALSE, FALSE) : a \in f.authors}
query_by_kinds(db, f) ==
    {Scan(kc_iter(db, k, f.since, f.until), FALSE, FALSE) : k \in f.kinds}
query_by_scraping(db, f) == {Scan(ci_iter(db, f.since, f.until), FALSE, FALSE)}

\* The plan follows from what the filter restricts (QueryFilterPattern).
Plan(db, f) ==
    LET authors == f.authors # {}
        kinds == f.kinds # {}
        tags == DOMAIN f.tags # {}
    IN CASE authors /\ kinds /\ tags -> query_by_authors_kinds_and_tags(db, f)
         [] authors /\ kinds /\ ~tags -> query_by_authors_and_kinds(db, f)
         [] authors /\ ~kinds /\ tags -> query_by_authors_and_tags(db, f)
         [] ~authors /\ kinds /\ tags -> query_by_kinds_and_tags(db, f)
         [] ~authors /\ ~kinds /\ tags -> query_by_tags(db, f)
         [] authors /\ ~kinds /\ ~tags -> query_by_authors(db, f)
         [] ~authors /\ kinds /\ ~tags -> query_by_kinds(db, f)
         [] OTHER -> query_by_scraping(db, f)

\* Mutant: a scan that filled up moves "since" past its last event.
RunScan_SkipsTies(f, scan, acc) ==
    LET Precedes(i, j) == IF scan.idOrder THEN i < j ELSE Before(i, j)
        hits == {i \in scan.ids : created_at(i) >= acc.since /\ match_event(f, i)}
        n == IF scan.one \/ f.limit = 0 THEN 1 ELSE f.limit
        taken == IF n = NoLimit THEN hits ELSE FirstN(hits, Precedes, n)
        last == CHOOSE i \in taken : \A j \in taken : j = i \/ Precedes(j, i)
    IN [out |-> acc.out \cup taken,
        since |-> IF f.limit # NoLimit /\ taken # {} /\ Cardinality(taken) >= f.limit
                  THEN created_at(last) + 1 ELSE acc.since]

\* One scan: it stops at the first event older than "since", takes matches up
\* to the limit, and a scan that reached the limit moves "since" forward to
\* its last event, for the scans that follow.
RunScan(f, scan, acc) ==
    LET Precedes(i, j) == IF scan.idOrder THEN i < j ELSE Before(i, j)
        live == {i \in scan.ids :
                    \A j \in scan.ids : (j = i \/ Precedes(j, i)) => created_at(j) >= acc.since}
        hits == {i \in live : match_event(f, i)}
        atLeastOne == IF f.limit = 0 THEN 1 ELSE f.limit
        taken == IF scan.one THEN FirstN(hits, Precedes, 1)
                 ELSE IF f.limit = NoLimit THEN hits
                 ELSE FirstN(hits, Precedes, atLeastOne)
        last == CHOOSE i \in taken : \A j \in taken : j = i \/ Precedes(j, i)
    IN [out |-> acc.out \cup taken,
        since |-> IF /\ f.limit # NoLimit
                     /\ taken # {} /\ Cardinality(taken) >= f.limit
                     /\ created_at(last) > acc.since
                  THEN created_at(last) ELSE acc.since]

Orders(S) == {o \in [1 .. Cardinality(S) -> S] : {o[n] : n \in DOMAIN o} = S}

RunPlan(f, order, n) ==
    LET run[m \in 0 .. n] == IF m = 0 THEN [out |-> {}, since |-> f.since]
                             ELSE RunScan(f, order[m], run[m - 1])
    IN run[n].out

\* Every answer "query" may give.  By IDs, it stops at the limit in the order
\* of a hash set.
query(db, f) ==
    IF f.ids # {}
    THEN LET hits == {i \in db.events \cap f.ids : match_event(f, i)}
         IN IF f.limit = NoLimit \/ Cardinality(hits) <= f.limit THEN {hits}
            ELSE {S \in SUBSET hits : Cardinality(S) = f.limit}
    ELSE LET plan == Plan(db, f)
         IN {Newest(RunPlan(f, o, Cardinality(plan)), f.limit) : o \in Orders(plan)}

\* count: from the length of the creation index when the filter has no more
\* than a limit, by a range of it when it has only times, else by a query.
count(db, f) ==
    LET least(a, b) == IF f.limit = NoLimit \/ a <= b THEN a ELSE b
    IN IF f.ids = {} /\ f.authors = {} /\ f.kinds = {} /\ DOMAIN f.tags = {}
       THEN IF f.since = 0 /\ f.until = MaxTime
            THEN {least(Cardinality(db.index["ci"]), f.limit)}
            ELSE {least(Cardinality(ci_iter(db, f.since, f.until)), f.limit)}
       ELSE {Cardinality(S) : S \in query(db, f)}

\* Negentropy takes the result of a query without what has expired.
negentropy_items(db, f, now) == {{i \in S : ~is_expired_at(i, now)} : S \in query(db, f)}
check_id(db, i) ==
    IF i \in db.deleted THEN "Deleted" ELSE IF i \in db.events THEN "Saved" ELSE "NotExistent"

-----------------------------------------------------------------------------
(* Writes *)

store(db, i) ==
    [db EXCEPT !.events = @ \cup {i},
               !.index = [t \in IndexTable |-> @[t] \cup {i}]]

\* Mutant: the kind index is forgotten.
remove_KeepsKind(db, S) ==
    [db EXCEPT !.events = @ \ S,
               !.index = [t \in IndexTable |-> IF t = "kc" THEN @[t] ELSE @[t] \ S]]

remove(db, S) ==
    [db EXCEPT !.events = @ \ S,
               !.index = [t \in IndexTable |-> @[t] \ S]]

\* Everything but the events and the metadata is an "index", tombstones too.
wipe_indexes(db) == [EmptyTables EXCEPT !.events = db.events]
wipe(db) == EmptyTables

reindex(db) ==
    [wipe_indexes(db) EXCEPT !.index = [t \in IndexTable |-> db.events]]

\* v1 had no kind index; v2 did not remember the IDs that a deletion names
\* before they arrive.
migrate_v1_to_v2(db) == [db EXCEPT !.index["kc"] = @ \cup db.events]
migrate_v2_to_v3(db) ==
    [db EXCEPT !.claims = @ \cup UNION {
        {<<id, pubkey(i)>> : id \in event_ids(i) \ db.deleted} :
            i \in {j \in db.events : kind(j) = EventDeletion}}]

\* The events under a coordinate up to a time.  The range by author and tag
\* does not have the kind, which is compared apart.
UnderCoordinate(db, c, until) ==
    IF is_replaceable(c.kind) THEN akc_iter(db, c.pubkey, c.kind, 0, until)
    ELSE IF is_addressable(c.kind)
    THEN {i \in atc_iter(db, c.pubkey, "d", c.identifier, 0, until) : kind(i) = c.kind}
    ELSE {}

\* The version an incoming event competes with: the first of the range.  An
\* addressable event without identifier competes with none.
Stored(db, i) ==
    LET range == IF is_replaceable(kind(i)) \/ (is_addressable(kind(i)) /\ identifier(i) # {})
                 THEN UnderCoordinate(db, coordinate(i), MaxTime) ELSE {}
    IN NewestN(range, 1)

remove_replaced(db, i) ==
    IF is_replaceable(kind(i)) /\ Stored(db, i) # {}
    THEN remove(db, UnderCoordinate(db, coordinate(i), created_at(i)))
    ELSE IF Stored(db, i) # {} THEN remove(db, UnderCoordinate(db, coordinate(i), MaxTime))
    ELSE db

\* A deletion is refused before anything is written when it names the
\* coordinate, or a stored event, of somebody else.
IsForeign(db, del) ==
    \/ \E c \in coordinates(del) : c.pubkey # pubkey(del)
    \/ \E i \in db.events \cap event_ids(del) : pubkey(i) # pubkey(del)

mark_coordinates_deleted(old, del) ==
    {x \in old : x[1] \notin coordinates(del)}
        \cup {<<c, created_at(del)>> : c \in coordinates(del)}

handle_deletion_event(db, del) ==
    LET known == db.events \cap event_ids(del)
        under == UNION {UnderCoordinate(db, c, created_at(del)) : c \in coordinates(del)}
    IN [remove(db, known \cup under) EXCEPT
            !.deleted = @ \cup known,
            !.claims = @ \cup {<<id, pubkey(del)>> : id \in event_ids(del) \ known},
            !.coordinates = mark_coordinates_deleted(@, del)]

\* Mutant: what is stored of the author stays.
handle_request_to_vanish_OnlyMarks(db, author) == [db EXCEPT !.vanished = @ \cup {author}]

handle_request_to_vanish(db, author) ==
    [remove(db, ac_iter(db, author, 0, MaxTime)
                    \cup ktc_iter(db, GiftWrap, "p", author, 0, MaxTime))
        EXCEPT !.vanished = @ \cup {author}]

IsValidVanish(i) == kind(i) = RequestToVanish /\ is_valid_vanish_request_for_relay(i)

\* Why an event is refused, in the order the reasons are looked for.
is_coordinate_deleted(db, i) ==
    /\ HasCoordinate(i)
    /\ \E x \in db.coordinates : x[1] = coordinate(i) /\ created_at(i) <= x[2]
is_claimed(db, i) == kind(i) # EventDeletion /\ <<i, pubkey(i)>> \in db.claims
Verdict(db, i) ==
    CASE is_ephemeral(kind(i)) -> "Ephemeral"
      [] ~is_ephemeral(kind(i)) /\ i \in db.events -> "Duplicate"
      [] OTHER ->
         IF i \in db.deleted \/ is_claimed(db, i) THEN "Deleted"
         ELSE IF pubkey(i) \in db.vanished THEN "Vanished"
         ELSE IF is_coordinate_deleted(db, i) THEN "Deleted"
         ELSE IF \E s \in Stored(db, i) : has_event_been_replaced(s, i) THEN "Replaced"
         ELSE IF kind(i) = EventDeletion /\ IsForeign(db, i) THEN "InvalidDelete"
         ELSE "Success"

\* What the accepted event does to the others, before it is stored itself.
Effects(db, i) ==
    IF kind(i) = EventDeletion THEN handle_deletion_event(db, i)
    ELSE IF IsValidVanish(i) THEN handle_request_to_vanish(db, pubkey(i))
    ELSE remove_replaced(db, i)

\* A claim is confirmed when its event arrives; other refusals write nothing.
save_event_with_txn(db, i) ==
    IF Verdict(db, i) = "Success" THEN store(Effects(db, i), i)
    ELSE IF Verdict(db, i) = "Deleted" /\ i \notin db.deleted /\ is_claimed(db, i)
    THEN [db EXCEPT !.deleted = @ \cup {i}]
    ELSE db

=============================================================================
