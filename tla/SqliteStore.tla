----------------------------- MODULE SqliteStore -----------------------------
(* The SQLite event store (database/nostr-sqlite): one connection under a  *)
(* mutex, five tables, and statements whose rules are in the schema.       *)
(*                                                                         *)
(* An operation has the connection to itself, and the save of an event is  *)
(* one transaction: it is one step, and a stop of the program, an error or *)
(* an early return leaves nothing of it.  A wipe is not: its statements    *)
(* commit one by one.  A call whose caller gives up has either not begun   *)
(* or runs to its end.  The text search is left out.                       *)
EXTENDS NostrEvents

CONSTANTS
    File,           \* the files that may be opened: their version and tables
    DeleteFilter,   \* the filters callers delete by
    QueryFilter,    \* the filters callers query by
    EVENTS_QUERY_LIMIT, \* the limit of a query that has none of its own
    process_nip09, process_nip62

ASSUME OptionsAssumption ==
    /\ {process_nip09, process_nip62} \subseteq BOOLEAN
    /\ EVENTS_QUERY_LIMIT \in Nat \ {0}

VARIABLES
    version,    \* user_version of the file
    opened,
    db,         \* the tables
    wiping      \* statements of a wipe that have been executed

sqliteVars == <<version, opened, db, wiping>>

DB_VERSION == 2

\* A time in a column or a parameter: "as_secs() as i64", where MaxTime stands
\* for the largest u64.
MaxSecs == MaxTime \div 2
as_i64(time) == IF time <= MaxSecs THEN time ELSE time - (MaxTime + 1)

\* The "until" of a filter without one.
NoUntil == MaxTime + 1

\* The rows of "event_tags": event, name, value.
extract_tags(i) ==
    (UNION {{<<i, n, v>> : v \in Event[i].tags[n]} : n \in DOMAIN Event[i].tags})
    \cup {<<i, "e", j>> : j \in event_ids(i)} \cup {<<i, "a", c>> : c \in coordinates(i)}

Tables(S) == [events |-> S, event_tags |-> UNION {extract_tags(i) : i \in S},
              deleted_ids |-> {}, deleted_coordinates |-> {}, vanished_public_keys |-> {}]

SqliteTypeOK ==
    /\ version \in 0 .. DB_VERSION /\ opened \in BOOLEAN
    /\ wiping \in 0 .. 3

SqliteInit ==
    /\ \E file \in File : version = file.version /\ db = file.tables
    /\ opened = FALSE
    /\ wiping = 0

-----------------------------------------------------------------------------
(* Statements *)

\* DELETE FROM events without "ON DELETE CASCADE", were foreign_keys off.
DeleteEvents_NoCascade(t, S) == [t EXCEPT !.events = @ \ S]

\* DELETE FROM events; the rows of their tags go with them.
DeleteEvents(t, S) ==
    [t EXCEPT !.events = @ \ S, !.event_tags = {row \in @ : row[1] \notin S}]

HasTag(t, name, value) == {i \in t.events : <<i, name, value>> \in t.event_tags}

\* INSERT OR IGNORE INTO deleted_coordinates: the coordinate is the key, so the
\* time of the first deletion stays; CHECK (deleted_at > 0).
mark_coordinates_deleted(t, S, time) ==
    LET known == {row[1] : row \in t.deleted_coordinates}
    IN  [t EXCEPT !.deleted_coordinates =
           @ \cup (IF time > 0 THEN {<<c, time>> : c \in S \ known} ELSE {})]

\* remove_replaceable and remove_addressable, as queries.
UnderCoordinate(t, c, until) ==
    {i \in t.events :
        /\ pubkey(i) = c.pubkey /\ kind(i) = c.kind /\ created_at(i) <= until
        /\ \/ is_replaceable(c.kind)
           \/ is_addressable(c.kind) /\ i \in HasTag(t, "d", c.identifier)}

\* The stored version of an event, if any: LIMIT 1, in no order.  Any "d" tag of
\* a stored event may be the identifier of the new one.
Versions(t, i) ==
    {v \in t.events :
        /\ pubkey(v) = pubkey(i) /\ kind(v) = kind(i)
        /\ \/ is_replaceable(kind(i))
           \/ is_addressable(kind(i)) /\ \E d \in identifier(i) : v \in HasTag(t, "d", d)}

-----------------------------------------------------------------------------
(* Opening *)

\* The pragmas and the migrations, in one transaction; a newer file is refused.
\* Version 2 adds the table of public keys that vanished.
OpenFile ==
    /\ ~opened
    /\ opened' = TRUE
    /\ version' = DB_VERSION
    /\ UNCHANGED <<db, wiping>>

\* The program stops, or the disk fails it: a wipe stays where it is.
Stop ==
    /\ opened
    /\ opened' = FALSE
    /\ wiping' = 0
    /\ UNCHANGED <<version, db>>

Ready == opened /\ wiping = 0

-----------------------------------------------------------------------------
(* save_event_sync *)

Refusal(i) ==
    IF is_ephemeral(kind(i)) THEN "Ephemeral"
    ELSE IF i \in db.events THEN "Duplicate"
    ELSE IF i \in db.deleted_ids THEN "Deleted"
    ELSE IF pubkey(i) \in db.vanished_public_keys THEN "Vanished"
    ELSE IF HasCoordinate(i) /\ \E row \in db.deleted_coordinates :
                row[1] = coordinate(i) /\ created_at(i) <= row[2] THEN "Deleted"
    ELSE "None"

\* The event is inserted and the transaction commits; CHECK (created_at > 0).
Insert(t, i) ==
    db' = IF as_i64(created_at(i)) > 0
          THEN [t EXCEPT !.events = @ \cup {i}, !.event_tags = @ \cup extract_tags(i)]
          ELSE db

Unhandled(i) == /\ ~(process_nip09 /\ kind(i) = EventDeletion)
                /\ ~(process_nip62 /\ kind(i) = RequestToVanish /\ is_valid_vanish_request_for_relay(i))

Refuse(i) == Refusal(i) # "None" /\ UNCHANGED db

SaveFirst(i) ==
    /\ Refusal(i) = "None" /\ Versions(db, i) = {} /\ Unhandled(i)
    /\ Insert(db, i)

\* has_event_been_replaced of this store.
IsReplaced(v, i) ==
    \/ created_at(v) > as_i64(created_at(i))
    \/ created_at(v) = as_i64(created_at(i)) /\ v < i

SaveVersion(i) ==
    /\ Refusal(i) = "None"
    /\ \E v \in Versions(db, i) :
          IF IsReplaced(v, i) THEN UNCHANGED db
          ELSE Insert(DeleteEvents(db, {v}), i)

\* handle_deletion_event; what is not stored is not marked.
Deleted(t, i) ==
    LET named  == event_ids(i) \cap t.events
        time   == as_i64(created_at(i))
        marked == mark_coordinates_deleted(
                    DeleteEvents([t EXCEPT !.deleted_ids = @ \cup named], named), coordinates(i), time)
    IN  DeleteEvents(marked, UNION {UnderCoordinate(marked, c, time) : c \in coordinates(i)})

\* It names an event or a coordinate of somebody else.
IsInvalid(i) ==
    \/ \E j \in event_ids(i) \cap db.events : pubkey(j) # pubkey(i)
    \/ \E c \in coordinates(i) : c.pubkey # pubkey(i)

\* Mutant: what an invalid deletion names of its author's goes nevertheless.
SaveDeletion_Commits(i) ==
    /\ Refusal(i) = "None" /\ process_nip09 /\ kind(i) = EventDeletion
    /\ IF IsInvalid(i) THEN db' = DeleteEvents(db, {j \in event_ids(i) : pubkey(j) = pubkey(i)})
       ELSE Insert(Deleted(db, i), i)

\* An invalid deletion is rolled back, wherever the loops had come to.
SaveDeletion(i) ==
    /\ Refusal(i) = "None" /\ process_nip09 /\ kind(i) = EventDeletion
    /\ IF IsInvalid(i) THEN UNCHANGED db ELSE Insert(Deleted(db, i), i)

\* handle_request_to_vanish: the author's events and the gift wraps to the
\* author go; the request is stored after them.
SaveVanish(i) ==
    /\ Refusal(i) = "None" /\ process_nip62
    /\ kind(i) = RequestToVanish /\ is_valid_vanish_request_for_relay(i)
    /\ LET own   == {j \in db.events : pubkey(j) = pubkey(i)}
           wraps == {j \in HasTag(db, "p", pubkey(i)) : kind(j) = GiftWrap}
       IN  Insert(DeleteEvents([db EXCEPT !.vanished_public_keys = @ \cup {pubkey(i)}], own \cup wraps), i)

save_event_sync(i) ==
    /\ Ready
    /\ Refuse(i) \/ SaveFirst(i) \/ SaveVersion(i) \/ SaveDeletion(i) \/ SaveVanish(i)
    /\ UNCHANGED <<version, opened, wiping>>

-----------------------------------------------------------------------------
(* The other operations *)

\* The conditions on the columns of "events".
Columns(f) ==
    [f EXCEPT !.tags = AnyFilter.tags, !.since = as_i64(@),
              !.until = IF @ = NoUntil THEN NoUntil ELSE as_i64(@)]

\* build_filter.  A filter that names tags joins "event_tags", so that an event
\* has to have a row there; a name without values is no condition.
Matching(f) ==
    {i \in db.events :
        /\ match_event(Columns(f), i)
        /\ DOMAIN f.tags # {} => \E row \in db.event_tags : row[1] = i
        /\ \A n \in DOMAIN f.tags :
              f.tags[n] # {} => \E v \in f.tags[n] : i \in HasTag(db, n, v)}

with_limit(f) == IF f.limit = NoLimit THEN EVENTS_QUERY_LIMIT ELSE f.limit

\* ORDER BY created_at DESC LIMIT: among events of one second, any.
query(f) ==
    LET found == Matching(f)
    IN  IF Cardinality(found) <= with_limit(f) THEN {found}
        ELSE {S \in SUBSET found :
                /\ Cardinality(S) = with_limit(f)
                /\ \A i \in S, j \in found \ S : created_at(i) >= created_at(j)}

\* The limit applies to the one row of the result, not to what is counted; with
\* a limit of 0 there is no row, and the call fails.
count(f) == IF with_limit(f) = 0 THEN {} ELSE {Cardinality(Matching(f))}

negentropy_items(f, now) == {{i \in S : ~is_expired_at(i, now)} : S \in query(f)}

check_id(i) == IF i \in db.deleted_ids THEN "Deleted"
               ELSE IF i \in db.events THEN "Saved" ELSE "NotExistent"

\* The limit of the filter is not part of the statement.
Delete(f) ==
    /\ Ready
    /\ db' = DeleteEvents(db, Matching(f))
    /\ UNCHANGED <<version, opened, wiping>>

\* The statements of a wipe: the events, the deleted IDs, the coordinates, and
\* VACUUM.  The public keys that vanished stay.
Wipe ==
    /\ opened
    /\ wiping' = (wiping + 1) % 4
    /\ db' = CASE wiping = 0 -> DeleteEvents(db, db.events)
               [] wiping = 1 -> [db EXCEPT !.deleted_ids = {}]
               [] wiping = 2 -> [db EXCEPT !.deleted_coordinates = {}]
               [] OTHER -> db
    /\ UNCHANGED <<version, opened>>

SqliteNext ==
    \/ OpenFile \/ Stop \/ Wipe
    \/ \E i \in Id : save_event_sync(i)
    \/ \E f \in DeleteFilter : Delete(f)

SqliteSpec == SqliteInit /\ [][SqliteNext]_sqliteVars

-----------------------------------------------------------------------------
(* Properties *)

\* A filter that SQL reads as match_event does: no name of a tag without values,
\* and times that an i64 can hold.
Plain(f) ==
    /\ \A n \in DOMAIN f.tags : f.tags[n] # {}
    /\ f.since <= MaxSecs /\ (f.until <= MaxSecs \/ f.until = NoUntil)

(* What a query by a plain filter returns matches it on the events           *)
(* themselves, not on the tags table; nothing newer is left out, and nothing *)
(* at all unless the limit, or EVENTS_QUERY_LIMIT, is reached; what count    *)
(* returns does not depend on the limit.                                     *)
AnswersRight(f) ==
    LET matching == {i \in db.events : match_event(f, i)}
    IN  /\ \A S \in query(f) :
              /\ S \subseteq matching
              /\ Cardinality(S) = Cardinality(NewestN(matching, with_limit(f)))
              /\ \A i \in S, j \in matching \ S : created_at(i) >= created_at(j)
        /\ \A n \in count(f) : n = Cardinality(matching)

\* A deletion of its coordinate finds the event.
Found(i) == is_replaceable(kind(i)) \/ (is_addressable(kind(i)) /\ identifier(i) # {})

\* No event of the author and the kind has the identifier in another "d" tag
\* than its first.  Where one has, a new version may find, and take out, that
\* event instead of the version it replaces (LIMIT 1), and two stay.
Sole(j) ==
    is_addressable(kind(j)) =>
        \A i \in Id :
            /\ pubkey(i) = pubkey(j) /\ kind(i) = kind(j)
            /\ identifier(j) \subseteq Event[i].tags["d"]
            => identifier(i) = identifier(j)

(* What the tables keep, in a file too: tags belong to stored events, to all *)
(* of them (the cascade); one version of each sole coordinate is stored, not *)
(* one from before the deletion that its row tells of; nothing that was      *)
(* deleted by its ID, and of who vanished only what asked for it.            *)
Whole(t) ==
    /\ t = [events |-> t.events, event_tags |-> t.event_tags, deleted_ids |-> t.deleted_ids,
            deleted_coordinates |-> t.deleted_coordinates, vanished_public_keys |-> t.vanished_public_keys]
    /\ t.events \subseteq Id /\ IsFiniteSet(t.events) /\ t.deleted_ids \subseteq Id
    /\ t.vanished_public_keys \subseteq {pubkey(i) : i \in Id}
    /\ t.event_tags = UNION {extract_tags(i) : i \in t.events}
    /\ \A i, j \in t.events : i \in Versions(t, j) /\ Sole(j) => i = j
    /\ \A row \in t.deleted_coordinates :
          /\ row[2] \in Nat
          /\ \A i \in t.events : row[1] = coordinate(i) /\ Found(i) => created_at(i) > row[2]
    /\ t.events \cap t.deleted_ids = {}
    /\ \A i \in t.events : pubkey(i) \in t.vanished_public_keys => kind(i) = RequestToVanish

\* A file has the tables of an earlier run.  An event has a set of values, it
\* may be empty, for each name of a tag that is asked for ("e" and "a" are kept
\* apart, and not asked for); limits are unsigned.
ASSUME FileAssumption == \A file \in File : file.version \in 0 .. DB_VERSION /\ Whole(file.tables)
ASSUME FilterAssumption ==
    /\ \A i \in Id : {"d", "p"} \subseteq DOMAIN Event[i].tags /\ {"e", "a"} \cap DOMAIN Event[i].tags = {}
    /\ \A f \in QueryFilter :
        /\ f = [ids |-> f.ids, authors |-> f.authors, kinds |-> f.kinds, tags |-> f.tags,
                since |-> f.since, until |-> f.until, limit |-> f.limit]
        /\ f.limit \in Nat \cup {NoLimit} /\ f.since \in 0 .. MaxTime /\ f.until \in 0 .. NoUntil
        /\ \A i \in Id : DOMAIN f.tags \subseteq DOMAIN Event[i].tags

(* The five tables go together in every order of saves, deletions, vanishing *)
(* and wipes that stop halfway, and every statement that reads them answers  *)
(* rightly.                                                                  *)
TablesAgree ==
    /\ SqliteTypeOK /\ Whole(db)
    /\ \A i \in Id : check_id(i) = "Saved" <=> i \in db.events
    /\ \A f \in QueryFilter : Plain(f) => AnswersRight(f)

(* A save that is refused, at whatever statement, changes nothing ("Event    *)
(* has not been inserted, rollback transaction"), and one that is accepted   *)
(* takes out nothing of another author but the gift wraps of who vanishes.   *)
OnlyOwnDeletes ==
    [][\A i \in Id : save_event_sync(i) =>
        /\ i \notin db'.events \/ i \in db.events => UNCHANGED db
        /\ \A j \in db.events \ db'.events :
              \/ pubkey(j) = pubkey(i)
              \/ kind(i) = RequestToVanish /\ kind(j) = GiftWrap /\ pubkey(i) \in Event[j].tags["p"]]_sqliteVars

(* "Reject event if ADDR was deleted after it's created_at date": as long as *)
(* a deletion is stored, nothing is that it names by a coordinate and that   *)
(* is not newer.  An older deletion that came first keeps its time, so that  *)
(* this does not hold.                                                       *)
StoredDeletionsHold ==
    \A del \in {i \in db.events : kind(i) = EventDeletion} : \A i \in db.events :
        (HasCoordinate(i) /\ identifier(i) # {} /\ coordinate(i) \in coordinates(del))
            => created_at(i) > created_at(del)
=============================================================================
