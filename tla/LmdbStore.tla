------------------------------ MODULE LmdbStore ------------------------------
(* The LMDB event store at work: callers hand requests to an unbounded     *)
(* channel; the ingester thread takes all that waits as one batch, makes   *)
(* the operations in one write transaction, commits it, and answers the    *)
(* callers.  A write transaction may fail to begin, an operation may fail  *)
(* in it, and the commit may fail.  The process may stop at any step; what *)
(* LMDB committed stays, and the next start upgrades an old schema.        *)
EXTENDS LmdbTables, Sequences

CONSTANTS
    Caller,      \* tasks that use a handle of the store
    DeleteFilter,\* the filters callers delete by
    QueryFilter, \* the filters callers query and count by
    File,        \* the files on disk before the first start: [db, version, calls],
                 \* with the calls of MaxCalls that count as made
    Legacy,      \* the events such a file of an older version may hold
    MaxCalls,    \* bound on the requests made
    MaxStops     \* bound on the stops of the process

VARIABLES
    db,      \* the committed tables
    version, \* the schema version in the metadata table
    running, \* the store is open
    queue,   \* the channel: requests <<caller, operation>>
    phase,   \* of the ingester: waits for a request, in a batch, answering
    batch,   \* the requests of the batch still to be made
    txn,     \* the write transaction: its tables, and whether LMDB broke it
    results, \* what was made: [caller, op, answer], in order
    waiting, \* callers that await their answer
    gone,    \* callers that were dropped while they waited
    calls, stops
vars == <<db, version, running, queue, phase, batch, txn, results, waiting, gone, calls, stops>>
ingester == <<phase, batch, txn, results>>
disk == <<db, version>>

DB_VERSION == 3

Save(i) == [type |-> "Save", event |-> i]
Delete(f) == [type |-> "Delete", filter |-> f]
Reindex == [type |-> "Reindex"]
Wipe == [type |-> "Wipe"]
Operation == {Save(i) : i \in Id} \cup {Delete(f) : f \in DeleteFilter} \cup {Reindex, Wipe}

\* An error of the database or of the batch; the code tells them apart by
\* their wording only.
Err == "Err"

\* What an operation that does not fail makes of the tables, and its answer.
Outcomes(op, tables) ==
    CASE op.type = "Save" -> {<<save_event_with_txn(tables, op.event), Verdict(tables, op.event)>>}
      [] op.type = "Delete" -> {<<remove(tables, S), "Ok">> : S \in query(tables, op.filter)}
      [] op.type = "Reindex" -> {<<reindex(tables), "Ok">>}
      [] op.type = "Wipe" -> {<<wipe(tables), "Ok">>}

NoTxn == [db |-> EmptyTables, broken |-> FALSE]

TypeOK ==
    /\ db.events \subseteq Id /\ db.index \in [IndexTable -> SUBSET Id]
    /\ db.deleted \subseteq Id /\ version \in Nat /\ running \in BOOLEAN
    /\ phase \in {"idle", "batch", "answer"} /\ txn.broken \in BOOLEAN
    /\ \A n \in DOMAIN queue : queue[n][1] \in Caller /\ queue[n][2] \in Operation
    /\ \A n \in DOMAIN batch : batch[n][1] \in Caller /\ batch[n][2] \in Operation
    /\ \A n \in DOMAIN results : results[n].caller \in Caller /\ results[n].op \in Operation
    /\ waiting \subseteq Caller /\ gone \subseteq Caller
    /\ calls \in 0 .. MaxCalls /\ stops \in 0 .. MaxStops

Init ==
    /\ \E f \in File : db = f.db /\ version = f.version /\ calls = f.calls
    /\ running = FALSE
    /\ queue = <<>> /\ phase = "idle" /\ batch = <<>> /\ txn = NoTxn /\ results = <<>>
    /\ waiting = {} /\ gone = {} /\ stops = 0

-----------------------------------------------------------------------------
(* Opening, and callers *)

migrate(tables, v) ==
    migrate_v2_to_v3(IF v < 2 THEN migrate_v1_to_v2(tables) ELSE tables)

\* One transaction upgrades the tables and the version; a newer version is
\* refused and nothing runs.
Open ==
    /\ ~running /\ version <= DB_VERSION
    /\ running' = TRUE
    /\ db' = IF version < DB_VERSION THEN migrate(db, version) ELSE db
    /\ version' = DB_VERSION
    /\ UNCHANGED <<queue, ingester, waiting, gone, calls, stops>>

\* save_event, delete, reindex, wipe: the request is queued and awaited.
Call(c, op) ==
    /\ running /\ c \notin waiting \cup gone /\ calls < MaxCalls
    /\ queue' = Append(queue, <<c, op>>)
    /\ waiting' = waiting \cup {c}
    /\ calls' = calls + 1
    /\ UNCHANGED <<disk, running, ingester, gone, stops>>

\* The future of a caller is dropped; its request stays in the channel.
Drop(c) ==
    /\ c \in waiting
    /\ waiting' = waiting \ {c} /\ gone' = gone \cup {c}
    /\ UNCHANGED <<disk, running, queue, ingester, calls, stops>>

-----------------------------------------------------------------------------
(* The ingester thread *)

result(req, answer) == [caller |-> req[1], op |-> req[2], answer |-> answer]

\* Mutant: those made before the failure are still told of their success.
AllFailed_Kept(rs) == rs

AllFailed(rs) == [n \in DOMAIN rs |-> [rs[n] EXCEPT !.answer = Err]]

\* Mutant: of the requests that were not reached only the first is answered.
FailedResults_Forgotten(reqs) == IF reqs = <<>> THEN <<>> ELSE <<result(reqs[1], Err)>>

FailedResults(reqs) == [n \in DOMAIN reqs |-> result(reqs[n], Err)]

\* recv of the first request, and the rest of the channel with it.
BeginBatch ==
    /\ running /\ phase = "idle" /\ queue # <<>>
    /\ queue' = <<>>
    /\ \/ /\ phase' = "batch" /\ batch' = queue
          /\ txn' = [db |-> db, broken |-> FALSE]
          /\ UNCHANGED results
       \/ \* the write transaction cannot begin
          /\ phase' = "answer" /\ results' = FailedResults(queue)
          /\ UNCHANGED <<batch, txn>>
    /\ UNCHANGED <<disk, running, waiting, gone, calls, stops>>

ProcessOperation ==
    /\ phase = "batch" /\ batch # <<>> /\ ~txn.broken
    /\ \E o \in Outcomes(Head(batch)[2], txn.db) :
        /\ txn' = [txn EXCEPT !.db = o[1]]
        /\ results' = Append(results, result(Head(batch), o[2]))
    /\ batch' = Tail(batch)
    /\ UNCHANGED <<disk, running, queue, phase, waiting, gone, calls, stops>>

\* A save or a delete that fails ends the batch: what was made before is
\* marked as failed, what remains is failed, and the transaction is aborted.
AbortBatch ==
    /\ phase = "batch" /\ batch # <<>>
    /\ Head(batch)[2].type \in {"Save", "Delete"}
    /\ results' = AllFailed(results) \o FailedResults(batch)
    /\ batch' = <<>> /\ txn' = NoTxn /\ phase' = "answer"
    /\ UNCHANGED <<disk, running, queue, waiting, gone, calls, stops>>

\* A reindex or a wipe that fails does not; but an error in the middle of
\* its writes leaves the transaction unusable (an LMDB transaction in which a
\* write failed refuses every later operation, and its commit).
FailedMaintenance ==
    /\ phase = "batch" /\ batch # <<>>
    /\ Head(batch)[2].type \in {"Reindex", "Wipe"}
    /\ results' = Append(results, result(Head(batch), Err))
    /\ batch' = Tail(batch) /\ txn' = [txn EXCEPT !.broken = TRUE]
    /\ UNCHANGED <<disk, running, queue, phase, waiting, gone, calls, stops>>

Commit ==
    /\ phase = "batch" /\ batch = <<>>
    /\ \/ ~txn.broken /\ db' = txn.db /\ UNCHANGED results
       \/ results' = AllFailed(results) /\ UNCHANGED db
    /\ phase' = "answer" /\ txn' = NoTxn
    /\ UNCHANGED <<version, running, queue, batch, waiting, gone, calls, stops>>

\* One answer is sent; nobody receives it when the caller is gone.
Answer1 ==
    /\ phase = "answer"
    /\ results' = Tail(results)
    /\ waiting' = waiting \ {Head(results).caller}
    /\ phase' = IF Len(results) = 1 THEN "idle" ELSE "answer"
    /\ UNCHANGED <<disk, running, queue, batch, txn, gone, calls, stops>>

\* The process stops: the channel, the batch and the callers are lost.
Stop ==
    /\ running /\ stops < MaxStops
    /\ running' = FALSE /\ stops' = stops + 1
    /\ queue' = <<>> /\ phase' = "idle" /\ batch' = <<>> /\ txn' = NoTxn /\ results' = <<>>
    /\ waiting' = {} /\ gone' = {}
    /\ UNCHANGED <<disk, calls>>

Ingest == BeginBatch \/ ProcessOperation \/ AbortBatch \/ FailedMaintenance \/ Commit \/ Answer1
Next ==
    \/ Open \/ Stop \/ Ingest
    \/ \E c \in Caller : Drop(c) \/ \E op \in Operation : Call(c, op)

\* The ingester thread is scheduled as long as it has something to do.
Spec == Init /\ [][Next]_vars /\ WF_vars(Ingest)

-----------------------------------------------------------------------------
(* Properties *)

\* At most one version of a replaceable or addressable event is stored,
\* whatever the order in which versions, their deletions and maintenance
\* arrive (remove_replaceable, remove_addressable; the plan for authors and
\* kinds relies on it).
SameAddress(i, j) ==
    /\ kind(i) = kind(j) /\ pubkey(i) = pubkey(j)
    /\ \/ is_replaceable(kind(i))
       \/ is_addressable(kind(i)) /\ identifier(i) # {} /\ identifier(i) = identifier(j)
OneVersion(tables) == \A i, j \in tables.events : SameAddress(i, j) => i = j

\* Whatever reads the tables sees whole events: every index table names
\* exactly the events that are stored, in the committed tables of an open
\* store and inside the transaction, although one step of the code writes
\* eight tables and the kind index of an old file is missing (store, remove,
\* reindex, migrate_v1_to_v2).  What is stored is one version of each event.
Consistent(tables) == \A t \in IndexTable : tables.index[t] = tables.events
IndexesAgree == TypeOK /\ (running => Consistent(db)) /\ Consistent(txn.db) /\ OneVersion(db)

\* What the tombstones of a store say of its events.
HoldIn(tables) ==
    /\ tables.events \cap tables.deleted = {}
    /\ \A i \in tables.events \ Legacy : ~is_claimed(tables, i)
    /\ \A i \in tables.events : pubkey(i) \in tables.vanished => IsValidVanish(i)
    /\ \A i \in tables.events :
        is_coordinate_deleted(tables, i) => is_addressable(kind(i)) /\ identifier(i) = {}

\* No stored event contradicts a tombstone: not deleted by ID, not claimed by
\* its author's deletion before it arrived (but for what an older version
\* stored), not under a coordinate deleted since, and not by a vanished
\* author, whose request alone is kept.
TombstonesHold == HoldIn(db)

\* As long as a deletion is stored, no version of the coordinates it names up
\* to its time is: "Reject event if ADDR was deleted after it's created_at
\* date" (save_event_with_txn).
StoredDeletionsHold ==
    \A del \in {i \in db.events : kind(i) = EventDeletion} : \A i \in db.events :
        (HasCoordinate(i) /\ identifier(i) # {} /\ coordinate(i) \in coordinates(del))
            => created_at(i) > created_at(del)

\* Each of the nine plans, with its ranges, its cursor and the one-hit scan of
\* replaceable kinds, answers with the newest "limit" events that match, in
\* whatever order it visits the authors and kinds of the filter; count gives
\* their number.  With a limit, the two plans that do not visit events newest
\* first (by IDs; by author, kind and tag) promise less: matching events, and
\* not more than the limit (query, count).
InOrder(f) == f.limit = NoLimit \/ (f.ids = {} /\ {} \in {f.authors, f.kinds, DOMAIN f.tags})
AnswersRight(tables, f) ==
    LET right == Answer(tables.events, f)
    IN IF InOrder(f) THEN /\ query(tables, f) = {right}
                          /\ count(tables, f) = {Cardinality(right)}
       ELSE \A S \in query(tables, f) : /\ Cardinality(S) <= f.limit
                                        /\ \A i \in S : i \in tables.events /\ match_event(f, i)
QueriesAreRight == [][db' # db => \A f \in QueryFilter : AnswersRight(db', f)]_db

\* All or nothing, in order, and no answer before the effect is durable: the
\* ingester implements the atomic store.
Request(r) == <<r.caller, r.op>>
Reported(r) == <<r.caller, r.answer>>
Upgraded(tables) == migrate(tables, 0)
Failed(answer) == answer = Err
Atomic == INSTANCE AtomicStore WITH
    contents <- db,
    requests <- (IF phase = "answer" THEN <<>> ELSE [n \in DOMAIN results |-> Request(results[n])])
                    \o batch \o queue,
    answers <- IF phase = "answer" THEN [n \in DOMAIN results |-> Reported(results[n])] ELSE <<>>
ImplementsAtomicStore == Atomic!Spec

\* Every caller that waits gets its answer, or the process stops.
EveryCallAnswered == \A c \in Caller : (c \in waiting) ~> (c \notin waiting)

\* Until then the request of whoever waits is in exactly one place: the
\* channel, the batch, or what was made; a request there is of one who waits,
\* or was dropped while waiting.  Nobody is told of a request not its own.
Place == ({"queue"} \X DOMAIN queue) \cup ({"batch"} \X DOMAIN batch)
            \cup ({"results"} \X DOMAIN results)
CallerAt(p) == CASE p[1] = "queue" -> queue[p[2]][1]
                 [] p[1] = "batch" -> batch[p[2]][1]
                 [] p[1] = "results" -> results[p[2]].caller
EachRequestHasAPlace ==
    /\ \A p, q \in Place : CallerAt(p) = CallerAt(q) => p = q
    /\ waiting \subseteq {CallerAt(p) : p \in Place}
    /\ {CallerAt(p) : p \in Place} \subseteq waiting \cup gone

-----------------------------------------------------------------------------
(* What the theorems of LmdbStoreProofs assume of the files, and their     *)
(* inductive invariant                                                     *)

Author == {pubkey(i) : i \in Id}
Tables == [events : SUBSET Id, index : [IndexTable -> SUBSET Id], deleted : SUBSET Id,
           claims : SUBSET (Nat \X Author),
           coordinates : SUBSET ((UNION {coordinates(i) : i \in Id}) \X Nat),
           vanished : SUBSET Author]

\* What a version of the store keeps in its file: one version of each event,
\* no event against a tombstone, and, up to this version, index tables that
\* name the events; the first version leaves the kind index behind.
Kept(tables, v) ==
    /\ tables \in Tables /\ v \in Nat
    /\ OneVersion(tables) /\ HoldIn(tables)
    /\ v <= DB_VERSION => \A t \in IndexTable :
            \/ tables.index[t] = tables.events
            \/ v < 2 /\ t = "kc" /\ tables.index[t] \subseteq tables.events
    /\ v < DB_VERSION => tables.events \subseteq Legacy
ASSUME FileAssumption ==
    /\ MaxCalls \in Nat /\ MaxStops \in Nat
    /\ \A f \in File : Kept(f.db, f.version) /\ f.calls \in 0 .. MaxCalls

\* There are finitely many IDs (32 bytes); the times and the limit of a filter
\* are unsigned.
Filters == QueryFilter \cup DeleteFilter
ASSUME QueryAssumption ==
    /\ IsFiniteSet(Id)
    /\ \A f \in Filters : f.since \in Nat /\ f.until \in Nat /\ f.limit \in Nat \cup {NoLimit}

\* The transaction is whole whenever an operation of the batch sees it, and
\* the phases of the ingester tell which of its requests are left.
Req == Caller \X Operation
Res == [caller : Caller, op : Operation,
        answer : {"Ok", Err, "Success", "Ephemeral", "Duplicate", "Deleted", "Vanished",
                  "Replaced", "InvalidDelete"}]
StoreInv ==
    /\ TypeOK /\ queue \in Seq(Req) /\ batch \in Seq(Req) /\ results \in Seq(Res)
    /\ Kept(db, version) /\ (running => version = DB_VERSION) /\ Kept(txn.db, DB_VERSION)
    /\ txn = [db |-> txn.db, broken |-> txn.broken]
    /\ phase = "batch" => Len(results) + Len(batch) > 0
    /\ phase # "batch" => batch = <<>>
    /\ phase = "idle" => results = <<>>
    /\ phase = "answer" => results # <<>>
    /\ ~running => phase = "idle" /\ queue = <<>>
=============================================================================
