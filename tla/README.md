# rust-nostr in TLA+

TLA+ models of the concurrent and stateful parts of the rust-nostr workspace,
the TLC configurations that check them on small instances, and TLAPS proofs of
what matters most for every size. Paths below are relative to the repository
root; `relay/` stands for `nostr-sdk/src/relay/`, `client/` for
`nostr-sdk/src/client/`.

    tlc -workers 2 -config RelayConnectionMC.cfg MCRelayConnection.tla
    tlapm RelayConnectionProofs.tla

## 1. The system

rust-nostr is a library for nostr clients: `nostr` has the protocol's types and
cryptography, `nostr-sdk` the client, its relay pool and an embeddable relay,
`database/*` and `gossip/*` the stores, `nwc` and `signer/*` protocols on top
of the SDK. The state that many tasks share is in `nostr-sdk`: one task per
relay keeps a WebSocket alive while any number of callers connect, subscribe,
publish and shut down, and everything they send and receive goes through a
bounded queue and a broadcast channel. The state that outlives a process is in
the stores.

| Component | State | Operations | Talks to | What makes it correct | Model |
|---|---|---|---|---|---|
| Relay connection (`relay/inner.rs`, `status.rs`) | status, current attempt and its result, task handle, two `Notify`s | connect, try_connect, disconnect, ban, shutdown, sleep, wake; dial, retry, close | callers, transport, policies | every waiter is answered; status and socket agree; a stop is final; nobody serves a dropped attempt | **RelayConnection**, RelayLifecycle |
| Subscriptions and outbound queue (`relay/inner.rs`, `relay/api/{subscribe,unsubscribe,reissue_subscription,send_msg}.rs`) | registry of IDs, pending-REQ counters, a bounded queue that outlives sessions, ingester of AUTH | subscribe, unsubscribe(_all), reissue, restore after a reconnect and after NIP-42, send, receive | connection, relay | a registered subscription is served or restorable; no needless second REQ; counters exact | **RelaySubscriptions** |
| Acquisition and auto-closing subscriptions (`relay/api/acquire_events.rs`, `relay/inner.rs`) | raw evidence, result, the handler's exit policy, a one-item channel | register, REQ, collect, drain, cancel, close | receiver, broadcast, registry | an end never claims more than it has; budgets hold; nothing stays registered | **Acquisition** |
| Requests of a client to a relay (`relay/api/{sync,send_event}.rs`) | events each side has and needs, uploads in flight, a download batch; the phase of a publication | negotiate, upload, download, clean up on drop; send, wait for OK, authenticate, resend | queue, broadcast, database | results are true; nothing waits for its timeout while the relay answers; nothing stays open | **RelayRequests** |
| Relay pool and client (`pool/mod.rs`, `client/`) | relays by URL under one lock, shutdown flag, handles, capabilities | add, remove, connect, fan-out, shutdown, drop; requests with gossip; the refresher's rounds | relays, gossip | what runs is owned; what a request needs stays; calls return; nothing outlives its owners | **RelayPool** |
| Gossip synchronisation (`client/gossip/{semaphore,updater,mod}.rs`) | map of semaphores, permits, freshness of public keys | acquire, release, cancel, cleanup, check again, fetch in three stages | gossip store, pool | exclusive and deadlock-free; no second fetch; a failure is retried; entries go | **GossipSync**, KeyLocks |
| Gossip store and resolver (`gossip/nostr-gossip-memory`, `nostr-gossip/src/flags.rs`, `client/gossip/resolver.rs`) | relays per public key with flags and counters, an LRU cache, fetch times | process, status, best relays, break a filter down | synchronisation, client | a list's markers are the relay's markers | **GossipStore** |
| Local relay (`local_relay/`) | connections, sessions with subscriptions, negotiations, challenges and identities; live broadcast | EVENT, REQ, COUNT, CLOSE, AUTH, NEG-*, add_event, notify_event, shutdown | store, broadcast | no gap between stored and live events; limits exact; wraps reach their recipient | **LocalRelay** |
| LMDB store (`database/nostr-lmdb`) | eight tables, tombstones, a schema version, one write transaction, a channel of operations | save, delete, wipe, reindex in batches; open and migrate; query, count | callers, disk | a caller is told the fate of its own operation; indexes agree; plans answer as the events do | **LmdbTables**, **LmdbStore**, AtomicStore |
| In-memory store (`database/nostr-memory`) | a bounded sorted set, four maps, tombstones | save, delete, query, clear | callers | the maps agree with the set; the newest version wins; nobody deletes another's | **MemoryStore** |
| SQLite store (`database/nostr-sqlite`) | five tables, a schema version | open, save, delete, wipe, query, count | callers, disk | tables and tombstones agree, however far a wipe or an upgrade came | **SqliteStore** |
| nostrdb and SQLite gossip stores, database trait and suite | foreign or SQL | the same | | | no |
| NWC, remote and browser signers | request IDs, bootstrap flags | request and response | client | answers match requests | no |
| `nostr` types and NIPs, transport, blossom, policies, streams | pure data, I/O | | | | no |

How they interact: a client is handles on one pool; a request takes the pool's
lock, asks each relay of its targets, and with gossip first synchronises the
lists of the authors it names, adds their relays and breaks its filters down. A
relay's request registers what it waits for, queues messages and follows the
broadcast of its connection. The connection task dials, restores the
subscriptions, and runs a sender, a receiver and an ingester for a session. What
is received goes to the database, which the local relay uses from the other end.

The hard behaviours: locks are released and state is changed by somebody else
before the next `await` returns; attempts, sessions and permits have to be
handed back on every path, also when a future is dropped; REQs are queued on
one session and sent on another; the relay answers in an order of its own;
restoration, subscribers, the sender and the receiver work on one registry; a
batch of writes fails halfway; a store is opened with what an older version, or
a stop in the middle, left. `PROJECT.json` lists each hazard with its line and
the properties that watch it.

## 2. Plan

The modules, in the order they were written: RelayLifecycle, RelayConnection
and its proofs; RelaySubscriptions and its proofs; KeyLocks, GossipSync and its proofs;
Acquisition; NostrEvents, the three stores and AtomicStore; LocalRelay;
RelayRequests; GossipStore; RelayPool and its proofs; then the stages of a
gossip fetch; then the proofs of LocalRelay, Acquisition, MemoryStore, LmdbStore, RelayRequests and SqliteStore.

Left for later, in this order:

1. The SQLite gossip store, against the in-memory one: both keep the same
   selection under one abstract specification.
2. The browser signer's proxy and the remote signer's bootstrap: matching of
   requests and responses, the double bootstrap of a clone.
3. Text search and NIP-09/NIP-62 switches of the stores.

Runs are kept few, each asking one question of a component. Statements of the
documentation that the code does not keep are definitions of the modules too;
section 7 names them.

## 3. The modules

One action is one critical section of a lock or one step of a task between two
awaits. Comments name the Rust functions; `PROJECT.json` maps each definition to
its lines. Operators whose name has the form `Action_Mistake` are wrong versions
of the action after them. No specification uses them: they are there to show
that a property fails when the code makes that mistake.

### The client side of a relay

**RelayLifecycle** is what a caller of a relay sees: the status graph of
`relay/status.rs`, and one answer per try_connect that agrees with what became of the
connection.

**RelayConnection** is how it is done. `status`, `attempt`, `kind` and `result`
are `ConnectionState` under its mutex; an attempt is an `Arc<ConnectionAttempt>`,
reused when nobody holds it any more. `permit` is the single permit of
`connection_changed` (`notify_one`); `woken` is what `notify_waiters` gives to
those who already wait, and only to them. `pc` is the step of
`connection_task` (next, begin, policy, dial, session, closing, retry), `checked`
the state test that precedes an await. Callers walk through connect, try_connect, their
own timeout, ensure_operational with its wake-up, subscribe and unsubscribe.
stop_connection is disconnect, ban and shutdown; the abort of the task is
a step of its own, because the handle is read after the mutex is released and
may not be published yet. Dial results, policies and the end of a
session are nondeterministic, as is a refusal by the latency and success-rate
limits.

**RelaySubscriptions** abstracts the connection to a status, a session number
and the phase of `post_connection`, and adds the registry (`reg`, `conn`, `closed`:
the fields of `SubscriptionData`), the queue with the `PendingReq` counters,
the sender in three stages (idle, a message taken, its registration told; the `PendingReq` is
dropped before the frame is written, so that the receiver and the ingester find the counter
at zero while `send_ws_msg` waits), the receiver, the ingester that authenticates
and restores, callers of subscribe in their two critical sections, and a relay:
the IDs it has open, whether it requires NIP-42, and its unread answers. `stray`
marks IDs opened by a REQ the registry did not count (it was queued while
the ID was not registered). Events, EOSE and counts are left out.

**Acquisition** is one acquisition on one relay: the collector (`acquire_inner`),
the receiver's part (`handle_event_msg` with `record`, `forward`, `processed`), the handler
(`handle_auto_closing`) and the guard that cleans up an abandoned setup. `raw` and
`terminal` are `RawAcquisition`. An event is its length. The relay may send any
frame for an ID it has seen, whether or not the subscription is still open. The
`biased` select of the collector is kept: cancellation before the timer before the
raw signal before the channel.

**RelayRequests** puts a negentropy synchronisation next to a send_event on one
connection. `sync` is the state of `sync` (what each side has, what is in
flight, what failed, the current batch), `send` the phase of `SendEvent`,
`inbox` what of the broadcast each has not read yet, with the loss of a
receiver that falls behind. The relay answers in order and may leave things
unanswered; it authenticates, refuses, closes and disconnects. `cleanup` is
`SyncCleanup`, the guard of a dropped future.

**RelayPool** is `RelayPoolInner` with the clients on it. `pool` maps a URL to
one of the relays made for it (the copies tell a removed relay from the one
added later), `queue` is the tokio lock in the order of arrival, `late` the URLs
whose add_relay had passed the test of the shutdown flag when it was set. A call
is a plan, the list of pool operations the builders of `client/api/` make of it,
and may be dropped at every await; a writer awaits nothing under the lock. The
application keeps clones of relays (`held`) and of clients (`handles`), the refresher
a weak handle that it upgrades for a round.

### Gossip

**KeyLocks** is a lock over sets of keys, taken and returned at once.
**GossipSync** is the semaphore that does it key by key under a mutex, its
cancellation, the guard's drop and cleanup, and the synchronisation around it:
look, acquire, look again, negentropy with some relays, the marks of the lists it
finds, newer and missing lists from the relays where it failed, the marks of
the keys without a list. `fresh` is the status Updated in the gossip store, which
expires at any time; `stored` the keys with a list in the database. One list kind
stands for those of a call.

**GossipStore** is the in-memory store: lists, inbox relays, hints and received
events become relays with flags and counters in an LRU cache, with the limits of
the code; the choice of relays for a purpose and the break-down of a filter by
relay, one selection at a time with events in between.

### The stores and the relay

**NostrEvents** has what a store knows of an event: kind classes, coordinates,
the order of answers, and what a filter matches. An event is a number, its body a
constant. The LMDB and the in-memory store are modelled for events with one "d" tag at most
(OneIdentifier, an assumption of their modules); the SQLite store for any number. **StoreWorld** is the world of 11 events the instances share: versions of
a replaceable and of an addressable event with a tie, deletions by ID and by
coordinate of own and foreign events, a request to vanish, a gift wrap. Each store's MC module
adds the events its own code turns on.

**LmdbTables** is the content of the environment as a value and what an operation
makes of it: an index holds IDs under a key that is a function of the event, so a table is a
set of IDs and a range a condition; saving with replacement, deletion and
vanishing, delete, wipe, reindex, the migrations, and the plans of a query, each
under the name of its function, with their cursors. **LmdbStore** runs it: the channel, the ingester's batches in one
transaction, errors of its start, its operations and its commit, the answers, a
stop at any step, and a restart on the file that is left. **AtomicStore** is what it
implements: requests take effect in order, a group as a whole or not at all, and an
answer tells the effect that is durable.

**MemoryStore** is the sorted set with its maximum and the four maps next to it, changed by
the code's own steps (`discard_events`, `discard_event`, eviction on
insertion), and the four plans that read them.

**SqliteStore** is five tables with what the schema does by itself (unique keys,
INSERT OR IGNORE, the cascade to the tags), an upgrade from the previous
version, and a wipe as the four statements it is. Times are the i64 of the columns (`as_i64`),
a query without a limit has EVENTS_QUERY_LIMIT, and the conditions on tags are those of the SQL.

**LocalRelay** is the listener, its sessions and the application. A session does
one message at a time (`job`) and reads its part of the broadcast (`backlog`) in between;
saving, broadcasting and answering are steps of their own. `cut` is what the limit of
a query left out, `sent` what an ID was sent. What an event's own content decides (signature, size, proof of
work) is the set Admissible. A filter remembers which of its fields were given, since the
check of access tells a missing list of kinds from an empty one.

### Composition

RelayConnection refines RelayLifecycle, GossipSync refines KeyLocks, LmdbStore
refines AtomicStore. RelaySubscriptions, Acquisition and RelayRequests use of
the connection what StatusMatchesSession and RelayLifecycle give: a session is
served by one task at a time, and a published status changes before or after the
socket does, never for another attempt. The link variables of these modules move in
those orders. Acquisition and RelayRequests take of the queue that it is first in, first out,
refuses at will, and outlives the session. RelayPool takes of a relay that connect
and disconnect take effect at once on its status and that a request to it ends (AcquireReturns,
NeverStalls, the deadlines of the code). LocalRelay takes of its database what
QueriesAreRight says of a store. LmdbStore EXTENDS LmdbTables; the three stores and the
relay share NostrEvents.

The MC modules define the instance: worlds of events and filters, calls, symmetry.

## 4. The runs

| Run | Instance | States | Shows |
|---|---|---|---|
| connection | 1 caller that also subscribes, 3 attempts, reconnect and sleep on | 412 000 | RelayLifecycle with its fairness; no waiter and no wake-up is lost; status and session agree; every waiter is answered; superseded work is dropped; the task ends after a ban or a shutdown |
| subscriptions_callers | 1 ID, 2 callers, NIP-42, closing relay, 2 sessions, queue of 2 | 704 000 | counters exact; served or restorable; restoration only of what is not queued, and of what is written or open only after a CLOSED |
| subscriptions_liveness | 1 ID, 1 caller, NIP-42, queue of 6 | 962 000 | every subscription is opened on every session that runs |
| acquisition | 2 events, one longer than the byte budget, budgets of 1 item and 1 byte, 2 frames, 3 policies (all but WaitForEvents, which counts as WaitForEventsAfterEOSE does from the start), 2 sessions | 1 616 000 | ends tell the truth; budgets; frozen afterwards; exhaustion ends by itself; the subscription is unregistered for good |
| relay_requests | 3 events in chunks, window 2, batches of 1, broadcast of 2, a relay that authenticates, drops answers, disconnects | 2 918 000 | results are true; nothing waits while the relay answers; nothing is left behind |
| client_pool | 2 tasks and the refresher, 2 URLs, 2 relays each, room for 1 | 1 247 000 | what runs is owned; what a request added stays; calls return and the refresher ends |
| gossip_sync | 2 tasks, 2 keys, 3 semaphores, any stored lists, any failures, cancellation | 173 000 | exclusion as KeyLocks; no deadlock; nothing that is fetched has been updated since, and no key is fetched twice at once; failures do not count as checks; entries of a guard are removed |
| gossip_relist | 2 keys, 2 URLs | violation | a READ relay that was known without a marker comes out READ and WRITE |
| lmdb_store | 2 callers, 2 calls, 1 stop, files of schema versions 0 to 4 and of other histories | 76 000 | AtomicStore; every caller answered; tables, tombstones and plans agree |
| memory_store | room for 5 of 15 events, a clock with 2 times | 5 200 | set, maps, tombstones and plans agree; nobody deletes another's events |
| sqlite_store | 15 events, one of them with two "d" tags and two with times the columns refuse, files of the two versions, two deleting filters, EVENTS_QUERY_LIMIT of 3 | 7 500 | tables, tombstones and answers agree; a refused save leaves nothing |
| local_relay | 2 clients and the application, 2 connections, 4 REQs (one without kinds, one with an empty list of kinds), 3 bytes, 2 negotiations of 1 item, broadcast of 1, 4 messages | 1 327 000 | no event is missed; limits hold; wraps reach their recipient |

Every property of a passing run has a wrong version of the code that it refutes
(`mutants` in `PROJECT.json`). Type invariants are conjuncts of one property per
module (IndexesAgree, MapsAgree, TablesAgree, WithinLimits, ResultsAreTrue,
WithinBudgets, PendingReqsCounted) or proved (section 6).

Bounds, and why they are enough:

- *Attempts*: besides the caller's own `Arc` there are the task's and the one being
  created, so |Callers| + 2 never run out, and no behaviour is cut off. An
  attempt that nobody holds is indistinguishable from a new one. The caller does every
  operation, also while its own connect still waits for the lock of the task; the
  proofs cover more callers.
- *Counters* and *Semaphores*: pools like the attempts, as large as can be
  held at once (registration, queue, sender; one per key and one to replace).
  Which of the free semaphores is taken makes no difference, so it is the lowest.
- *MaxSessions = 2*: every hazard is about what one session leaves to the next;
  a third repeats the second. *MaxInbox* bounds the unread answers; *CallerRoom* the
  queue length up to which callers other than subscribe add to it. With a
  capacity of 2, the CLOSE and REQ of a reissue fill the queue, so that every refusal happens.
- In subscriptions_liveness the queue has room for everything the bounded
  environment can add: the promise does not hold otherwise (section 7).
- *MaxItems = MaxBytes = 1* with two frames are an overflow of the items, or an event and an
  EOSE, in any order; the longer of the *Events* {1, 2} alone exceeds the bytes. Repeated events that are
  kept need a larger limit: the theorem about the budgets covers them. *Capacity = 2* of the broadcast lets the handler lag.
- *HighWater = 2*, *LowWater = 0*, *BatchSize = 1*: uploads stop and resume, and two
  batches follow each other. *Notifications = 2* lets both requests fall behind.
- *MaxRelays = 1* with two URLs refuses an addition, and two copies per URL make a
  removed relay and its successor exist together; *MaxHeld = 1* clone is held.
- *MaxCleanups* bounds the cleanups that are pending, with room reserved for those a guard
  will start. *MaxAuths* bounds the outcomes of NIP-42.
- *MaxCalls = 2*, *MaxStops = 1*: a batch of two, one call that waits while a batch is made, and
  a restart on its result. Longer histories come in through the files an instance starts with: those of
  older versions, and those any two requests make of them.
- The stores start every query of the instance on every reachable content. *Capacity = 5*
  of MemoryStore is less than its world, so that every event can be the one evicted.
- *Channel = 1* overflows as soon as two events come during one message;
  *MaxMessages = 4* are a REQ, two publications and one more.

Deadlock checking is off where the system comes to rest: a terminal relay
with no callers, an acquisition that is over, a client without calls, a store without
requests, or a model at the bounds of its environment.

## 5. Fairness

Tasks that are ready are polled by the runtime: weak fairness of the steps of
connection task, sender, receiver, ingester, collector and handler, and of a method
that has left a lock and only has to return. A dial and a retry have a deadline in the
code (`WEBSOCKET` timeout, retry interval), so they end; nothing
makes a dial succeed or a session end. No caller is fair: nobody has to subscribe, connect,
time out or cancel. The relay is not fair either, except in subscriptions_liveness,
where its answers are the ones written when a frame arrives.

The gossip mutex is tokio's fair mutex: strong fairness of taking it. A permit is
handed over in order, and a synchronisation ends because each of its fetches has a timeout,
after which at the latest the guard is dropped. The spawned cleanups wait for the
same mutex.

In acquisition neither the request's deadline nor any timer is fair:
ExhaustionEnds would be worth little if the timeout could save it.

In client_pool each call that is under way takes its next step: the lock serves
in the order of arrival (`queue` is part of the state), a fan-out ends by its
timeout, and the application does not have to make calls or drop anything. The
refresher's round and its sleep end. The lock itself gets no fairness of its own.

In lmdb_store the ingester thread is fair (`WF(Ingest)`): it takes what waits, works
and answers. Callers and stops are not.

The other modules state safety only. NeverStalls says of a request that it does not wait when
nothing more is to come, which needs no fairness.

## 6. What is proved

**RelayConnectionProofs**, for any number of callers and attempts and every option:
TypeCorrect, StatusSound, NoWakeupIsLost, RequestsAreServed,
NoWaiterIsOrphaned, WaitersAreNotLost, TerminalStays, ResultsAreFinal and ConnectionRefinesLifecycle. None of
the invariants is inductive alone. Connected may only be published for the current
attempt, and that a dial that comes back is still current is known from the attempt the task holds
(PhaseMatchesStatus); that its waiters have been told, from the results
(ResultsMatchStatus); that the task is there at all, from the fact that it is
aborted only in a terminal status (EndsOnlyIfTerminal). Their conjunction is
ConnectionInv. The proof shows for each action of the task, of a caller and
of the environment what it does to each part; the action properties and the
refinement follow from the invariant, the refinement with one lemma that
nobody's answer changes and one that everybody's does at once.
Assumptions: NoAttempt is not an attempt, subscribers are callers, the options are
Boolean.

**RelaySubscriptionsProofs**, for any IDs, callers, sessions, capacity and relay: SubscriptionsInvariant,
PendingIsExact, NoneIsForgotten, RestorationSparesServed. The last says when a REQ may be queued for
restoration: never while one is queued or taken, and for a subscription that is being opened or open only after
a CLOSED. That a subscription is served or restorable when
its REQ leaves the sender needs that the REQ is written for the registration that carries its counter
(CountersAreOwn): the counter is given back before the frame is written, so that until the relay has it only
the sender knows of the REQ (Writing), and a CLOSED that comes meanwhile makes the registration restorable
before it is served. When a CLOSE is written, a
REQ has to be behind it (ClosesAreFollowed): the CLOSE of an unsubscribe precedes the REQ of a new subscribe,
and a reissue queues both. When a session is lost, only a subscription made while there was no
connection counts on the next session, and its REQ cannot have left the queue (NextSessionIsQueued). The
restoration's test is right because an ID that is known to be open has the number of this session
(OpenIsCurrent). The counters are cardinalities of positions in the queue; lemmas say how appending, taking
and concatenating change them. Assumptions: Nothing is neither an ID, a counter nor a message, the capacity is
positive, the relay closes with one of two reasons.

**RelayPoolProofs**, first part (RelayPool), for any application tasks, URLs, copies and limits: PoolInvariant,
RunningRelaysAreOwned, AddedRelaysAreKept. That what runs is owned needs to know where the relay
of a call under way is going: CallOK says that a call has a handle and steps left, and that
what is being added when the client is shut down is among `late`; PoolOK that a relay is in
the pool under its own URL, that no handles mean an empty pool, that after a shutdown
only what is late is present, and that a running relay is held or in the pool. AddedRelaysStay
is the fourth part: whoever takes a gossip relay out does so by force, and an
extension of capabilities never removes one.

**RelayPoolProofs**, second part (GossipSync), for any tasks, keys and semaphores: SemaphoreInvariant,
GossipTypeCorrect, CleanupSparesHolders, PermitsAreExclusive,
FreshIsNotFetched, FetchInvariant, FailuresDoNotBlock, SemaphoreRefinesKeyLocks. Exclusion needs that the semaphore a
permit was taken from is still the one in the map (PermitsInFlight), and that in turn
that a task between its look-up and its permit still finds its handle there
(WaitsInFlight): cleanup runs under the mutex that such a task holds, and spares
a semaphore whose permit is out. That failures are retried rests on FetchInv: what a
synchronisation has yet to mark has a list, or an answer has come, and the keys that are not
missing have lists; the permits are not needed for it. That no key is fetched twice (FreshIsNotFetched) rests
on them: FetchedOnceInv adds to the property, which speaks of all three rounds of a synchronisation, that a task
fetches keys it has permits for, that permits are exclusive, so nobody else marks a key it still has
to ask for, and that what it marks itself between the rounds it does not ask for again.
Assumptions: keys and semaphores are numbers (they are ordered), None is neither a task nor a
semaphore. The specification's names begin with Sync so that one module can speak of the pool and of the
synchronisations that precede its requests.

**LocalRelayProofs**, for any sessions, messages, limits and capacity of the channel: TypesCorrect,
GiftWrapsAreDelivered, NothingIsMissed, LimitsInvariant, LimitsHold. A session may change its identity
while a request is answered and after, so AccessInv remembers what it has proved to be (`proved`) and says
of every filter in use, also of a query under way, that it names only such keys, or is one that
`gift_wrap_query_access` lets pass although it matches gift wraps (`unguarded`, section 7); for the
others matching then means being seen. NothingMissed is not inductive either: a query has looked at some filters when an event is saved.
DeliveryInv says of the filters looked at so far that what is stored and matches was found, cut, or is on its
way, and of the shutdown that it reaches only sessions that wait: one that has saved an event and not yet
told the others is never ended. Each step then has to carry what is on its way to an open session (Carried),
or make it notice. For the limits, the bytes counted for a session are the sum of those of its subscriptions,
also while one is replaced, so lemmas say what adding, removing and replacing do to such a sum, and the
answers to a filter of which the newest are taken are never more than its limit.
Assumptions: limits are numbers, the channel holds one event, a filter has the fields of a filter.

Its last part is SqliteStore, a store that a relay may keep its events in (the names of the specification begin with
Sqlite for that), for any events, files and filters: TablesInvariant, TablesGoTogether, OnlyOwnAreTaken. TablesAgree
says what statements answer; what makes it inductive is Whole, which a file has to keep as well: the rows of a
deletion are times, the events finite. A save is shown to leave the tables alone or to insert into tables
*prepared* for the event: no rival of its coordinate, no row or deleted ID that covers it, nothing gone but what
its author may take. That one event of a coordinate is left after a replacement, although the statement takes any one,
needs that rivalry is symmetric and transitive. The statement joins on any "d" tag, so this is so only of a *sole*
coordinate, one whose identifier no other event of the author and kind has in a further "d" tag; of the others nothing is claimed
(section 7). A query by a *plain* filter is right although it reads
the tags from their own table, and under a limit, its own or EVENTS_QUERY_LIMIT, because the newest n of more than n events are n;
plain are filters without an empty set of tag values and with times that an i64 can hold. While
the invariant was being proved, it turned out to claim too much of an event that is neither replaceable nor
addressable and carries an identifier: nothing keeps one that is older than a deletion of such a
coordinate from being stored, and TablesAgree no longer says so (Found).
Assumptions: FileAssumption, that a file has the tables of an earlier run; FilterAssumption, that filters are filters
with an unsigned limit, and that a tag a filter asks for has values in every event, if none an empty set; "e" and
"a" tags, which are kept apart, are not asked for.

**RelayRequestsProofs**, for anything that negentropy finds, any marks, batch size and capacity of the
broadcast, and whatever the relay answers: RequestsInvariant, ResultsTellTheTruth, NobodyWaitsInVain,
NothingStaysOpen. What the three properties say of a request when it has ended, or when all is quiet, is
not inductive: it has to be known of every moment which message is owed by whom. RequestsInv accounts for it in
named parts. EventsAreKept: what was found is still to be uploaded or fetched, under way, or answered, and a
success is the relay's own. OneTurn, TurnsCount and TurnsClose: of a negotiation one message is on its way, in one
direction, with the number the relay expects, and what was opened will be closed by the request or its guard.
IdsAreFresh and IdsClose: batches have identifiers of their own, and one in the relay's hands belongs to the
current batch or has its CLOSE in the queue behind its REQ. RefusalsAreReal: a CLOSED before EOSE is a refusal.
SyncIsAnswered and SendIsAnswered: what a request waits for is in the queue, on the wire or unread in its part of
the broadcast, unless it has fallen behind or the relay is silent; an EVENT that was refused for want of
an authentication has a verdict coming, whichever request caused the challenge (OneAuth, AuthComes). The proof brings each
action first into a form that says what it does to the channels (which messages it takes from the front of one,
and which it puts at the end of another), then keeps each part under each of these steps. From the invariant and
an empty network the three properties follow at once: nothing that is owed has a place left to be.
Assumptions: MarksAssumption (the low mark is below the high one, batches and the broadcast hold something),
ChunksAssumption (a negotiation has at least one message, the events are finitely many).

**AcquisitionProofs**, for any events, limits, policies and capacity of the broadcast: BudgetInvariant,
BudgetsHold, EvidenceStaysFrozen, TruthInvariant, EndsAreTrue. BudgetInv adds to the types what the counts were
before the end, that what is kept and what is repeated make up no more than what was received, and that the
evidence of an ended acquisition is closed. The types go part by part (PartsTyped): each lemma names the
steps that touch one part. That an end is the truth about the input needs what is under way: TruthInv says
that what the receiver has forwarded is what the collector has taken, what is in its one-item channel, what the
handler is sending, and what it has not read of the broadcast up to the EOSE that ends it, unless it has
fallen behind; and that when a handler says Completed, nothing more is forwarded. Assumptions: an event is longer than nothing, limits and capacity are positive.

**MemoryStoreProofs**, for any events, capacity and clock: StoreInvariant, MapsAreKept, TombstonesAreKept,
OnlyOwnAreDeleted, QueriesAnswer. The maps and the tombstones need each other: a deletion finds what it is to
remove only if the maps know every event, and what a version replaces is found only if no stored event is
marked. The proof follows internal_index_event step by step: each helper keeps the maps whole, and a mark
is set only together with the removal of what it covers. The exception in TombstonesHold, a replaceable event
that carries an identifier, came out of the proof: the store looks for such an event under its kind
and author, so a deletion of the coordinate with the identifier does not find it, and the instance now has both.
Assumptions: those of NostrEvents (times are between 0 and MaxTime, kinds have 16 bits), OneIdentifier
and StoreAssumption (filters are finite, with unsigned times).

**LmdbStoreProofs**, for any events, callers, files, failures and stops: StoreInvariant, IndexesAreKept,
TombstonesAreKept, StoreIsAtomic, QueriesAnswer, StoreAlwaysAnswers, NobodyIsForgotten. It has three parts.

- *Tables.* Good is what open tables keep: indexes that name the stored events, one version per
  coordinate, tombstones that hold. Each operation and each upgrade turns good tables into good ones;
  StoreInv then says of every step of the ingester that the disk and, unless it was spoilt by an error that
  rolls it back, the transaction are good, and which requests its phase has left to make and to answer.
- *Refinement.* Trail says that the tables of a transaction are those that the requests made so far lead to, one
  after the other, from the committed ones, with the answers they gave. A commit is then one step of the
  atomic store that takes the whole batch, a failed one the step that takes none, and every other step of the ingester
  changes nothing that a caller can tell. The same line, counted by caller, gives NobodyIsForgotten: a request that
  waits has exactly one place, in the channel, in the batch or among what was made.
- *Queries.* Found says of a scan that stops at a limit that no event which matches and is not taken
  comes before one that is; the cursor that a filled scan leaves to the next passes no wanted event, whichever
  of the plans is chosen. So answers are the newest that match, outside of a transaction and inside one, where
  a deletion by filter relies on them.

Assumptions: those of NostrEvents and OneIdentifier; FileAssumption, that a file that is opened has the tables its
version keeps, and that Legacy names what older versions stored (deletions of these are not claimed in advance); QueryAssumption, that there are finitely many IDs (32 bytes) and that times and limits
of a filter are unsigned. Where an argument counts (the length of a batch, the steps of a scan) the
induction is over sets of numbers: LeastOfNaturals gives the least member of a set from the well-foundedness of
the naturals, and NaturalsByInduction that a set with 0 and all successors is everything.

TerminalStays, ResultsAreFinal, PermitsAreExclusive, StoreAlwaysAnswers and NobodyIsForgotten are proved of
properties that no run lists; TLC has checked them on the same instances. The inductive invariants
were given to TLC on these instances before they were proved.

Model-checked only:

- what is about eventually, which TLAPS does not prove: EveryWaiterAnswered, SupersededIsDropped,
  TerminalEndsTask, EverySubscriptionServed, AcquireReturns, UsedIsRemoved, CallsReturn, ExhaustionEnds,
  IsUnregistered, EveryCallAnswered, and the fair half of ImplementsLifecycle;
- GossipStore, which has one run, for the disagreement in section 7: its bounded lists and the selection of
  relays are explored there, but no property of them is stated.

## 7. Disagreements found

Where the code does something else than a comment, a document or a test of the repository
says. The first is a run; of the others, those with a name in parentheses are
definitions that TLC refutes when they are put into a configuration, or behaviours the models
have; those marked (read) were met while reading and are not in a model.

Relay and client:

- *Markers* (`nostr-gossip/src/flags.rs:41`, MarkersAreListed): `remove` is an exclusive
  or, so removing a flag that is not set sets it.
- *Sleep race* (`relay/inner.rs:1507`, NoSleepWhileSubscribed): `should_sleep` releases the lock of the
  subscriptions before the monitor sets Sleeping. A subscription registered in between is
  put to sleep, against "No sleep if there are active subscriptions" (line 887).
- *Duplicate REQ* (`relay/api/subscribe.rs:104`, NoDuplicateReq): registration and queueing are two
  critical sections. A whole reconnect between them restores the ID and the
  caller's REQ follows, against the test that says a relay must never receive it (`relay/inner.rs:5280`)
  and the changelog.
- *Full queue* (`relay/inner.rs:1254`, RestoredAfterReconnect): restoration runs before the sender, so a queue
  filled while the relay was away makes it fail; the session runs without the
  subscription although line 350 says its REQ is sent again then.
- *Stale CLOSED* (`relay/inner.rs:1545`): one still in flight when an ID is unsubscribed
  and subscribed again closes the new subscription; RelaySubscriptions has the behaviour. When it is read
  while the REQ of the new subscription is being written, its counter is already given back
  (`relay/inner.rs:1345`), and a restoration after NIP-42 queues a second REQ: RestorationIsNeeded therefore
  says nothing of a subscription with a CLOSED.
- *Semaphore leak* (`client/gossip/semaphore.rs:54`, UnusedIsRemoved): a caller that drops `acquire` while it waits leaves
  the semaphores it created; there is no guard yet.
- *Failures that count* (`client/gossip/updater.rs:208`): when every relay fails, keys whose outdated list is in
  the database are marked as checked all the same, for every kind of the call, against "A total failure
  ... MUST NOT block retries" (lines 151 and 164). FailuresAreRetried therefore speaks of keys without a stored list.
- *Late add* (`pool/mod.rs:164`): add_relay tests the shutdown flag, awaits the policy and inserts; the
  relay stays in a pool that is shut down (`late` in RunningIsOwned, against `client/mod.rs:185`).
- A relay that the admission policy rejects makes add_relay return Ok(false), yet the
  request keeps its URL and fails (`pool/mod.rs:172`); a relay shut down through a clone
  stays in the pool and adding it again has no effect. RelayPool has both.
- `check_negentropy_support` does not notice a disconnection and waits for its timeout; an OK
  of one submission answers another of the same event. RelayRequests has both.
- `wait_for_connection` ends when its receiver lags (`relay/mod.rs:300`); a take_connection
  whose future is dropped between saving and broadcasting; subscribers of
  notifications test the shutdown before they subscribe; the refresher's cursor goes round a
  set that grows (`client/gossip/refresher.rs:82`) (read).
- `break_down_filter` extends a map, so the authors found by hints or as most received replace
  those of the outbox for the same relay (`client/gossip/resolver.rs:134`); GossipStore has it.
- Documentation of `ReqTarget::auto` says all READ relays and the gossip ones; with gossip only
  discovered relays are asked unless something is left over. RelayPool has it.
- The in-memory gossip store admits one relay more than its maximum, keeps the markers of
  relays that a newer list no longer names (the SQLite one clears them), and does not
  compare the times of lists. GossipStore has it.

Stores:

- *LMDB maintenance* (`database/nostr-lmdb/src/store/lmdb/mod.rs:428`, StoredDeletionsHold of LmdbStore): reindex clears the tombstones and writes none for
  the deletions that stay stored; a later deletion with an earlier time overwrites the time of a coordinate (line 511).
- LMDB: an upgrade to version 3 leaves events that were stored after their deletion; tag values
  are cut at 182 bytes in a key, so that long identifiers merge (`index.rs:109`, not modelled); with authors, kinds
  and tags, or with IDs, a limit does not take the newest (QueriesAreRight says so).
- *SQLite limit* (`database/nostr-sqlite/src/store.rs:24`): query, count and negentropy_items give a filter without a limit one of
  10 000 (lines 581, 600, 626, 898); delete does not. count ignores a limit, as there is one row to count, and fails with a limit of 0.
  A negentropy synchronisation of more events than that works with the newest.
- *SQLite filters* (`database/nostr-sqlite/src/store.rs:878`): a tag name with an empty set of values is no condition, whereas
  `match_event` matches nothing then (`nostr/src/filter/mod.rs:642`); the join only asks for some row of the event. Times beyond an i64 are negative
  in a condition (lines 848 and 853), and an event with such a time fails the CHECK of its column. TablesAgree speaks of plain filters.
- *SQLite identifiers* (`database/nostr-sqlite/src/store.rs:254`): the version that an addressable event replaces is any one event with
  its identifier in any "d" tag (LIMIT 1). An event with two "d" tags can be taken out by one of another coordinate, and
  two versions can stay; TablesAgree speaks of sole coordinates (Sole), and without that TLC refutes it in four states.
- *SQLite deletions* (`database/nostr-sqlite/src/store.rs:337`, StoredDeletionsHold of SqliteStore): INSERT OR IGNORE keeps the
  time of the first deletion of a coordinate. "Wipe all data" leaves `vanished_public_keys` and is four
  statements. A deletion by ID ignores the times; addressable events
  without identifier are all kept; only the negentropy query leaves out expired events.
- In-memory: the plan for a coordinate reads the first identifier and no other tags
  (`store.rs:81`, ReadWhole); a refused deletion has marked and discarded what came before its foreign target
  (line 256).

Local relay, and the rest:

- *Gift wraps* (`local_relay/local/inner.rs:1484`, WrapsReachTheirRecipient): "A missing kind constraint is a wildcard" (line 1483), but
  an empty one, as in `{"kinds":[]}`, is taken for kinds without gift wraps and passes without AUTH, while `kind_match`
  (`nostr/src/filter/mod.rs:652`) lets it match every kind; stored and live gift wraps reach anybody then, against "returning GiftWrap
  events for the mentioned public key only" (`local_relay/builder.rs:554`). The property exempts what such filters match (`unguarded`); without
  the exemption TLC refutes it in 13 states.
- shutdown uses `notify_waiters`, which misses sessions inside a handler
  (`local_relay/local/inner.rs:274`); a REQ that is answered with CLOSED keeps the earlier subscription of
  its ID (line 1435); a client that asks too early never gets a token (`session.rs:145`, read).
- NWC drops every notification (`nwc/src/lib.rs:374`, `||` for `&&`); a clone of NostrConnect made before
  the bootstrap bootstraps again, and a waiting request fails on any event it cannot decrypt; the
  browser proxy's start returns Ok to a second caller while the bind of the first may still fail, a
  listener between two selects misses the shutdown, and requests that timed out are still sent
  (read).

## 8. What is not modelled

Inside modelled components: latency and success-rate limits (a refusal at will), ping
nonces (a session may end), statistics other than the session number, EOSE and
event counts of long-lived subscriptions, futures of subscribe that are dropped half-way, waiting
for confirmation of a sent message, the fan-out of an acquisition over relays and its
timestamps, progress reports of a synchronisation, the parsing of targets and the outputs of a fan-out, the round-robin cursor of
the refresher (GossipSync leaves open which keys are synchronised), more list kinds than one, rate limits and handshake
times of the local relay, its sync_with, text search, the cut of long tag values, events with several "d" tags in the LMDB and in-memory stores, and the options that
switch NIP-09 and NIP-62 off in the LMDB and in-memory stores.

Whole components, with the reason in `PROJECT.json`: the transport (pure I/O, a dial or session that
succeeds or fails), authenticator and policies (the application's; nondeterministic verdicts), stream adapters, the nostrdb
store (a foreign library), the SQLite gossip store, NWC and the signers (planned, section 2), the Blossom client
(stateless requests), examples and scripts. `nostr`, which is more than half of the
workspace's lines, is types, parsing, encoding and cryptography, with its
tests: there is no state to model, and a message or an event of it is a model
value here.
