----------------------------- MODULE GossipSync -----------------------------
(***************************************************************************)
(* The synchronisation of gossip lists (nostr-sdk/src/client/gossip/):     *)
(* updater.rs looks which public keys are outdated, takes a permit for     *)
(* each of them from the GossipSemaphore of semaphore.rs, looks again and  *)
(* fetches what is still outdated: by negentropy, then by REQ from the     *)
(* relays where that failed.  A semaphore exists per key while the key is  *)
(* in use; the map of semaphores is under a mutex that acquire keeps while *)
(* it waits for permits, and dropped guards are followed by a spawned      *)
(* cleanup.                                                                *)
(*                                                                         *)
(* One action is one step between two awaits; a store or the pool may fail *)
(* in any of them, which ends the synchronisation.  A key has one status   *)
(* and one list, as if a call had one kind of list.                        *)
(***************************************************************************)
EXTENDS Naturals, FiniteSets

CONSTANTS
    Syncs,          \* tasks that synchronise gossip lists
    Keys,           \* public keys, ordered as in a BTreeSet
    Semaphores,     \* Arc<Semaphore> allocations, by their address
    None,           \* Option::None
    Cancellation,   \* a caller may drop a synchronisation while it waits
    MaxCleanups     \* bound of the model: spawned cleanups

ASSUME NumbersAssumption == Keys \subseteq Nat /\ Semaphores \subseteq Nat
ASSUME NoneAssumption == None \notin Syncs \union Semaphores
ASSUME FlagAssumption == Cancellation \in BOOLEAN /\ MaxCleanups \in Nat

VARIABLES
    mutex,      \* who holds the mutex of in_flight
    inFlight,   \* in_flight: the semaphore of each key in use
    permits,    \* available permits of each semaphore
    stage, wanted, \* the tasks, and the keys each found outdated
    handle,     \* the Arcs each task got from in_flight
    taken,      \* the keys each task has a permit for
    cleaning,   \* spawned cleanups that have not run yet
    syncing,    \* outdated_public_keys: the keys each task is fetching
    missing,    \* missing_public_keys: those of them without a stored list
    marking,    \* the keys it is marking as checked, one by one
    answered,   \* whether a relay has answered it: has_success, completed_fetch
    failed,     \* whether the negentropy of a relay has failed: has_failed
    stored,     \* the database: keys with a list
    fresh       \* the gossip store: keys whose status is Updated

fetch == <<syncing, missing, marking, answered, failed>>
store == <<stored, fresh>>
syncVars == <<mutex, inFlight, permits, stage, wanted, handle, taken, cleaning, fetch, store>>

PermitNum == 1

NoHandles == [k \in Keys |-> None]

\* The guard is there: the second look, the negentropy, the lists it has
\* found, the newer ones and the missing ones from relays where it failed, and
\* the keys whose list is nowhere.
Fetching == {"sync", "stored", "newer", "mark"}
Working  == {"check"} \union Fetching

SyncTypeOK ==
    /\ mutex \in Syncs \union {None}
    /\ inFlight \in [Keys -> Semaphores \union {None}]
    /\ permits \in [Semaphores -> 0..PermitNum]
    /\ stage \in [Syncs -> {"idle", "lock", "permits"} \union Working]
    /\ wanted \in [Syncs -> SUBSET Keys]
    /\ handle \in [Syncs -> [Keys -> Semaphores \union {None}]]
    /\ taken \in [Syncs -> SUBSET Keys]
    /\ cleaning \in [SUBSET Keys -> Nat]
    /\ syncing \in [Syncs -> SUBSET Keys]
    /\ missing \in [Syncs -> SUBSET Keys] /\ marking \in [Syncs -> SUBSET Keys]
    /\ answered \in [Syncs -> BOOLEAN] /\ failed \in [Syncs -> BOOLEAN]
    /\ stored \subseteq Keys /\ fresh \subseteq Keys
    /\ \A t \in Syncs :
         /\ mutex = t <=> stage[t] = "permits"
         /\ wanted[t] = {} <=> stage[t] = "idle"
         /\ taken[t] \subseteq wanted[t]
         /\ stage[t] \in Working => taken[t] = wanted[t]
         /\ stage[t] \in {"idle", "lock"} => taken[t] = {} /\ handle[t] = NoHandles
         /\ \A k \in wanted[t] : stage[t] # "lock" => handle[t][k] # None

SyncInit ==
    /\ mutex = None
    /\ inFlight = NoHandles
    /\ permits = [s \in Semaphores |-> PermitNum]
    /\ stage = [t \in Syncs |-> "idle"]
    /\ wanted = [t \in Syncs |-> {}]
    /\ handle = [t \in Syncs |-> NoHandles]
    /\ taken = [t \in Syncs |-> {}]
    /\ cleaning = [ks \in SUBSET Keys |-> 0]
    /\ syncing = [t \in Syncs |-> {}] /\ missing = [t \in Syncs |-> {}]
    /\ marking = [t \in Syncs |-> {}]
    /\ answered = [t \in Syncs |-> FALSE] /\ failed = [t \in Syncs |-> FALSE]
    /\ stored \in SUBSET Keys /\ fresh = {}

-----------------------------------------------------------------------------

\* Somebody holds an Arc of the semaphore.
Held(s) == \/ \E k \in Keys : inFlight[k] = s
           \/ \E t \in Syncs, k \in Keys : handle[t][k] = s

\* The cleanups that are spawned and have not run.
Spawned == {x \in (SUBSET Keys) \X (1..MaxCleanups) : x[2] <= cleaning[x[1]]}

\* sync_gossip_public_keys: the first look at the store.  The bound on the
\* cleanups leaves room for the one of this task, so it never stops a step
\* once the task has started.
StartSync(t, ks) ==
    /\ stage[t] = "idle"
    /\ ks \subseteq Keys \ fresh /\ ks # {}
    /\ Cardinality(Spawned) + Cardinality({u \in Syncs : wanted[u] # {}}) < MaxCleanups
    /\ stage' = [stage EXCEPT ![t] = "lock"]
    /\ wanted' = [wanted EXCEPT ![t] = ks]
    /\ UNCHANGED <<mutex, inFlight, permits, handle, taken, cleaning, fetch, store>>

\* Which address an allocation has makes no difference: it is the lowest one.
LowestFree(t, k, new) ==
    \A s \in Semaphores : s < new[k] /\ ~Held(s) =>
        \E j \in wanted[t] : j < k /\ new[j] = s

\* acquire gets the mutex and, under it, a semaphore for every key, new ones
\* where there is none.
LockInFlight(t) ==
    /\ stage[t] = "lock" /\ mutex = None
    /\ mutex' = t
    /\ \E new \in [Keys -> Semaphores \union {None}] :
         /\ \A k \in Keys :
              IF k \in wanted[t] /\ inFlight[k] = None
              THEN /\ new[k] \in Semaphores /\ ~Held(new[k])
                   /\ \A j \in Keys \ {k} : new[j] # new[k]
                   /\ LowestFree(t, k, new)
              ELSE new[k] = inFlight[k]
         /\ inFlight' = new
         /\ permits' = [s \in Semaphores |->
                          IF \E k \in wanted[t] : inFlight[k] = None /\ new[k] = s
                          THEN PermitNum ELSE permits[s]]
         /\ handle' = [handle EXCEPT ![t] =
                         [k \in Keys |-> IF k \in wanted[t] THEN new[k] ELSE None]]
    /\ stage' = [stage EXCEPT ![t] = "permits"]
    /\ UNCHANGED <<wanted, taken, cleaning, fetch, store>>

\* acquire_owned on the next semaphore in the order of the keys.
TakePermit(t, k) ==
    /\ stage[t] = "permits"
    /\ k \in wanted[t] \ taken[t]
    /\ \A j \in wanted[t] \ taken[t] : k <= j
    /\ permits[handle[t][k]] > 0
    /\ permits' = [permits EXCEPT ![handle[t][k]] = @ - 1]
    /\ taken' = [taken EXCEPT ![t] = @ \union {k}]
    /\ UNCHANGED <<mutex, inFlight, stage, wanted, handle, cleaning, fetch, store>>

\* mutant: the mutex is kept together with the permits
ReturnPermit_KeepsMutex(t) ==
    /\ stage[t] = "permits" /\ taken[t] = wanted[t]
    /\ stage' = [stage EXCEPT ![t] = "check"]
    /\ UNCHANGED <<mutex, inFlight, permits, wanted, handle, taken, cleaning, fetch, store>>

\* All permits are there: acquire drops the mutex and returns the guard.
ReturnPermit(t) ==
    /\ stage[t] = "permits" /\ taken[t] = wanted[t]
    /\ mutex' = None
    /\ stage' = [stage EXCEPT ![t] = "check"]
    /\ UNCHANGED <<inFlight, permits, wanted, handle, taken, cleaning, fetch, store>>

\* The permits of t go back to their semaphores, the Arcs are dropped.
ReleasePermits(t) ==
    /\ permits' = [s \in Semaphores |->
                     IF \E k \in taken[t] : handle[t][k] = s THEN PermitNum ELSE permits[s]]
    /\ taken' = [taken EXCEPT ![t] = {}]
    /\ handle' = [handle EXCEPT ![t] = NoHandles]
    /\ wanted' = [wanted EXCEPT ![t] = {}]
    /\ syncing' = [syncing EXCEPT ![t] = {}]
    /\ missing' = [missing EXCEPT ![t] = {}]
    /\ marking' = [marking EXCEPT ![t] = {}]
    /\ answered' = [answered EXCEPT ![t] = FALSE]
    /\ failed' = [failed EXCEPT ![t] = FALSE]
    /\ stage' = [stage EXCEPT ![t] = "idle"]

\* mutant: the mutex is not released with the dropped future
CancelSync_KeepsMutex(t) ==
    /\ Cancellation /\ stage[t] \in {"lock", "permits"}
    /\ ReleasePermits(t)
    /\ UNCHANGED <<mutex, inFlight, cleaning, store>>

\* The future of acquire is dropped while it waits: what it holds is released,
\* but there is no guard yet whose drop would clean up.
CancelSync(t) ==
    /\ Cancellation /\ stage[t] \in {"lock", "permits"}
    /\ ReleasePermits(t)
    /\ mutex' = IF mutex = t THEN None ELSE mutex
    /\ UNCHANGED <<inFlight, cleaning, store>>

-----------------------------------------------------------------------------
(* The fetch, under the guard                                              *)

locks == <<mutex, inFlight, permits, wanted, handle, taken, cleaning>>

\* mutant: the keys of the first look are fetched
CheckAgain_Skipped(t) ==
    /\ stage[t] = "check"
    /\ stage' = [stage EXCEPT ![t] = "sync"]
    /\ syncing' = [syncing EXCEPT ![t] = wanted[t]]
    /\ UNCHANGED <<locks, missing, marking, answered, failed, store>>

\* The second look: only what is still outdated is fetched.
CheckAgain(t) ==
    /\ stage[t] = "check" /\ wanted[t] \ fresh # {}
    /\ stage' = [stage EXCEPT ![t] = "sync"]
    /\ syncing' = [syncing EXCEPT ![t] = wanted[t] \ fresh]
    /\ UNCHANGED <<locks, missing, marking, answered, failed, store>>

\* sync_gossip_public_keys_with_negentropy, to its query of the database: some
\* relays succeed and some fail, which does not keep a failed one from having
\* sent lists before.  The keys of the lists found are to be marked.
SyncNegentropy(t, success, failure, got) ==
    /\ stage[t] = "sync" /\ (success \/ failure)
    /\ got \subseteq syncing[t]
    /\ stored' = stored \union got
    /\ answered' = [answered EXCEPT ![t] = success]
    /\ failed' = [failed EXCEPT ![t] = failure]
    /\ missing' = [missing EXCEPT ![t] = syncing[t] \ stored']
    /\ marking' = [marking EXCEPT ![t] = syncing[t] \intersect stored']
    /\ stage' = [stage EXCEPT ![t] = "stored"]
    /\ UNCHANGED <<locks, syncing, fresh>>

\* update_fetch_attempt for the next key.
MarkChecked(t, k) ==
    /\ stage[t] \in Fetching /\ k \in marking[t]
    /\ fresh' = fresh \union {k}
    /\ marking' = [marking EXCEPT ![t] = @ \ {k}]
    /\ UNCHANGED <<locks, stage, syncing, missing, answered, failed, stored>>

\* fetch_newer_gossip_lists_from_failed_relays: lists that are newer than the
\* stored ones come from the relays where negentropy failed.
FetchNewer(t, got) ==
    /\ stage[t] = "stored" /\ marking[t] = {} /\ failed[t]
    /\ got \subseteq syncing[t] \ missing[t]
    /\ marking' = [marking EXCEPT ![t] = got]
    /\ stage' = [stage EXCEPT ![t] = "newer"]
    /\ UNCHANGED <<locks, syncing, missing, answered, failed, store>>

\* mutant: the keys without a list are marked whether or not a relay answered
MarkMissing_Always(t) ==
    /\ marking' = [marking EXCEPT ![t] = missing[t]]
    /\ stage' = [stage EXCEPT ![t] = "mark"]

\* Keys without a list are marked as checked if a relay has said so.
MarkMissing(t) ==
    /\ marking' = [marking EXCEPT ![t] = IF answered'[t] THEN missing[t] ELSE {}]
    /\ stage' = [stage EXCEPT ![t] = "mark"]

\* fetch_missing_gossip_lists_from_failed_relays: at least one relay completes
\* the request, or sends a list before it fails, or none does.
FetchMissing(t, completed, got) ==
    /\ stage[t] = "newer" /\ marking[t] = {} /\ missing[t] # {}
    /\ got \subseteq missing[t] /\ (got # {} => completed)
    /\ stored' = stored \union got
    /\ answered' = [answered EXCEPT ![t] = @ \/ completed]
    /\ MarkMissing(t)
    /\ UNCHANGED <<locks, syncing, missing, failed, fresh>>

\* No negentropy has failed: there is nothing to fetch.
NothingFailed(t) ==
    /\ stage[t] = "stored" /\ marking[t] = {} /\ ~failed[t] /\ missing[t] # {}
    /\ UNCHANGED answered
    /\ MarkMissing(t)
    /\ UNCHANGED <<locks, syncing, missing, failed, store>>

\* mutant: the guard's drop spawns no cleanup
DropGuard_NoCleanup(t) ==
    /\ stage[t] \in Working
    /\ ReleasePermits(t)
    /\ UNCHANGED <<mutex, inFlight, cleaning, store>>

\* The synchronisation returns, fails or is dropped: the guard goes.
DropGuard(t) ==
    /\ stage[t] \in Working
    /\ ReleasePermits(t)
    /\ cleaning' = [cleaning EXCEPT ![wanted[t]] = @ + 1]
    /\ UNCHANGED <<mutex, inFlight, store>>

\* mutant: the semaphore is removed although a permit is out
Cleanup_Always(ks) ==
    /\ cleaning[ks] > 0 /\ mutex = None
    /\ inFlight' = [k \in Keys |-> IF k \in ks THEN None ELSE inFlight[k]]
    /\ cleaning' = [cleaning EXCEPT ![ks] = @ - 1]
    /\ UNCHANGED <<mutex, permits, stage, wanted, handle, taken, fetch, store>>

\* cleanup, under the mutex: nobody has a permit, and whoever would wait for
\* one would hold the mutex.
Cleanup(ks) ==
    /\ cleaning[ks] > 0 /\ mutex = None
    /\ inFlight' = [k \in Keys |->
                      IF k \in ks /\ inFlight[k] # None /\ permits[inFlight[k]] = PermitNum
                      THEN None ELSE inFlight[k]]
    /\ cleaning' = [cleaning EXCEPT ![ks] = @ - 1]
    /\ UNCHANGED <<mutex, permits, stage, wanted, handle, taken, fetch, store>>

\* The status of a key becomes Outdated again.
Expire(k) ==
    /\ k \in fresh
    /\ fresh' = fresh \ {k}
    /\ UNCHANGED <<locks, stage, fetch, stored>>

FetchStep(t) ==
    \/ CheckAgain(t)
    \/ \E success, failure \in BOOLEAN, got \in SUBSET Keys :
         SyncNegentropy(t, success, failure, got)
    \/ \E k \in Keys : MarkChecked(t, k)
    \/ \E got \in SUBSET Keys : FetchNewer(t, got)
    \/ \E completed \in BOOLEAN, got \in SUBSET Keys : FetchMissing(t, completed, got)
    \/ NothingFailed(t)

TaskStep(t) ==
    \/ \E ks \in SUBSET Keys : StartSync(t, ks)
    \/ LockInFlight(t)
    \/ \E k \in Keys : TakePermit(t, k)
    \/ ReturnPermit(t) \/ CancelSync(t) \/ FetchStep(t) \/ DropGuard(t)

SyncNext ==
    \/ \E t \in Syncs : TaskStep(t)
    \/ \E ks \in SUBSET Keys : Cleanup(ks)
    \/ \E k \in Keys : Expire(k)

(***************************************************************************)
(* The tokio mutex is fair, ready tasks are polled, and a synchronisation  *)
(* ends because every fetch of it has a timeout.                           *)
(***************************************************************************)
SyncFairness ==
    /\ \A t \in Syncs :
         /\ SF_syncVars(LockInFlight(t))
         /\ WF_syncVars((\E k \in Keys : TakePermit(t, k)) \/ ReturnPermit(t) \/ DropGuard(t))
    /\ \A ks \in (SUBSET Keys) \ {{}} : SF_syncVars(Cleanup(ks))

SyncSpec     == SyncInit /\ [][SyncNext]_syncVars
FairSyncSpec == SyncSpec /\ SyncFairness

-----------------------------------------------------------------------------
(* Properties                                                              *)

(* A permit is always one of the semaphore that in_flight has for the key: *)
(* cleanup never removes a semaphore in use, so two tasks cannot hold      *)
(* permits of two semaphores for one key.                                  *)
PermitsInFlight ==
    \A t \in Syncs : \A k \in taken[t] :
        inFlight[k] = handle[t][k] /\ permits[inFlight[k]] = 0

(* Keys do not share semaphores, and a permit has one owner.               *)
OneOwner ==
    /\ \A j, k \in Keys : inFlight[j] = inFlight[k] /\ inFlight[j] # None => j = k
    /\ \A t, u \in Syncs : t # u => taken[t] \cap taken[u] = {}

(* While acquire waits for permits under the mutex, its Arcs are in the map *)
WaitsInFlight ==
    \A t \in Syncs : stage[t] = "permits" =>
        \A k \in wanted[t] : inFlight[k] = handle[t][k]

(* The inductive invariant behind the theorems about it in RelayPoolProofs. *)
SemaphoreInv == SyncTypeOK /\ PermitsInFlight /\ OneOwner /\ WaitsInFlight

(* What a fetch relies on: what it marks is what it fetches, and has a list *)
(* or an answer; the keys not missing have lists.                          *)
FetchInv ==
    \A t \in Syncs :
        /\ marking[t] \union missing[t] \subseteq syncing[t]
        /\ answered[t] \/ marking[t] \subseteq stored
        /\ stage[t] \notin Fetching => marking[t] \union missing[t] = {}
        /\ stage[t] \in {"stored", "newer"} => syncing[t] \ missing[t] \subseteq stored

(* No key is fetched by two tasks, and what a task has still to ask relays *)
(* for is outdated: nobody updates a key between the second look of the    *)
(* task and the last of its three rounds of requests, although others      *)
(* take and return permits, cancel and clean up meanwhile.                 *)
NothingFetchedTwice ==
    \A t \in Syncs :
        /\ \A u \in Syncs \ {t} : syncing[t] \cap syncing[u] = {}
        /\ stage[t] = "sync" => syncing[t] \cap fresh = {}
        /\ stage[t] \in {"stored", "newer"} => missing[t] \cap fresh = {}

(* Its inductive strengthening: a task fetches keys it has permits for, and *)
(* what it marks as checked it does not ask for any more.                  *)
FetchedOnceInv ==
    /\ NothingFetchedTwice
    /\ \A t \in Syncs :
         /\ syncing[t] \subseteq taken[t]
         /\ stage[t] = "sync" => marking[t] = {}
         /\ stage[t] \in {"stored", "newer"} => marking[t] \cap missing[t] = {}

(* "This method is guaranteed to never deadlock, no matter how many        *)
(* concurrent requests or how they overlap."                               *)
AcquireReturns ==
    \A t \in Syncs : []<>(stage[t] \notin {"lock", "permits"})

(* "A total failure, such as missing network, MUST NOT block retries until *)
(* the TTL expires": a key without a stored list becomes Updated only in a *)
(* synchronisation of that key to which some relay has answered.           *)
FailuresAreRetried ==
    [][\A k \in fresh' \ fresh :
         \E t \in Syncs : k \in syncing[t] /\ (answered[t] \/ k \in stored)]_syncVars

(* The entries of a guard do not outlive it: after its drop each of them is *)
(* removed, or somebody is in acquire for that key again.                  *)
UsedIsRemoved ==
    \A k \in Keys :
        (\E t \in Syncs : stage[t] \in Working /\ k \in wanted[t]) ~>
            \/ inFlight[k] = None
            \/ \E u \in Syncs : k \in wanted[u] /\ stage[u] \in {"lock", "permits"}

(* "Semaphores are properly cleaned up when no longer needed": an entry of *)
(* in_flight that nobody uses is removed.                                  *)
UnusedIsRemoved ==
    \A k \in Keys : inFlight[k] # None ~>
        (inFlight[k] = None \/ \E t \in Syncs : k \in wanted[t])

(* The semaphore implements exclusive, atomic key locks.                   *)
Locks == INSTANCE KeyLocks WITH
    Tasks <- Syncs,
    working <- [t \in Syncs |-> IF stage[t] \in Working THEN wanted[t] ELSE {}]

ImplementsKeyLocks == Locks!Spec
=============================================================================
