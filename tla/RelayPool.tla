------------------------------ MODULE RelayPool ------------------------------
(***************************************************************************)
(* The pool of relays behind a Client (nostr-sdk/src/pool/mod.rs), with    *)
(* the requests of nostr-sdk/src/client/api/ as sequences of pool          *)
(* operations, the handles that keep the client alive                      *)
(* (nostr-sdk/src/client/mod.rs), the clones of a relay that the           *)
(* application may keep (nostr-sdk/src/relay/mod.rs) and the background    *)
(* refresher with its weak handle (nostr-sdk/src/client/gossip/).          *)
(*                                                                         *)
(* The map of relays is under a tokio RwLock, which serves in the order of *)
(* arrival.  A writer awaits nothing while it holds the lock: one action.  *)
(* A fan-out keeps a shared lock until every relay has answered or timed   *)
(* out.  A call may be dropped wherever it awaits.                         *)
(***************************************************************************)
EXTENDS Naturals, Sequences, FiniteSets

CONSTANTS
    Apps,           \* tasks of the application, each with a Client of its own
    Refresher,      \* the task of spawn_gossip_background_refresher
    Urls,           \* relay URLs
    Copies,         \* allocations of Relay, the same for each URL
    Calls,          \* the calls that each task of the application may make
    MaxRelays,      \* max_relays
    Lists,          \* the kinds of gossip list that a round refreshes
    Nothing,        \* Option::None
    MaxHeld         \* bound of the model: relays that the application keeps

ASSUME TasksAssumption   == Refresher \notin Apps
ASSUME NothingAssumption == Nothing \notin Urls \union (Urls \X Copies)
ASSUME NumberAssumption  == MaxRelays \in Nat /\ Lists \in Nat /\ MaxHeld \in Nat

Tasks  == Apps \union {Refresher}
Relays == Urls \X Copies

VARIABLES
    pool,       \* RelayPool.relays
    relay,      \* the status and the capabilities of each Relay
    held,       \* the relays that the application has clones of
    shutdown,   \* RelayPool.shutdown
    handles,    \* who has a strong reference to the client
    pc, call,   \* where each task is, and the call it makes
    waiting,    \* who waits for the lock, the first to be served first
    lists,      \* lists left in the refresher's round
    forced,     \* history: the URLs whose relay was removed by force or shut down
    late        \* history: the URLs being added at the time of the shutdown

vars == <<pool, relay, held, shutdown, handles, pc, call, waiting, lists, forced, late>>

Capability == {"read", "write", "gossip", "discovery"}

\* The operations on the pool that a call is made of.
Step == {"add", "gather", "ask", "connect", "visit", "disconnect",
         "relay", "remove", "remove_all", "shutdown"}
WriteStep == {"remove", "remove_all", "shutdown"}

\* plan: the steps to come; urls: the relays it is about; todo: those still to
\* add, with caps and maybe a connection, next the one being added and added
\* those that are; select: the relays to gather.
CallType == [plan : Seq(Step), urls : SUBSET Urls, todo : SUBSET Urls,
             next : Urls \union {Nothing}, added : SUBSET Urls, caps : SUBSET Capability, connect : BOOLEAN, force : BOOLEAN,
             select : SUBSET Capability]

ASSUME CallsAssumption ==
    \A t \in Apps : \A c \in Calls[t] : c \in CallType /\ c.next = Nothing /\ c.added = {}

NoCall == [plan |-> <<>>, urls |-> {}, todo |-> {}, next |-> Nothing, added |-> {}, caps |-> {}, connect |-> FALSE,
           force |-> FALSE, select |-> {}]

-----------------------------------------------------------------------------
(* The calls of the client                                                 *)

PlanOf(steps, us) == [NoCall EXCEPT !.plan = steps, !.urls = us]

\* client.add_relay
AddCall(u, caps, connect) ==
    [PlanOf(<<"add">>, {u}) EXCEPT !.todo = {u}, !.caps = caps, !.connect = connect]

\* With gossip: the relays us of the broken down filters are added, then asked.
GossipRequest(us) ==
    [PlanOf(<<"add", "ask">>, us) EXCEPT !.todo = us, !.caps = {"gossip"}, !.connect = TRUE]

\* An orphan filter goes to the READ relays, which are added in the same way.
OrphanRequest ==
    [PlanOf(<<"gather", "add", "ask">>, {}) EXCEPT
        !.select = {"read"}, !.caps = {"gossip"}, !.connect = TRUE]

\* An event goes to the relays us that gossip has found, and to the WRITE ones.
GossipSend(us) ==
    [PlanOf(<<"add", "gather", "ask">>, us) EXCEPT
        !.todo = us, !.select = {"write"}, !.caps = {"gossip"}, !.connect = TRUE]

\* Without gossip, and for a broadcast: every relay with one of the roles caps.
RequestToAll(caps) == [PlanOf(<<"gather", "ask">>, {}) EXCEPT !.select = caps]

\* A target that the caller has given.
RequestTo(us) == PlanOf(<<"ask">>, us)

ConnectCall(us)       == PlanOf(<<"connect">>, us)
DisconnectCall(us)    == PlanOf(<<"disconnect">>, us)
UnsubscribeCall       == PlanOf(<<"visit">>, {})
RelayCall(u)          == PlanOf(<<"relay">>, {u})
RemoveCall(u, force)  == [PlanOf(<<"remove">>, {u}) EXCEPT !.force = force]
RemoveAllCall(force)  == [PlanOf(<<"remove_all">>, {}) EXCEPT !.force = force]
ShutdownCall          == PlanOf(<<"shutdown">>, {})

\* A round of the refresher synchronises with the relays for discovery.
RefreshCall == RequestToAll({"read", "discovery"})

-----------------------------------------------------------------------------
(* State                                                                   *)

\* idle is Initialized or Idle; terminal is Banned or Shutdown, or not allocated;
\* on is every status in which the connection task is at work.
RelayStatus == {"idle", "on", "terminal"}

AppPlaces       == {"idle", "gone"}
RefresherPlaces == {"asleep", "woken", "between", "ended"}
CallPlaces      == {"adding", "admitting", "write", "read", "shared"}

Typed ==
    /\ pool \in [Urls -> Relays \union {Nothing}]
    /\ relay \in [Relays -> [status : RelayStatus, caps : SUBSET Capability]]
    /\ held \subseteq Relays
    /\ shutdown \in BOOLEAN
    /\ handles \subseteq Tasks
    /\ pc \in [Tasks -> AppPlaces \union RefresherPlaces \union CallPlaces]
    /\ call \in [Tasks -> CallType]
    /\ lists \in 0..Lists
    /\ forced \subseteq Urls
    /\ late \subseteq Urls

TypeOK == Typed /\ waiting \in Seq(Tasks)

Init ==
    /\ pool = [u \in Urls |-> Nothing]
    /\ relay = [i \in Relays |-> [status |-> "terminal", caps |-> {}]]
    /\ held = {}
    /\ shutdown = FALSE
    /\ handles = Apps
    /\ pc = [t \in Tasks |-> IF t = Refresher THEN "asleep" ELSE "idle"]
    /\ call = [t \in Tasks |-> NoCall]
    /\ waiting = <<>>
    /\ lists = 0
    /\ forced = {}
    /\ late = {}

-----------------------------------------------------------------------------
(* Relays                                                                  *)

InPool(i) == \E u \in Urls : pool[u] = i
Present   == {u \in Urls : pool[u] # Nothing}

\* InnerRelay::request_connect, ::disconnect and ::shutdown (RelayConnection is
\* about them): a terminal status stays.
Connected(r)    == IF r.status = "idle" THEN [r EXCEPT !.status = "on"] ELSE r
Disconnected(r) == IF r.status = "on" THEN [r EXCEPT !.status = "idle"] ELSE r
ShutDown(r)     == [r EXCEPT !.status = "terminal"]
LeftPool(r)     == [r EXCEPT !.caps = {}]       \* they matter in a pool only

\* Those of the relays rs that Change applies to.
Changed(rs, is, Change(_)) == [i \in Relays |-> IF i \in is THEN Change(rs[i]) ELSE rs[i]]

\* Relay::drop: the references is go; nobody has a clone: the relay shuts down.
Released(rs, is, clones) == Changed(rs, is \ clones, ShutDown)

\* can_remove_relay
CanRemove(i) == "gossip" \notin relay[i].caps
WithoutRoles(r) == [r EXCEPT !.caps = @ \ {"read", "write", "discovery"}]

\* shutdown of the pool, twice the same as once: every relay shuts down, the
\* map is empty.
ShutDownPool ==
    /\ shutdown' = TRUE
    /\ IF shutdown THEN UNCHANGED <<pool, relay, forced, late>>
       ELSE /\ pool' = [u \in Urls |-> Nothing]
            /\ relay' = Changed(relay, {pool[u] : u \in Present}, LAMBDA r : LeftPool(ShutDown(r)))
            /\ forced' = Urls
            /\ late' = {call[t].next : t \in Tasks} \ {Nothing}

-----------------------------------------------------------------------------
(* Handles of the client                                                   *)

\* t's Client is dropped; the last one takes the pool with it: RelayPool::drop
\* shuts it down, unless that was done before, and the map is dropped.
DropHandle(t) ==
    /\ handles' = handles \ {t}
    /\ IF handles # {t} THEN UNCHANGED <<pool, relay, shutdown, forced>>
       ELSE /\ shutdown' = TRUE
            /\ pool' = [u \in Urls |-> Nothing]
            /\ LET was == {pool[u] : u \in Present}
               IN  relay' = IF shutdown
                            THEN Released(Changed(relay, was, LeftPool), was, held)
                            ELSE Changed(relay, was, LAMBDA r : LeftPool(ShutDown(r)))
            /\ forced' = Urls

DropClient(t) ==
    /\ t \in Apps /\ pc[t] = "idle"
    /\ DropHandle(t)
    /\ pc' = [pc EXCEPT ![t] = "gone"]
    /\ UNCHANGED <<held, call, waiting, lists, late>>

-----------------------------------------------------------------------------
(* Calls                                                                   *)

Rest(t) == IF t = Refresher THEN "between" ELSE "idle"

\* The call ends, with an error or a result.
End(t) ==
    /\ pc' = [pc EXCEPT ![t] = Rest(t)]
    /\ call' = [call EXCEPT ![t] = NoCall]

\* The call goes on with c, from the lock it has or none; queue is who waits
\* for the lock besides.  A fan-out without relays is an error at once; every
\* step but add waits for the lock first.
GoOn(t, c, queue) ==
    IF c.plan = <<>> \/ (Head(c.plan) = "ask" /\ c.urls = {})
    THEN End(t) /\ waiting' = queue
    ELSE /\ call' = [call EXCEPT ![t] = c]
         /\ IF Head(c.plan) = "add"
            THEN pc' = [pc EXCEPT ![t] = "adding"] /\ waiting' = queue
            ELSE /\ pc' = [pc EXCEPT ![t] = IF Head(c.plan) \in WriteStep THEN "write" ELSE "read"]
                 /\ waiting' = Append(queue, t)

Done(c) == [c EXCEPT !.plan = Tail(@)]

Begin(t, c) ==
    /\ t \in Apps /\ pc[t] = "idle"
    /\ GoOn(t, c, waiting)
    /\ UNCHANGED <<pool, relay, held, shutdown, handles, lists, forced, late>>

\* The lock is t's turn: shared, or alone.
Granted(t, mode) ==
    /\ waiting # <<>> /\ Head(waiting) = t
    /\ pc[t] = mode
    /\ mode = "write" => \A x \in Tasks : pc[x] # "shared"

\* mutant: the flag is not looked at
StartAdd_Anyway(t) ==
    /\ pc[t] = "adding"
    /\ IF call[t].todo = {} THEN GoOn(t, Done(call[t]), waiting)
       ELSE \E u \in call[t].todo :
              /\ call' = [call EXCEPT ![t].next = u, ![t].todo = @ \ {u}]
              /\ pc' = [pc EXCEPT ![t] = "admitting"]
              /\ UNCHANGED waiting
    /\ UNCHANGED <<pool, relay, held, shutdown, handles, lists, forced, late>>

\* add_relay for one of the relays to add: not after a shutdown.
StartAdd(t) ==
    /\ pc[t] = "adding"
    /\ IF call[t].todo = {} THEN GoOn(t, Done(call[t]), waiting)
       ELSE IF shutdown THEN End(t) /\ UNCHANGED waiting
       ELSE \E u \in call[t].todo :
              /\ call' = [call EXCEPT ![t].next = u, ![t].todo = @ \ {u}]
              /\ pc' = [pc EXCEPT ![t] = "admitting"]
              /\ UNCHANGED waiting
    /\ UNCHANGED <<pool, relay, held, shutdown, handles, lists, forced, late>>

\* The admission policy answers: success, rejected or an error.  Rejected is
\* none: the relay stays among those that the call is about.
Admit(t) ==
    /\ pc[t] = "admitting"
    /\ \/ /\ pc' = [pc EXCEPT ![t] = "write"]
          /\ waiting' = Append(waiting, t)
          /\ UNCHANGED call
       \/ GoOn(t, [call[t] EXCEPT !.next = Nothing], waiting)
       \/ End(t) /\ UNCHANGED waiting
    /\ UNCHANGED <<pool, relay, held, shutdown, handles, lists, forced, late>>

\* Allocations of u that are not in use.
FreeFor(u) == {n \in Copies : /\ pool[u] # <<u, n>> /\ <<u, n>> \notin held
                              /\ relay[<<u, n>>].status = "terminal"}
NewRelay(u) == <<u, CHOOSE n \in FreeFor(u) : TRUE>>

\* mutant: an existing relay keeps the capabilities it has
Extended_Kept(r, c) == IF c.connect THEN Connected(r) ELSE r

\* What an add does to a relay that is in the pool.
Extended(r, c) ==
    LET with == [r EXCEPT !.caps = @ \union c.caps]
    IN  IF c.connect THEN Connected(with) ELSE with

AfterAdd(c) == [c EXCEPT !.next = Nothing, !.added = @ \union {c.next}]

\* The rest of add_relay, under the lock: an existing relay is extended; else
\* there may be too many; else a new relay comes.
AddRelay(t) ==
    /\ Granted(t, "write") /\ Head(call[t].plan) = "add"
    /\ LET c == call[t]
           u == c.next
       IN  \/ /\ u \in Present
              /\ relay' = [relay EXCEPT ![pool[u]] = Extended(@, c)]
              /\ GoOn(t, AfterAdd(c), Tail(waiting))
              /\ UNCHANGED pool
           \/ /\ u \notin Present /\ Cardinality(Present) >= MaxRelays
              /\ End(t) /\ waiting' = Tail(waiting)
              /\ UNCHANGED <<pool, relay>>
           \/ /\ u \notin Present /\ Cardinality(Present) < MaxRelays
              /\ FreeFor(u) # {}
              /\ pool' = [pool EXCEPT ![u] = NewRelay(u)]
              /\ relay' = [relay EXCEPT ![NewRelay(u)] = Extended([status |-> "idle", caps |-> {}], c)]
              /\ GoOn(t, AfterAdd(c), Tail(waiting))
    /\ UNCHANGED <<held, shutdown, handles, lists, forced, late>>

\* remove_relay: not found; kept for gossip; or removed and disconnected.
RemoveRelay(t) ==
    /\ Granted(t, "write") /\ Head(call[t].plan) = "remove"
    /\ \E u \in call[t].urls :
         \/ u \notin Present /\ UNCHANGED <<pool, relay, forced>>
         \/ /\ u \in Present /\ ~call[t].force /\ ~CanRemove(pool[u])
            /\ relay' = [relay EXCEPT ![pool[u]] = WithoutRoles(@)]
            /\ UNCHANGED <<pool, forced>>
         \/ /\ u \in Present /\ (call[t].force \/ CanRemove(pool[u]))
            /\ pool' = [pool EXCEPT ![u] = Nothing]
            /\ relay' = Released([relay EXCEPT ![pool[u]] = LeftPool(Disconnected(@))], {pool[u]}, held)
            /\ forced' = IF call[t].force THEN forced \union {u} ELSE forced
    /\ GoOn(t, Done(call[t]), Tail(waiting))
    /\ UNCHANGED <<held, shutdown, handles, lists, late>>

\* remove_all_relays: those that go shut down, the others lose their roles.
RemoveAllRelays(t) ==
    /\ Granted(t, "write") /\ Head(call[t].plan) = "remove_all"
    /\ LET gone == {u \in Present : call[t].force \/ CanRemove(pool[u])}
       IN  /\ pool' = [u \in Urls |-> IF u \in gone THEN Nothing ELSE pool[u]]
           /\ relay' = Changed(Changed(relay, {pool[u] : u \in gone}, LAMBDA r : LeftPool(ShutDown(r))),
                               {pool[u] : u \in Present \ gone}, WithoutRoles)
           /\ forced' = IF call[t].force THEN forced \union gone ELSE forced
    /\ GoOn(t, Done(call[t]), Tail(waiting))
    /\ UNCHANGED <<held, shutdown, handles, lists, late>>

\* Client::shutdown
Shutdown(t) ==
    /\ Granted(t, "write") /\ Head(call[t].plan) = "shutdown"
    /\ ShutDownPool
    /\ GoOn(t, Done(call[t]), Tail(waiting))
    /\ UNCHANGED <<held, handles, lists>>

\* relay_urls_with_any_cap: the relays that the call is about, with those it
\* knew of; for an orphan filter they are to be added.
Gather(t) ==
    /\ Granted(t, "read") /\ Head(call[t].plan) = "gather"
    /\ LET found == {u \in Present : relay[pool[u]].caps \cap call[t].select # {}}
       IN  GoOn(t, [Done(call[t]) EXCEPT
                      !.urls = @ \union found,
                      !.todo = IF Head(Done(call[t]).plan) = "add" THEN found ELSE {}],
                Tail(waiting))
    /\ UNCHANGED <<pool, relay, held, shutdown, handles, lists, forced, late>>

\* relay, relays_with_any_cap: the application gets a clone, and keeps it if it
\* has not MaxHeld of them.
TakeRelay(t) ==
    /\ Granted(t, "read") /\ Head(call[t].plan) = "relay"
    /\ \E u \in call[t].urls :
         held' = IF u \in Present /\ Cardinality(held) < MaxHeld THEN held \union {pool[u]} ELSE held
    /\ GoOn(t, Done(call[t]), Tail(waiting))
    /\ UNCHANGED <<pool, relay, shutdown, handles, lists, forced, late>>

\* connect, connect_relay, try_connect and wait_for_connection: the lock is
\* kept until the relays are connected or the time is up.
Connect(t) ==
    /\ Granted(t, "read") /\ Head(call[t].plan) = "connect"
    /\ relay' = Changed(relay, {pool[u] : u \in Present \cap call[t].urls}, Connected)
    /\ pc' = [pc EXCEPT ![t] = "shared"]
    /\ waiting' = Tail(waiting)
    /\ UNCHANGED <<pool, held, shutdown, handles, call, lists, forced, late>>

\* unsubscribe and unsubscribe_all, the subscriptions: every relay that is
\* there, under the lock.
Visit(t) ==
    /\ Granted(t, "read") /\ Head(call[t].plan) = "visit"
    /\ pc' = [pc EXCEPT ![t] = "shared"]
    /\ waiting' = Tail(waiting)
    /\ UNCHANGED <<pool, relay, held, shutdown, handles, call, lists, forced, late>>

\* disconnect, disconnect_relay
Disconnect(t) ==
    /\ Granted(t, "read") /\ Head(call[t].plan) = "disconnect"
    /\ relay' = Changed(relay, {pool[u] : u \in Present \cap call[t].urls}, Disconnected)
    /\ GoOn(t, Done(call[t]), Tail(waiting))
    /\ UNCHANGED <<pool, held, shutdown, handles, lists, forced, late>>

\* send_msg, send_event, subscribe, sync, stream_events: one relay is not
\* found: the whole request fails before any relay is asked.
Ask(t) ==
    /\ Granted(t, "read") /\ Head(call[t].plan) = "ask"
    /\ IF call[t].urls \subseteq Present
       THEN pc' = [pc EXCEPT ![t] = "shared"] /\ UNCHANGED call
       ELSE End(t)
    /\ waiting' = Tail(waiting)
    /\ UNCHANGED <<pool, relay, held, shutdown, handles, lists, forced, late>>

\* Every relay has answered, failed or timed out: the lock is dropped.
Answered(t) ==
    /\ pc[t] = "shared"
    /\ GoOn(t, Done(call[t]), waiting)
    /\ UNCHANGED <<pool, relay, held, shutdown, handles, lists, forced, late>>

\* The caller drops the future.
Cancel(t) ==
    /\ t \in Apps /\ pc[t] \in {"admitting", "write", "read", "shared"}
    /\ End(t)
    /\ waiting' = SelectSeq(waiting, LAMBDA x : x # t)
    /\ UNCHANGED <<pool, relay, held, shutdown, handles, lists, forced, late>>

-----------------------------------------------------------------------------
(* The application and its relays                                          *)

ConnectHeld(i) ==
    /\ i \in held /\ relay[i].status = "idle"
    /\ relay' = [relay EXCEPT ![i] = Connected(@)]
    /\ UNCHANGED <<pool, held, shutdown, handles, pc, call, waiting, lists, forced, late>>

\* disconnect, ban and shutdown of a relay that the application holds
StopHeld(i) ==
    /\ i \in held
    /\ \/ relay[i].status = "on" /\ relay' = [relay EXCEPT ![i] = Disconnected(@)]
       \/ relay[i].status # "terminal" /\ relay' = [relay EXCEPT ![i] = ShutDown(@)]
    /\ UNCHANGED <<pool, held, shutdown, handles, pc, call, waiting, lists, forced, late>>

DropHeld(i) ==
    /\ i \in held
    /\ held' = held \ {i}
    /\ relay' = IF InPool(i) THEN relay ELSE Released(relay, {i}, held')
    /\ UNCHANGED <<pool, shutdown, handles, pc, call, waiting, lists, forced, late>>

-----------------------------------------------------------------------------
(* The background refresher                                                *)

\* The weak handle is upgraded; there is no client any more: the task ends.
Wake ==
    /\ pc[Refresher] = "asleep"
    /\ IF handles = {}
       THEN pc' = [pc EXCEPT ![Refresher] = "ended"] /\ UNCHANGED handles
       ELSE /\ pc' = [pc EXCEPT ![Refresher] = "woken"]
            /\ handles' = handles \union {Refresher}
    /\ UNCHANGED <<pool, relay, held, shutdown, call, waiting, lists, forced, late>>

StartRound ==
    /\ pc[Refresher] = "woken" /\ ~shutdown
    /\ pc' = [pc EXCEPT ![Refresher] = "between"]
    /\ lists' = Lists
    /\ UNCHANGED <<pool, relay, held, shutdown, handles, call, waiting, forced, late>>

\* is_shutdown: the handle is dropped with the loop.
StopRefreshing ==
    /\ pc[Refresher] = "woken" /\ shutdown
    /\ DropHandle(Refresher)
    /\ pc' = [pc EXCEPT ![Refresher] = "ended"]
    /\ UNCHANGED <<held, call, waiting, lists, late>>

\* refresh_gossip_list_kind_in_background: nothing is outdated, or the relays
\* for discovery are asked (GossipSync is about the rest of it).
RefreshList ==
    /\ pc[Refresher] = "between" /\ lists > 0
    /\ lists' = lists - 1
    /\ \/ UNCHANGED <<pc, call, waiting>>
       \/ GoOn(Refresher, RefreshCall, waiting)
    /\ UNCHANGED <<pool, relay, held, shutdown, handles, forced, late>>

\* mutant: the handle is kept until the end of the sleep
Sleep_KeepsHandle ==
    /\ pc[Refresher] = "between" /\ lists = 0
    /\ pc' = [pc EXCEPT ![Refresher] = "asleep"]
    /\ UNCHANGED <<pool, relay, held, shutdown, handles, call, waiting, lists, forced, late>>

\* drop(client), "before sleeping"
Sleep ==
    /\ pc[Refresher] = "between" /\ lists = 0
    /\ DropHandle(Refresher)
    /\ pc' = [pc EXCEPT ![Refresher] = "asleep"]
    /\ UNCHANGED <<held, call, waiting, lists, late>>

-----------------------------------------------------------------------------

CallStep(t) ==
    \/ StartAdd(t) \/ Admit(t) \/ AddRelay(t)
    \/ RemoveRelay(t) \/ RemoveAllRelays(t) \/ Shutdown(t)
    \/ Gather(t) \/ TakeRelay(t) \/ Connect(t) \/ Visit(t) \/ Disconnect(t) \/ Ask(t)
    \/ Answered(t)

RefresherStep == Wake \/ StartRound \/ StopRefreshing \/ RefreshList \/ Sleep

HeldStep == \E i \in Relays : ConnectHeld(i) \/ StopHeld(i) \/ DropHeld(i)

Next ==
    \/ \E t \in Apps : (\E c \in Calls[t] : Begin(t, c)) \/ Cancel(t) \/ DropClient(t)
    \/ \E t \in Tasks : CallStep(t)
    \/ RefresherStep
    \/ HeldStep

(* The runtime runs every task that can go on; a policy and a fan-out end,   *)
(* the latter by its timeouts.  The application need not do anything.        *)
Fairness ==
    /\ \A t \in Tasks : WF_vars(CallStep(t))
    /\ WF_vars(RefresherStep)

Spec == Init /\ [][Next]_vars /\ Fairness

-----------------------------------------------------------------------------
(* Properties                                                              *)

(* Whatever order calls, removals, shutdowns and drops of the client and of  *)
(* clones come in: a relay that works at its connection is in the hands of   *)
(* the application, or in the pool of a client that still lives.  After a    *)
(* shutdown the pool is empty but for a relay whose add_relay had passed the *)
(* test of the flag before.                                                  *)
RunningIsOwned ==
    \A i \in Relays : relay[i].status = "on" =>
        \/ i \in held
        \/ \E u \in Urls : /\ pool[u] = i /\ handles # {}
                           /\ shutdown => u \in late

(* "Relay has GOSSIP capability, so it can't be removed": what a request has *)
(* added for gossip stays in the pool with that capability until the request *)
(* has asked it, unless somebody removes it by force.                        *)
AddedRelaysStay ==
    \A t \in Tasks : "gossip" \in call[t].caps =>
        \A u \in call[t].added \ forced :
            pool[u] # Nothing /\ "gossip" \in relay[pool[u]].caps

(* What the two rest on.  A call is under way as long as it has steps left,  *)
(* and its caller has a handle; the relay that it is adding, if the client   *)
(* is shut down, was being added then.                                       *)
CallOK(t) ==
    /\ pc[t] \in CallPlaces => call[t].plan # <<>>
    /\ pc[t] \notin CallPlaces => call[t] = NoCall
    /\ pc[t] \in CallPlaces \union {"idle", "woken", "between"} => t \in handles
    /\ \/ pc[t] = "admitting"
       \/ pc[t] = "write" /\ Head(call[t].plan) = "add"
       => call[t].next \in Urls
    /\ shutdown => call[t].next \in late \union {Nothing}

(* A relay is in the pool under its own URL; nobody's pool is empty, as is   *)
(* that of a client shut down but for what is late; what runs is owned.      *)
PoolOK ==
    /\ \A u \in Present : pool[u] \in {u} \X Copies
    /\ handles = {} => Present = {}
    /\ shutdown => Present \subseteq late
    /\ \A i \in Relays : relay[i].status = "on" => i \in held \/ InPool(i)

PoolInv == Typed /\ (\A t \in Tasks : CallOK(t)) /\ PoolOK /\ AddedRelaysStay

(* Everybody who waits for the lock, for a policy or for relays goes on: a   *)
(* call returns.  When the application has dropped its clients, so does the  *)
(* refresher: the pool goes, and the refresher ends.                         *)
CallsReturn ==
    /\ \A t \in Apps : []<>(pc[t] \notin CallPlaces)
    /\ []<>(handles \cap Apps # {} \/ (handles = {} /\ pc[Refresher] = "ended"))
=============================================================================
