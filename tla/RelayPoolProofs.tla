---------------------------- MODULE RelayPoolProofs ----------------------------
(***************************************************************************)
(* PoolInv is inductive: what runs is owned, and what a request has added  *)
(* for gossip is there when it asks, for any number of tasks, relays and   *)
(* calls.  The second part is about the synchronisations that such a       *)
(* request begins with (GossipSync).                                       *)
(***************************************************************************)
EXTENDS RelayPool, GossipSync, TLAPS

\* The initial state
LEMMA InitPoolInv == Init => PoolInv
<1> SUFFICES ASSUME Init PROVE PoolInv
  OBVIOUS
<1>1. NoCall \in CallType
  BY DEF NoCall, CallType, Step
<1>2. Typed
  <2>1. pool \in [Urls -> Relays \union {Nothing}] /\ call \in [Tasks -> CallType]
    BY <1>1 DEF Init
  <2>2. relay \in [Relays -> [status : RelayStatus, caps : SUBSET Capability]]
    BY DEF Init, RelayStatus
  <2>3. pc \in [Tasks -> AppPlaces \union RefresherPlaces \union CallPlaces]
    BY DEF Init, AppPlaces, RefresherPlaces
  <2>4. held \subseteq Relays /\ handles \subseteq Tasks /\ forced \subseteq Urls /\ late \subseteq Urls
    BY DEF Init, Tasks
  <2>5. shutdown \in BOOLEAN
    BY DEF Init
  <2>6. lists \in 0..Lists
    BY NumberAssumption DEF Init
  <2> QED BY <2>1, <2>2, <2>3, <2>4, <2>5, <2>6 DEF Typed
<1>3. \A t \in Tasks : CallOK(t)
  BY TasksAssumption DEF Init, CallOK, NoCall, Tasks, CallPlaces
<1>4. PoolOK
  BY DEF Init, PoolOK, Present, Relays
<1>5. AddedRelaysStay
  BY DEF Init, AddedRelaysStay, NoCall
<1> QED BY <1>2, <1>3, <1>4, <1>5 DEF PoolInv

-----------------------------------------------------------------------------
(* Calls                                                                   *)

\* What a call leaves alone but for its own place and its own record.
Others(t) == \A x \in Tasks \ {t} : pc'[x] = pc[x] /\ call'[x] = call[x]

\* The call is over.
Ended(t) == pc'[t] = Rest(t) /\ call'[t] = NoCall

\* The call goes on with c.
Continues(t, c) ==
    /\ call'[t] = c /\ c.plan # <<>>
    /\ pc'[t] \in CallPlaces
    /\ \/ pc'[t] = "admitting"
       \/ pc'[t] = "write" /\ Head(c.plan) = "add"
       => c.next \in Urls

Goes(t, c) ==
    /\ Others(t)
    /\ pc' \in [Tasks -> AppPlaces \union RefresherPlaces \union CallPlaces]
    /\ call' \in [Tasks -> CallType]
    /\ Ended(t) \/ Continues(t, c)

\* End: the caller rests.
LEMMA EndGoes ==
  ASSUME Typed, NEW t \in Tasks, NEW c, End(t)
  PROVE  Goes(t, c) /\ Ended(t)
<1>1. NoCall \in CallType
  BY DEF NoCall, CallType, Step
<1>2. Rest(t) \in AppPlaces \union RefresherPlaces
  BY DEF Rest, AppPlaces, RefresherPlaces
<1> QED BY <1>1, <1>2 DEF Typed, End, Goes, Ended, Others

\* GoOn: the call is over, or its next step begins; the lock is not waited for
\* to add.
LEMMA GoOnGoes ==
  ASSUME Typed, NEW t \in Tasks, NEW c \in CallType, NEW queue, GoOn(t, c, queue)
  PROVE  Goes(t, c)
<1>1. CASE c.plan = <<>> \/ (Head(c.plan) = "ask" /\ c.urls = {})
  BY <1>1, EndGoes DEF GoOn
<1>2. CASE ~(c.plan = <<>> \/ (Head(c.plan) = "ask" /\ c.urls = {}))
  <2>1. call' = [call EXCEPT ![t] = c]
    BY <1>2 DEF GoOn
  <2>2. \E place \in CallPlaces :
           /\ pc' = [pc EXCEPT ![t] = place]
           /\ place # "admitting" /\ (place = "write" => Head(c.plan) # "add")
    BY <1>2 DEF GoOn, CallPlaces, WriteStep
  <2> QED BY <1>2, <2>1, <2>2 DEF Typed, Goes, Others, Continues, CallPlaces
<1> QED BY <1>1, <1>2

\* The callers after a step of one of them: what is left of the shutdown is late.
LEMMA CallsKept ==
  ASSUME PoolInv, NEW t \in Tasks, NEW c \in CallType, t \in handles,
         Goes(t, c), handles' = handles,
         shutdown' => c.next \in late' \union {Nothing},
         shutdown' => \A x \in Tasks : call[x].next \in late' \union {Nothing}
  PROVE  \A x \in Tasks : CallOK(x)'
<1>1. \A x \in Tasks : CallOK(x)
  BY DEF PoolInv
<1>2. ASSUME NEW x \in Tasks \ {t} PROVE CallOK(x)'
  <2>1. pc'[x] = pc[x] /\ call'[x] = call[x]
    BY DEF Goes, Others
  <2> QED BY <1>1, <2>1 DEF CallOK
<1>3. CallOK(t)'
  <2>1. CASE Ended(t)
    BY <2>1 DEF Ended, CallOK, Rest, NoCall, CallPlaces
  <2>2. CASE Continues(t, c)
    BY <2>2 DEF Continues, CallOK
  <2> QED BY <2>1, <2>2 DEF Goes
<1> QED BY <1>2, <1>3

\* A step of a call that changes neither the pool nor its relays.
LEMMA QuietStep ==
  ASSUME PoolInv, NEW t \in Tasks, NEW c \in CallType, t \in handles, Goes(t, c),
         UNCHANGED <<pool, relay, held, shutdown, handles, forced, late>>,
         lists' \in 0..Lists,
         shutdown => c.next \in late \union {Nothing},
         c.added = {} \/ (c.added = call[t].added /\ c.caps = call[t].caps)
  PROVE  PoolInv'
<1>1. Typed'
  BY DEF PoolInv, Typed, Goes
<1>2. \A x \in Tasks : CallOK(x)'
  <2>1. \A x \in Tasks : CallOK(x)
    BY DEF PoolInv
  <2>2. shutdown' => \A x \in Tasks : call[x].next \in late' \union {Nothing}
    BY <2>1 DEF CallOK
  <2> QED BY <2>2, CallsKept
<1>3. PoolOK'
  BY DEF PoolInv, PoolOK, Present, InPool
<1>4. AddedRelaysStay'
  BY DEF PoolInv, AddedRelaysStay, Goes, Others, Ended, Continues, NoCall
<1> QED BY <1>1, <1>2, <1>3, <1>4 DEF PoolInv

\* A call after one of its steps.
LEMMA DoneTyped ==
  ASSUME NEW c \in CallType, c.plan # <<>>
  PROVE  /\ Done(c) \in CallType
         /\ Done(c).next = c.next /\ Done(c).added = c.added /\ Done(c).caps = c.caps
<1>1. Tail(c.plan) \in Seq(Step)
  BY DEF CallType
<1> QED BY <1>1 DEF Done, CallType

-----------------------------------------------------------------------------
(* The steps that leave the pool alone                                     *)

LEMMA BeginStep ==
  ASSUME PoolInv, NEW t \in Apps, NEW c \in Calls[t], Begin(t, c)
  PROVE  PoolInv'
<1>1. t \in Tasks /\ t \in handles
  BY DEF PoolInv, CallOK, Begin, Tasks
<1>2. c \in CallType /\ c.next = Nothing /\ c.added = {}
  BY CallsAssumption
<1>3. Goes(t, c)
  BY <1>1, <1>2, GoOnGoes DEF PoolInv, Begin
<1> QED BY <1>1, <1>2, <1>3, QuietStep DEF Begin, PoolInv, Typed

\* A task that makes a call has a handle, and its call is not over.
LEMMA CallerHas ==
  ASSUME PoolInv, NEW t \in Tasks, pc[t] \in CallPlaces
  PROVE  /\ t \in handles /\ call[t] \in CallType /\ call[t].plan # <<>>
         /\ Done(call[t]) \in CallType /\ Done(call[t]).next = call[t].next
         /\ Done(call[t]).added = call[t].added /\ Done(call[t]).caps = call[t].caps
         /\ shutdown => call[t].next \in late \union {Nothing}
<1>1. t \in handles /\ call[t] \in CallType /\ call[t].plan # <<>>
  BY DEF PoolInv, CallOK, Typed
<1>2. shutdown => call[t].next \in late \union {Nothing}
  BY DEF PoolInv, CallOK
<1> QED BY <1>1, <1>2, DoneTyped

LEMMA StartAddStep ==
  ASSUME PoolInv, NEW t \in Tasks, StartAdd(t)
  PROVE  PoolInv'
<1> DEFINE done == Done(call[t])
<1>1. pc[t] \in CallPlaces
  BY DEF StartAdd, CallPlaces
<1>2. CASE call[t].todo = {}
  <2>1. Goes(t, done)
    BY <1>1, <1>2, CallerHas, GoOnGoes DEF StartAdd, PoolInv
  <2> QED BY <1>1, <2>1, CallerHas, QuietStep DEF StartAdd, PoolInv, Typed
<1>3. CASE call[t].todo # {} /\ shutdown
  <2>1. Goes(t, done)
    BY <1>3, EndGoes DEF StartAdd, PoolInv
  <2> QED BY <1>1, <2>1, CallerHas, QuietStep DEF StartAdd, PoolInv, Typed
<1>4. CASE call[t].todo # {} /\ ~shutdown
  <2>1. PICK u \in call[t].todo :
           /\ call' = [call EXCEPT ![t] = [call[t] EXCEPT !.next = u, !.todo = @ \ {u}]]
           /\ pc' = [pc EXCEPT ![t] = "admitting"]
    BY <1>4 DEF StartAdd, PoolInv, Typed
  <2> DEFINE c == [call[t] EXCEPT !.next = u, !.todo = @ \ {u}]
  <2>2. /\ c \in CallType /\ u \in Urls /\ c.next = u /\ c.plan = call[t].plan
        /\ c.added = call[t].added /\ c.caps = call[t].caps
    BY <1>1, CallerHas DEF CallType
  <2>3. Goes(t, c)
    <3>1. call' \in [Tasks -> CallType] /\ call'[t] = c
      BY <2>1, <2>2 DEF PoolInv, Typed
    <3>2. pc' \in [Tasks -> AppPlaces \union RefresherPlaces \union CallPlaces] /\ pc'[t] = "admitting"
      BY <2>1 DEF PoolInv, Typed, CallPlaces
    <3>3. Others(t)
      BY <2>1 DEF PoolInv, Typed, Others
    <3> HIDE DEF c
    <3> QED BY <1>1, <2>2, <3>1, <3>2, <3>3, CallerHas DEF Goes, Continues, CallPlaces
  <2> HIDE DEF c
  <2> QED BY <1>1, <1>4, <2>2, <2>3, CallerHas, QuietStep DEF StartAdd, PoolInv, Typed
<1> QED BY <1>2, <1>3, <1>4

LEMMA AdmitStep ==
  ASSUME PoolInv, NEW t \in Tasks, Admit(t)
  PROVE  PoolInv'
<1> DEFINE c == [call[t] EXCEPT !.next = Nothing]
<1>1. pc[t] \in CallPlaces
  BY DEF Admit, CallPlaces
<1>2. /\ c \in CallType /\ c.next = Nothing
      /\ c.added = call[t].added /\ c.caps = call[t].caps
  BY <1>1, CallerHas DEF CallType
<1>3. UNCHANGED <<pool, relay, held, shutdown, handles, forced, late>> /\ lists' \in 0..Lists
  BY DEF Admit, PoolInv, Typed
<1>4. CASE pc' = [pc EXCEPT ![t] = "write"] /\ UNCHANGED call
  <2>1. call[t].next \in Urls
    BY DEF Admit, PoolInv, CallOK
  <2>2. Goes(t, call[t])
    BY <1>1, <1>4, <2>1, CallerHas DEF PoolInv, Typed, Goes, Others, Continues, CallPlaces
  <2> QED BY <1>1, <1>3, <2>2, CallerHas, QuietStep
<1>5. CASE GoOn(t, c, waiting)
  <2>1. Goes(t, c)
    BY <1>2, <1>5, GoOnGoes DEF PoolInv
  <2> HIDE DEF c
  <2> QED BY <1>1, <1>2, <1>3, <2>1, CallerHas, QuietStep
<1>6. CASE End(t)
  <2>1. Goes(t, call[t])
    BY <1>6, EndGoes DEF PoolInv
  <2> QED BY <1>1, <1>3, <2>1, CallerHas, QuietStep
<1> QED BY <1>4, <1>5, <1>6 DEF Admit

LEMMA GatherStep ==
  ASSUME PoolInv, NEW t \in Tasks, Gather(t)
  PROVE  PoolInv'
<1> DEFINE found == {u \in Present : relay[pool[u]].caps \cap call[t].select # {}}
           todo  == IF Head(Done(call[t]).plan) = "add" THEN found ELSE {}
           c     == [Done(call[t]) EXCEPT !.urls = @ \union found, !.todo = todo]
<1>1. pc[t] \in CallPlaces
  BY DEF Gather, Granted, CallPlaces
<1>2. found \subseteq Urls /\ todo \subseteq Urls
  BY DEF Present
<1>3. /\ c \in CallType /\ c.next = call[t].next
      /\ c.added = call[t].added /\ c.caps = call[t].caps
  <2> HIDE DEF found, todo
  <2> QED BY <1>1, <1>2, CallerHas DEF CallType
<1>4. GoOn(t, c, Tail(waiting))
  BY DEF Gather
<1>5. UNCHANGED <<pool, relay, held, shutdown, handles, forced, late>> /\ lists' \in 0..Lists
  BY DEF Gather, PoolInv, Typed
<1> HIDE DEF c
<1>6. Goes(t, c)
  BY <1>3, <1>4, GoOnGoes DEF PoolInv
<1> QED BY <1>1, <1>3, <1>5, <1>6, CallerHas, QuietStep

LEMMA SharedSteps ==
  ASSUME PoolInv, NEW t \in Tasks, Visit(t) \/ Ask(t) \/ Answered(t)
  PROVE  PoolInv'
<1>1. pc[t] \in CallPlaces
  BY DEF Visit, Ask, Answered, Granted, CallPlaces
<1>2. UNCHANGED <<pool, relay, held, shutdown, handles, forced, late>> /\ lists' \in 0..Lists
  BY DEF Visit, Ask, Answered, PoolInv, Typed
<1>3. CASE pc' = [pc EXCEPT ![t] = "shared"] /\ UNCHANGED call
  <2>1. Goes(t, call[t])
    BY <1>1, <1>3, CallerHas DEF PoolInv, Typed, Goes, Others, Continues, CallPlaces
  <2> QED BY <1>1, <1>2, <2>1, CallerHas, QuietStep
<1>4. CASE End(t)
  <2>1. Goes(t, call[t])
    BY <1>4, EndGoes DEF PoolInv
  <2> QED BY <1>1, <1>2, <2>1, CallerHas, QuietStep
<1>5. CASE GoOn(t, Done(call[t]), waiting)
  <2>1. Goes(t, Done(call[t]))
    BY <1>1, <1>5, CallerHas, GoOnGoes DEF PoolInv
  <2> QED BY <1>1, <1>2, <2>1, CallerHas, QuietStep
<1> QED BY <1>3, <1>4, <1>5 DEF Visit, Ask, Answered

LEMMA CancelStep ==
  ASSUME PoolInv, NEW t \in Tasks, Cancel(t)
  PROVE  PoolInv'
<1>1. pc[t] \in CallPlaces
  BY DEF Cancel, CallPlaces
<1>2. Goes(t, call[t])
  BY EndGoes DEF Cancel, PoolInv
<1> QED BY <1>1, <1>2, CallerHas, QuietStep DEF Cancel, PoolInv, Typed

-----------------------------------------------------------------------------
(* Relays                                                                  *)

RelayType == [status : RelayStatus, caps : SUBSET Capability]

\* What happens to a relay keeps it a relay; only Connected makes it work.
LEMMA RelaysTyped ==
  ASSUME NEW r \in RelayType
  PROVE  /\ Connected(r) \in RelayType /\ Connected(r).caps = r.caps
         /\ Disconnected(r) \in RelayType /\ Disconnected(r).caps = r.caps
         /\ Disconnected(r).status # "on"
         /\ ShutDown(r) \in RelayType /\ ShutDown(r).caps = r.caps
         /\ ShutDown(r).status = "terminal"
         /\ LeftPool(r) \in RelayType /\ LeftPool(r).status = r.status
         /\ WithoutRoles(r) \in RelayType /\ WithoutRoles(r).status = r.status
         /\ "gossip" \in r.caps => "gossip" \in WithoutRoles(r).caps
BY DEF RelayType, RelayStatus, Connected, Disconnected, ShutDown, LeftPool, WithoutRoles

LEMMA ExtendedTyped ==
  ASSUME NEW r \in RelayType, NEW c \in CallType
  PROVE  Extended(r, c) \in RelayType /\ Extended(r, c).caps = r.caps \union c.caps
<1> DEFINE with == [r EXCEPT !.caps = @ \union c.caps]
<1>1. with \in RelayType /\ with.caps = r.caps \union c.caps
  BY DEF RelayType, CallType
<1> HIDE DEF with
<1> QED BY <1>1, RelaysTyped DEF Extended, with

\* Released: the references "is" go; what works on has a clone.
LEMMA ReleasedSound ==
  ASSUME NEW rs \in [Relays -> RelayType], NEW is, NEW clones
  PROVE  /\ Released(rs, is, clones) \in [Relays -> RelayType]
         /\ \A i \in Relays : /\ Released(rs, is, clones)[i].caps = rs[i].caps
                              /\ i \notin is => Released(rs, is, clones)[i] = rs[i]
                              /\ Released(rs, is, clones)[i].status = "on" =>
                                   rs[i].status = "on" /\ (i \in is => i \in clones)
<1>1. \A i \in Relays : Released(rs, is, clones)[i] =
          IF i \in is \ clones THEN ShutDown(rs[i]) ELSE rs[i]
  BY DEF Released, Changed
<1>2. \A i \in Relays : ShutDown(rs[i]) \in RelayType /\ ShutDown(rs[i]).caps = rs[i].caps
                         /\ ShutDown(rs[i]).status = "terminal"
  BY RelaysTyped
<1>3. Released(rs, is, clones) = [i \in Relays |-> IF i \in is \ clones THEN ShutDown(rs[i]) ELSE rs[i]]
  BY DEF Released, Changed
<1> QED BY <1>1, <1>2, <1>3

\* What gossip uses stays, but for what is removed by force.
GossipKept ==
    /\ forced \subseteq forced'
    /\ \A u \in Urls \ forced' :
          pool[u] # Nothing /\ "gossip" \in relay[pool[u]].caps =>
             pool'[u] # Nothing /\ "gossip" \in relay'[pool'[u]].caps

LEMMA StaysKept ==
  ASSUME PoolInv, GossipKept,
         \A x \in Tasks : "gossip" \in call'[x].caps =>
            call'[x].added = {} \/
            (call'[x].added = call[x].added /\ "gossip" \in call[x].caps)
  PROVE  AddedRelaysStay'
<1>1. \A x \in Tasks : call[x].added \subseteq Urls
  BY DEF PoolInv, Typed, CallType
<1> QED BY <1>1 DEF PoolInv, AddedRelaysStay, GossipKept

\* The same, for a step of a call that goes on with what it had.
LEMMA CallStaysKept ==
  ASSUME PoolInv, GossipKept, NEW t \in Tasks, NEW c \in CallType, Goes(t, c),
         c.added = call[t].added, c.caps = call[t].caps
  PROVE  AddedRelaysStay'
<1>1. \A x \in Tasks : "gossip" \in call'[x].caps =>
         call'[x].added = {} \/ (call'[x].added = call[x].added /\ "gossip" \in call[x].caps)
  BY DEF Goes, Others, Ended, Continues, NoCall
<1> QED BY <1>1, StaysKept

-----------------------------------------------------------------------------
(* The steps of a call that change the pool or its relays                  *)

LEMMA DoneGoes ==
  ASSUME PoolInv, NEW t \in Tasks, pc[t] \in CallPlaces, handles' = handles, NEW queue,
         GoOn(t, Done(call[t]), queue),
         shutdown' => \A x \in Tasks : call[x].next \in late' \union {Nothing}
  PROVE  Goes(t, Done(call[t])) /\ \A x \in Tasks : CallOK(x)'
<1>1. Goes(t, Done(call[t]))
  BY CallerHas, GoOnGoes DEF PoolInv
<1> QED BY <1>1, CallerHas, CallsKept

LEMMA LateKept ==
  ASSUME PoolInv, shutdown' = shutdown, late' = late
  PROVE  shutdown' => \A x \in Tasks : call[x].next \in late' \union {Nothing}
BY DEF PoolInv, CallOK

LEMMA TakeRelayStep ==
  ASSUME PoolInv, NEW t \in Tasks, TakeRelay(t)
  PROVE  PoolInv'
<1>1. pc[t] \in CallPlaces
  BY DEF TakeRelay, Granted, CallPlaces
<1>2. Goes(t, Done(call[t])) /\ \A x \in Tasks : CallOK(x)'
  BY <1>1, DoneGoes, LateKept DEF TakeRelay
<1>3. held \subseteq held' /\ held' \subseteq Relays
  BY DEF TakeRelay, PoolInv, Typed, Present
<1>4. Typed'
  BY <1>2, <1>3 DEF TakeRelay, PoolInv, Typed, Goes
<1>5. PoolOK'
  BY <1>3 DEF TakeRelay, PoolInv, PoolOK, Present, InPool
<1>6. GossipKept
  BY DEF TakeRelay, GossipKept
<1> QED BY <1>1, <1>2, <1>4, <1>5, <1>6, CallStaysKept, CallerHas DEF PoolInv

LEMMA ConnectStep ==
  ASSUME PoolInv, NEW t \in Tasks, Connect(t)
  PROVE  PoolInv'
<1> DEFINE is == {pool[u] : u \in Present \cap call[t].urls}
<1>1. pc[t] \in CallPlaces
  BY DEF Connect, Granted, CallPlaces
<1>2. Goes(t, call[t])
  BY <1>1, CallerHas DEF Connect, PoolInv, Typed, Goes, Others, Continues, CallPlaces
<1>3. \A x \in Tasks : CallOK(x)'
  BY <1>1, <1>2, CallerHas, CallsKept, LateKept DEF Connect
<1>4. relay' = [i \in Relays |-> IF i \in is THEN Connected(relay[i]) ELSE relay[i]]
  BY DEF Connect, Changed
<1>5. relay \in [Relays -> RelayType]
  BY DEF PoolInv, Typed, RelayType
<1>6. relay' \in [Relays -> RelayType] /\ \A i \in Relays : relay'[i].caps = relay[i].caps
  BY <1>4, <1>5, RelaysTyped
<1>7. Typed'
  BY <1>2, <1>6 DEF Connect, PoolInv, Typed, Goes, RelayType
<1>8. PoolOK'
  <2>1. \A i \in Relays : relay'[i].status = "on" => i \in held \/ InPool(i)
    BY <1>4 DEF PoolInv, PoolOK, Present, InPool
  <2> QED BY <2>1 DEF Connect, PoolInv, PoolOK, Present, InPool
<1>9. GossipKept
  BY <1>6 DEF Connect, GossipKept, PoolInv, Typed
<1> QED BY <1>1, <1>2, <1>3, <1>7, <1>8, <1>9, CallStaysKept, CallerHas DEF PoolInv

LEMMA DisconnectStep ==
  ASSUME PoolInv, NEW t \in Tasks, Disconnect(t)
  PROVE  PoolInv'
<1> DEFINE is == {pool[u] : u \in Present \cap call[t].urls}
<1>1. pc[t] \in CallPlaces
  BY DEF Disconnect, Granted, CallPlaces
<1>2. Goes(t, Done(call[t])) /\ \A x \in Tasks : CallOK(x)'
  BY <1>1, DoneGoes, LateKept DEF Disconnect
<1>4. relay' = [i \in Relays |-> IF i \in is THEN Disconnected(relay[i]) ELSE relay[i]]
  BY DEF Disconnect, Changed
<1>5. relay \in [Relays -> RelayType]
  BY DEF PoolInv, Typed, RelayType
<1>6. /\ relay' \in [Relays -> RelayType]
      /\ \A i \in Relays : /\ relay'[i].caps = relay[i].caps
                           /\ relay'[i].status = "on" => relay[i].status = "on"
  BY <1>4, <1>5, RelaysTyped
<1>7. Typed'
  BY <1>2, <1>6 DEF Disconnect, PoolInv, Typed, Goes, RelayType
<1>8. PoolOK'
  BY <1>6 DEF Disconnect, PoolInv, PoolOK, Present, InPool
<1>9. GossipKept
  BY <1>6 DEF Disconnect, GossipKept, PoolInv, Typed
<1> QED BY <1>1, <1>2, <1>7, <1>8, <1>9, CallStaysKept, CallerHas DEF PoolInv

\* A relay that is in the pool is there under its own URL only.
LEMMA PoolApart ==
  ASSUME PoolInv
  PROVE  /\ \A u \in Present : pool[u] \in Relays /\ pool[u] # Nothing
         /\ \A u, v \in Present : pool[u] = pool[v] => u = v
BY DEF PoolInv, PoolOK, Typed, Present, Relays

\* add_relay is over: what came before stays, what is added has the roles.
LEMMA AddStaysKept ==
  ASSUME PoolInv, GossipKept, NEW t \in Tasks, NEW u \in Urls,
         Goes(t, AfterAdd(call[t])), call[t].next = u, forced' = forced,
         pool'[u] # Nothing, call[t].caps \subseteq relay'[pool'[u]].caps
  PROVE  AddedRelaysStay'
<1>1. call[t] \in CallType
  BY DEF PoolInv, Typed
<1>2. AfterAdd(call[t]).added = call[t].added \union {u} /\ AfterAdd(call[t]).caps = call[t].caps
  BY <1>1 DEF AfterAdd, CallType
<1>3. \A x \in Tasks : call[x].added \subseteq Urls
  BY DEF PoolInv, Typed, CallType
<1>4. \A x \in Tasks : "gossip" \in call'[x].caps =>
         /\ "gossip" \in call[x].caps
         /\ call'[x].added \subseteq call[x].added \union (IF x = t THEN {u} ELSE {})
  BY <1>2 DEF Goes, Others, Ended, Continues, NoCall
<1>5. ASSUME NEW x \in Tasks, "gossip" \in call'[x].caps, NEW v \in call'[x].added \ forced'
      PROVE  pool'[v] # Nothing /\ "gossip" \in relay'[pool'[v]].caps
  <2>1. CASE x = t /\ v = u
    BY <1>4, <1>5, <2>1
  <2>2. CASE v \in call[x].added
    BY <1>3, <1>4, <1>5, <2>2 DEF PoolInv, AddedRelaysStay, GossipKept
  <2> QED BY <1>4, <1>5, <2>1, <2>2
<1> QED BY <1>5 DEF AddedRelaysStay

LEMMA AddRelayStep ==
  ASSUME PoolInv, NEW t \in Tasks, AddRelay(t)
  PROVE  PoolInv'
<1> DEFINE u == call[t].next
           c == AfterAdd(call[t])
<1>1. pc[t] \in CallPlaces /\ u \in Urls /\ t \in handles /\ call[t] \in CallType
  BY CallerHas DEF AddRelay, Granted, CallPlaces, PoolInv, CallOK
<1>2. c \in CallType /\ c.next = Nothing
  BY <1>1 DEF AfterAdd, CallType
<1>3. relay \in [Relays -> RelayType]
  BY DEF PoolInv, Typed, RelayType
<1>4. UNCHANGED <<held, shutdown, handles, lists, forced, late>>
  BY DEF AddRelay
<1>5. ASSUME GoOn(t, c, Tail(waiting))
      PROVE  Goes(t, c) /\ \A x \in Tasks : CallOK(x)'
  <2>1. Goes(t, c)
    BY <1>2, <1>5, GoOnGoes DEF PoolInv
  <2> HIDE DEF c
  <2> QED BY <1>1, <1>2, <1>4, <2>1, CallsKept, LateKept
<1>6. CASE /\ u \in Present
           /\ relay' = [relay EXCEPT ![pool[u]] = Extended(@, call[t])]
           /\ GoOn(t, c, Tail(waiting)) /\ UNCHANGED pool
  <2>1. pool[u] \in Relays /\ pool[u] # Nothing
    BY <1>6, PoolApart
  <2>2. /\ relay' \in [Relays -> RelayType]
        /\ \A i \in Relays : /\ i # pool[u] => relay'[i] = relay[i]
                             /\ relay[i].caps \subseteq relay'[i].caps
        /\ call[t].caps \subseteq relay'[pool[u]].caps
    BY <1>1, <1>3, <1>6, <2>1, ExtendedTyped
  <2>3. Typed'
    BY <1>4, <1>5, <1>6, <2>2 DEF PoolInv, Typed, Goes, RelayType
  <2>4. PoolOK'
    BY <1>1, <1>4, <1>6, <2>1, <2>2 DEF PoolInv, PoolOK, Present, InPool
  <2>5. GossipKept
    BY <1>4, <1>6, <2>2 DEF GossipKept, PoolInv, Typed
  <2>6. AddedRelaysStay'
    BY <1>1, <1>4, <1>5, <1>6, <2>1, <2>2, <2>5, AddStaysKept
  <2> QED BY <1>5, <1>6, <2>3, <2>4, <2>6 DEF PoolInv
<1>7. CASE End(t) /\ UNCHANGED <<pool, relay>>
  <2>1. Goes(t, call[t])
    BY <1>7, EndGoes DEF PoolInv
  <2> QED BY <1>1, <1>4, <1>7, <2>1, CallerHas, QuietStep DEF PoolInv, Typed
<1>8. CASE /\ u \notin Present /\ FreeFor(u) # {}
           /\ pool' = [pool EXCEPT ![u] = NewRelay(u)]
           /\ relay' = [relay EXCEPT ![NewRelay(u)] = Extended([status |-> "idle", caps |-> {}], call[t])]
           /\ GoOn(t, c, Tail(waiting))
  <2> DEFINE new == NewRelay(u)
  <2>1. new \in {u} \X Copies /\ new \in Relays /\ new # Nothing
    BY <1>1, <1>8, NothingAssumption DEF NewRelay, FreeFor, Relays
  <2>2. [status |-> "idle", caps |-> {}] \in RelayType
    BY DEF RelayType, RelayStatus
  <2>3. Extended([status |-> "idle", caps |-> {}], call[t]) \in RelayType
        /\ call[t].caps \subseteq Extended([status |-> "idle", caps |-> {}], call[t]).caps
    BY <1>1, <2>2, ExtendedTyped
  <2> HIDE DEF new
  <2>4. /\ pool' \in [Urls -> Relays \union {Nothing}] /\ pool'[u] = new
        /\ \A v \in Urls \ {u} : pool'[v] = pool[v]
    BY <1>1, <1>8, <2>1 DEF PoolInv, Typed, new
  <2>5. /\ relay' \in [Relays -> RelayType]
        /\ \A i \in Relays \ {new} : relay'[i] = relay[i]
        /\ call[t].caps \subseteq relay'[new].caps
    BY <1>3, <1>8, <2>1, <2>3 DEF new
  <2>6. pool[u] = Nothing
    BY <1>1, <1>8 DEF Present
  <2>7. \A v \in Present : v # u /\ pool[v] # new
    BY <2>1, <2>6 DEF PoolInv, PoolOK, Present
  <2>8. Typed'
    BY <1>4, <1>5, <1>8, <2>4, <2>5 DEF PoolInv, Typed, Goes, RelayType
  <2>9. PoolOK'
    <3>1. \A v \in Present' : pool'[v] \in {v} \X Copies
      BY <2>1, <2>4 DEF PoolInv, PoolOK, Present
    <3>2. handles' # {}
      BY <1>1, <1>4
    <3>3. shutdown' => Present' \subseteq late'
      BY <1>1, <1>4, <2>4, CallerHas, NothingAssumption DEF PoolInv, PoolOK, Present
    <3>4. ASSUME NEW i \in Relays, relay'[i].status = "on" PROVE i \in held' \/ InPool(i)'
      <4>1. CASE i = new
        BY <1>1, <2>4, <4>1 DEF InPool
      <4>2. CASE i # new
        <5>1. i \in held \/ InPool(i)
          BY <2>5, <3>4, <4>2 DEF PoolInv, PoolOK
        <5>2. CASE InPool(i)
          <6>1. PICK v \in Urls : pool[v] = i
            BY <5>2 DEF InPool
          <6>2. v # u
            BY <2>6, <6>1, NothingAssumption DEF Relays
          <6> QED BY <2>4, <6>1, <6>2 DEF InPool
        <5> QED BY <1>4, <5>1, <5>2
      <4> QED BY <4>1, <4>2
    <3> QED BY <3>1, <3>2, <3>3, <3>4 DEF PoolOK
  <2>10. GossipKept
    BY <1>4, <2>4, <2>5, <2>6, <2>7 DEF GossipKept, PoolInv, Typed, Present
  <2>11. AddedRelaysStay'
    BY <1>1, <1>4, <1>5, <1>8, <2>1, <2>4, <2>5, <2>10, AddStaysKept
  <2> QED BY <1>5, <1>8, <2>8, <2>9, <2>11 DEF PoolInv
<1> QED BY <1>6, <1>7, <1>8 DEF AddRelay

LEMMA RemoveRelayStep ==
  ASSUME PoolInv, NEW t \in Tasks, RemoveRelay(t)
  PROVE  PoolInv'
<1>1. pc[t] \in CallPlaces
  BY DEF RemoveRelay, Granted, CallPlaces
<1>2. UNCHANGED <<held, shutdown, handles, lists, late>>
  BY DEF RemoveRelay
<1>3. Goes(t, Done(call[t])) /\ \A x \in Tasks : CallOK(x)'
  BY <1>1, <1>2, DoneGoes, LateKept DEF RemoveRelay
<1>4. relay \in [Relays -> RelayType]
  BY DEF PoolInv, Typed, RelayType
<1>5. ASSUME GossipKept, Typed', PoolOK' PROVE PoolInv'
  BY <1>1, <1>3, <1>5, CallerHas, CallStaysKept DEF PoolInv
<1>6. PICK u \in call[t].urls :
        \/ u \notin Present /\ UNCHANGED <<pool, relay, forced>>
        \/ /\ u \in Present /\ ~call[t].force /\ ~CanRemove(pool[u])
           /\ relay' = [relay EXCEPT ![pool[u]] = WithoutRoles(@)]
           /\ UNCHANGED <<pool, forced>>
        \/ /\ u \in Present /\ (call[t].force \/ CanRemove(pool[u]))
           /\ pool' = [pool EXCEPT ![u] = Nothing]
           /\ relay' = Released([relay EXCEPT ![pool[u]] = LeftPool(Disconnected(@))], {pool[u]}, held)
           /\ forced' = IF call[t].force THEN forced \union {u} ELSE forced
  BY DEF RemoveRelay
<1>7. CASE u \notin Present /\ UNCHANGED <<pool, relay, forced>>
  <2>1. Typed' /\ PoolOK' /\ GossipKept
    BY <1>2, <1>3, <1>7 DEF PoolInv, Typed, Goes, PoolOK, Present, InPool, GossipKept
  <2> QED BY <1>5, <2>1
<1>8. CASE /\ u \in Present
           /\ relay' = [relay EXCEPT ![pool[u]] = WithoutRoles(@)]
           /\ UNCHANGED <<pool, forced>>
  <2>1. pool[u] \in Relays
    BY <1>8, PoolApart
  <2>2. /\ relay' \in [Relays -> RelayType]
        /\ \A i \in Relays : /\ relay'[i].status = relay[i].status
                             /\ "gossip" \in relay[i].caps => "gossip" \in relay'[i].caps
    BY <1>4, <1>8, <2>1, RelaysTyped
  <2>3. Typed'
    BY <1>2, <1>3, <1>8, <2>2 DEF PoolInv, Typed, Goes, RelayType
  <2>4. PoolOK'
    BY <1>2, <1>8, <2>2 DEF PoolInv, PoolOK, Present, InPool
  <2>5. GossipKept
    BY <1>8, <2>2 DEF GossipKept, PoolInv, Typed
  <2> QED BY <1>5, <2>3, <2>4, <2>5
<1>9. CASE /\ u \in Present /\ (call[t].force \/ CanRemove(pool[u]))
           /\ pool' = [pool EXCEPT ![u] = Nothing]
           /\ relay' = Released([relay EXCEPT ![pool[u]] = LeftPool(Disconnected(@))], {pool[u]}, held)
           /\ forced' = IF call[t].force THEN forced \union {u} ELSE forced
  <2> DEFINE left == [relay EXCEPT ![pool[u]] = LeftPool(Disconnected(@))]
  <2>1. u \in Urls /\ pool[u] \in Relays
    BY <1>9, PoolApart DEF Present
  <2>2. /\ left \in [Relays -> RelayType]
        /\ \A i \in Relays : /\ i # pool[u] => left[i] = relay[i]
                             /\ left[i].status = "on" => relay[i].status = "on"
    BY <1>4, <2>1, RelaysTyped
  <2>3. relay' = Released(left, {pool[u]}, held)
    BY <1>9
  <2> HIDE DEF left
  <2>4. /\ relay' \in [Relays -> RelayType]
        /\ \A i \in Relays : /\ i # pool[u] => relay'[i] = relay[i]
                             /\ relay'[i].status = "on" =>
                                  relay[i].status = "on" /\ (i = pool[u] => i \in held)
    BY <2>2, <2>3, ReleasedSound
  <2>5. /\ pool' \in [Urls -> Relays \union {Nothing}] /\ pool'[u] = Nothing
        /\ \A v \in Urls \ {u} : pool'[v] = pool[v]
    BY <1>9, <2>1 DEF PoolInv, Typed
  <2>6. Typed'
    BY <1>2, <1>3, <1>9, <2>1, <2>4, <2>5 DEF PoolInv, Typed, Goes, RelayType
  <2>7. PoolOK'
    <3>1. /\ \A v \in Present' : v \in Present /\ pool'[v] = pool[v]
          /\ \A i \in Relays : InPool(i) => InPool(i)' \/ i = pool[u]
      BY <2>5 DEF Present, InPool
    <3> QED BY <1>2, <2>4, <3>1 DEF PoolInv, PoolOK
  <2>8. GossipKept
    <3>1. ASSUME NEW v \in Urls \ forced', v \in Present, "gossip" \in relay[pool[v]].caps
          PROVE  v # u
      BY <1>9, <3>1 DEF CanRemove
    <3>2. \A v \in Present : v # u => pool[v] # pool[u] /\ pool[v] \in Relays
      BY <1>9, PoolApart
    <3> QED BY <1>9, <2>4, <2>5, <3>1, <3>2 DEF GossipKept, Present
  <2> QED BY <1>5, <2>6, <2>7, <2>8
<1> QED BY <1>6, <1>7, <1>8, <1>9

LEMMA RemoveAllRelaysStep ==
  ASSUME PoolInv, NEW t \in Tasks, RemoveAllRelays(t)
  PROVE  PoolInv'
<1> DEFINE gone == {u \in Present : call[t].force \/ CanRemove(pool[u])}
           out  == {pool[u] : u \in gone}
           kept == {pool[u] : u \in Present \ gone}
           left == Changed(relay, out, LAMBDA r : LeftPool(ShutDown(r)))
<1>1. pc[t] \in CallPlaces
  BY DEF RemoveAllRelays, Granted, CallPlaces
<1>2. /\ UNCHANGED <<held, shutdown, handles, lists, late>>
      /\ pool' = [u \in Urls |-> IF u \in gone THEN Nothing ELSE pool[u]]
      /\ forced' = IF call[t].force THEN forced \union gone ELSE forced
      /\ relay' = Changed(left, kept, WithoutRoles)
  BY DEF RemoveAllRelays
<1>3. Goes(t, Done(call[t])) /\ \A x \in Tasks : CallOK(x)'
  BY <1>1, <1>2, DoneGoes, LateKept DEF RemoveAllRelays
<1>4. relay \in [Relays -> RelayType]
  BY DEF PoolInv, Typed, RelayType
<1>5. left = [i \in Relays |-> IF i \in out THEN LeftPool(ShutDown(relay[i])) ELSE relay[i]]
  BY DEF Changed
<1>6. relay' = [i \in Relays |-> IF i \in kept THEN WithoutRoles(left[i]) ELSE left[i]]
  BY <1>2 DEF Changed
<1> HIDE DEF left
<1>7. /\ left \in [Relays -> RelayType]
      /\ \A i \in Relays : /\ left[i].status = "on" => relay[i].status = "on" /\ i \notin out
                           /\ i \notin out => left[i] = relay[i]
  BY <1>4, <1>5, RelaysTyped
<1>8. /\ relay' \in [Relays -> RelayType]
      /\ \A i \in Relays :
            /\ relay'[i].status = "on" => relay[i].status = "on" /\ i \notin out
            /\ i \notin out /\ "gossip" \in relay[i].caps => "gossip" \in relay'[i].caps
  BY <1>6, <1>7, RelaysTyped
<1>9. gone \subseteq Urls
  BY DEF Present
<1> HIDE DEF gone, kept
<1>10. pool' \in [Urls -> Relays \union {Nothing}]
  BY <1>2 DEF PoolInv, Typed
<1>11. Typed'
  BY <1>2, <1>3, <1>8, <1>9, <1>10 DEF PoolInv, Typed, Goes, RelayType
<1>12. PoolOK'
  <2>1. \A v \in Present' : v \in Present /\ pool'[v] = pool[v]
    BY <1>2 DEF Present
  <2>2. \A i \in Relays : InPool(i) => InPool(i)' \/ i \in out
    BY <1>2 DEF InPool
  <2> QED BY <1>2, <1>8, <2>1, <2>2 DEF PoolInv, PoolOK
<1>13. GossipKept
  <2>1. ASSUME NEW v \in Urls \ forced', pool[v] # Nothing, "gossip" \in relay[pool[v]].caps
        PROVE  pool'[v] # Nothing /\ "gossip" \in relay'[pool'[v]].caps
    <3>1. v \in Present /\ pool[v] \in Relays
      BY <2>1, PoolApart DEF Present
    <3>2. v \notin gone
      BY <1>2, <2>1, <3>1 DEF CanRemove, gone
    <3>3. pool[v] \notin out
      <4>1. \A u \in gone : u \in Present
        BY DEF gone
      <4> QED BY <3>1, <3>2, <4>1, PoolApart
    <3> QED BY <1>2, <1>8, <2>1, <3>1, <3>2, <3>3
  <2>2. forced \subseteq forced'
    BY <1>2
  <2> QED BY <2>1, <2>2 DEF GossipKept
<1> QED BY <1>1, <1>3, <1>11, <1>12, <1>13, CallerHas, CallStaysKept DEF PoolInv

LEMMA ShutdownStep ==
  ASSUME PoolInv, NEW t \in Tasks, Shutdown(t)
  PROVE  PoolInv'
<1>1. pc[t] \in CallPlaces
  BY DEF Shutdown, Granted, CallPlaces
<1>2. UNCHANGED <<held, handles, lists>> /\ shutdown'
  BY DEF Shutdown, ShutDownPool
<1>3. relay \in [Relays -> RelayType]
  BY DEF PoolInv, Typed, RelayType
<1>4. CASE shutdown
  <2>1. UNCHANGED <<pool, relay, forced, late>> /\ shutdown' = shutdown
    BY <1>4, <1>2 DEF Shutdown, ShutDownPool, PoolInv, Typed
  <2>2. Goes(t, Done(call[t]))
    BY <1>1, CallerHas, GoOnGoes DEF PoolInv, Shutdown
  <2> QED BY <1>1, <1>2, <2>1, <2>2, CallerHas, QuietStep DEF PoolInv, Typed
<1>5. CASE ~shutdown
  <2> DEFINE is == {pool[u] : u \in Present}
  <2>1. /\ pool' = [u \in Urls |-> Nothing] /\ forced' = Urls
        /\ late' = {call[x].next : x \in Tasks} \ {Nothing}
        /\ relay' = [i \in Relays |-> IF i \in is THEN LeftPool(ShutDown(relay[i])) ELSE relay[i]]
    BY <1>5 DEF Shutdown, ShutDownPool, Changed
  <2>2. Goes(t, Done(call[t])) /\ \A x \in Tasks : CallOK(x)'
    BY <1>1, <1>2, <2>1, DoneGoes DEF Shutdown
  <2>3. /\ relay' \in [Relays -> RelayType]
        /\ \A i \in Relays : relay'[i].status = "on" => relay[i].status = "on" /\ i \notin is
    BY <1>3, <2>1, RelaysTyped
  <2>4. late' \subseteq Urls
    BY <2>1 DEF PoolInv, Typed, CallType
  <2>5. Typed'
    BY <1>2, <2>1, <2>2, <2>3, <2>4 DEF PoolInv, Typed, Goes, RelayType
  <2>6. PoolOK'
    <3>1. Present' = {}
      BY <2>1 DEF Present
    <3>2. \A i \in Relays : InPool(i) => i \in is
      BY NothingAssumption DEF InPool, Present, Relays
    <3> QED BY <1>2, <2>3, <3>1, <3>2 DEF PoolInv, PoolOK
  <2>7. GossipKept
    BY <2>1 DEF GossipKept, PoolInv, Typed
  <2> QED BY <1>1, <2>2, <2>5, <2>6, <2>7, CallerHas, CallStaysKept DEF PoolInv
<1> QED BY <1>4, <1>5

-----------------------------------------------------------------------------
(* Handles                                                                 *)

\* A handle is dropped by a task without a call; the last one takes the pool.
LEMMA DropHandleStep ==
  ASSUME PoolInv, NEW t \in Tasks, pc[t] \notin CallPlaces, DropHandle(t),
         NEW place \in {"gone", "ended", "asleep"}, pc' = [pc EXCEPT ![t] = place],
         UNCHANGED <<held, call, lists, late>>
  PROVE  PoolInv'
<1>1. handles' = handles \ {t}
  BY DEF DropHandle
<1>2. relay \in [Relays -> RelayType]
  BY DEF PoolInv, Typed, RelayType
<1>3. pc' \in [Tasks -> AppPlaces \union RefresherPlaces \union CallPlaces]
  BY DEF PoolInv, Typed, AppPlaces, RefresherPlaces
<1>4. \A x \in Tasks \ {t} : pc'[x] = pc[x]
  BY DEF PoolInv, Typed
<1>5. pc'[t] = place
  BY DEF PoolInv, Typed
<1>6. place \notin CallPlaces \union {"idle", "woken", "between"}
  BY DEF CallPlaces
<1>7. \A x \in Tasks : CallOK(x)
  BY DEF PoolInv
<1>8. CASE handles # {t}
  <2>1. UNCHANGED <<pool, relay, shutdown, forced>>
    BY <1>8 DEF DropHandle
  <2>2. Typed'
    BY <1>1, <1>3, <2>1 DEF PoolInv, Typed
  <2>3. \A x \in Tasks : CallOK(x)'
    <3>1. ASSUME NEW x \in Tasks \ {t} PROVE CallOK(x)'
      BY <1>1, <1>4, <1>7, <2>1 DEF CallOK
    <3>2. CallOK(t)'
      BY <1>5, <1>6, <1>7, <2>1 DEF CallOK
    <3> QED BY <3>1, <3>2
  <2>4. PoolOK'
    BY <1>1, <1>8, <2>1 DEF PoolInv, PoolOK, Present, InPool
  <2>5. AddedRelaysStay'
    BY <2>1 DEF PoolInv, AddedRelaysStay
  <2> QED BY <2>2, <2>3, <2>4, <2>5 DEF PoolInv
<1>9. CASE handles = {t}
  <2> DEFINE was == {pool[u] : u \in Present}
             left == Changed(relay, was, LeftPool)
  <2>1. /\ shutdown' = TRUE /\ pool' = [u \in Urls |-> Nothing] /\ forced' = Urls
        /\ \/ relay' = Released(left, was, held)
           \/ relay' = Changed(relay, was, LAMBDA r : LeftPool(ShutDown(r)))
    BY <1>9 DEF DropHandle
  <2>2. \A x \in Tasks : call[x] = NoCall
    BY <1>7, <1>9 DEF CallOK
  <2>3. left = [i \in Relays |-> IF i \in was THEN LeftPool(relay[i]) ELSE relay[i]]
    BY DEF Changed
  <2> HIDE DEF left
  <2>4. /\ left \in [Relays -> RelayType]
        /\ \A i \in Relays : left[i].status = relay[i].status
    BY <1>2, <2>3, RelaysTyped
  <2>5. /\ relay' \in [Relays -> RelayType]
        /\ \A i \in Relays : relay'[i].status = "on" =>
              relay[i].status = "on" /\ (i \in was => i \in held)
    <3>1. CASE relay' = Released(left, was, held)
      BY <2>4, <3>1, ReleasedSound
    <3>2. CASE relay' = Changed(relay, was, LAMBDA r : LeftPool(ShutDown(r)))
      <4>1. relay' = [i \in Relays |-> IF i \in was THEN LeftPool(ShutDown(relay[i])) ELSE relay[i]]
        BY <3>2 DEF Changed
      <4> QED BY <1>2, <4>1, RelaysTyped
    <3> QED BY <2>1, <3>1, <3>2
  <2>6. Typed'
    BY <1>1, <1>3, <2>1, <2>5 DEF PoolInv, Typed, RelayType
  <2>7. \A x \in Tasks : CallOK(x)'
    <3>1. NoCall.next = Nothing /\ \A x \in Tasks : call'[x] = NoCall
      BY <2>2 DEF NoCall
    <3>2. \A x \in Tasks : pc'[x] \notin CallPlaces \union {"idle", "woken", "between"}
      <4>1. \A x \in Tasks \ {t} : pc[x] \notin CallPlaces \union {"idle", "woken", "between"}
        BY <1>7, <1>9 DEF CallOK
      <4> QED BY <1>4, <1>5, <1>6, <4>1
    <3> QED BY <3>1, <3>2 DEF CallOK, CallPlaces
  <2>8. PoolOK'
    <3>1. Present' = {}
      BY <2>1 DEF Present
    <3>2. \A i \in Relays : InPool(i) => i \in was
      BY NothingAssumption DEF InPool, Present, Relays
    <3> QED BY <2>5, <3>1, <3>2 DEF PoolInv, PoolOK
  <2>9. AddedRelaysStay'
    BY <2>2 DEF AddedRelaysStay, NoCall
  <2> QED BY <2>6, <2>7, <2>8, <2>9 DEF PoolInv
<1> QED BY <1>8, <1>9

LEMMA DropSteps ==
  ASSUME PoolInv, (\E t \in Apps : DropClient(t)) \/ StopRefreshing \/ Sleep
  PROVE  PoolInv'
<1>1. ASSUME NEW t \in Apps, DropClient(t) PROVE PoolInv'
  BY <1>1, DropHandleStep DEF DropClient, Tasks, CallPlaces
<1>2. CASE StopRefreshing
  BY <1>2, DropHandleStep DEF StopRefreshing, Tasks, CallPlaces
<1>3. CASE Sleep
  BY <1>3, DropHandleStep DEF Sleep, Tasks, CallPlaces
<1> QED BY <1>1, <1>2, <1>3

-----------------------------------------------------------------------------
(* The refresher's round, and the relays that the application holds        *)

LEMMA WakeStep ==
  ASSUME PoolInv, Wake \/ StartRound
  PROVE  PoolInv'
<1>1. UNCHANGED <<pool, relay, held, shutdown, call, forced, late>>
  BY DEF Wake, StartRound
<1>2. /\ handles \subseteq handles' /\ handles' \subseteq Tasks
      /\ handles = {} => handles' = {}
      /\ lists' \in 0..Lists
  BY NumberAssumption DEF Wake, StartRound, PoolInv, Typed, Tasks
<1>3. PICK place \in {"ended", "woken", "between"} :
        /\ pc' = [pc EXCEPT ![Refresher] = place]
        /\ pc[Refresher] \notin CallPlaces
        /\ place # "ended" => Refresher \in handles'
  BY DEF Wake, StartRound, CallPlaces, PoolInv, CallOK, Tasks
<1>4. Typed'
  BY <1>1, <1>2, <1>3 DEF PoolInv, Typed, RefresherPlaces
<1>5. \A x \in Tasks : CallOK(x)'
  <2>1. ASSUME NEW x \in Tasks \ {Refresher} PROVE CallOK(x)'
    BY <1>1, <1>2, <1>3 DEF PoolInv, Typed, CallOK
  <2>2. CallOK(Refresher)'
    <3>1. Refresher \in Tasks /\ pc'[Refresher] = place
      BY <1>3 DEF Tasks, PoolInv, Typed
    <3> QED BY <1>1, <1>3, <3>1 DEF PoolInv, CallOK, CallPlaces
  <2> QED BY <2>1, <2>2
<1>6. PoolOK' /\ AddedRelaysStay'
  BY <1>1, <1>2 DEF PoolInv, PoolOK, Present, InPool, AddedRelaysStay
<1> QED BY <1>4, <1>5, <1>6 DEF PoolInv

LEMMA RefreshListStep ==
  ASSUME PoolInv, RefreshList
  PROVE  PoolInv'
<1>1. Refresher \in Tasks
  BY DEF Tasks
<1>2. UNCHANGED <<pool, relay, held, shutdown, handles, forced, late>> /\ lists' \in 0..Lists
  BY NumberAssumption DEF RefreshList, PoolInv, Typed
<1>3. CASE UNCHANGED <<pc, call, waiting>>
  BY <1>2, <1>3 DEF PoolInv, Typed, CallOK, PoolOK, Present, InPool, AddedRelaysStay
<1>4. CASE GoOn(Refresher, RefreshCall, waiting)
  <2>1. RefreshCall \in CallType /\ RefreshCall.next = Nothing /\ RefreshCall.added = {}
    <3>1. <<"gather", "ask">> \in Seq(Step)
      BY DEF Step
    <3>2. NoCall \in CallType /\ NoCall.next = Nothing /\ NoCall.added = {}
      BY DEF NoCall, CallType, Step
    <3> DEFINE plan == [NoCall EXCEPT !.plan = <<"gather", "ask">>, !.urls = {}]
    <3>3. plan \in CallType /\ plan.next = Nothing /\ plan.added = {}
      BY <3>1, <3>2 DEF CallType
    <3>4. RefreshCall = [plan EXCEPT !.select = {"read", "discovery"}]
      BY DEF RefreshCall, RequestToAll, PlanOf
    <3> HIDE DEF plan
    <3> QED BY <3>3, <3>4 DEF CallType, Capability
  <2>2. Refresher \in handles
    BY <1>1 DEF RefreshList, PoolInv, CallOK
  <2>3. Goes(Refresher, RefreshCall)
    BY <1>1, <1>4, <2>1, GoOnGoes DEF PoolInv
  <2> QED BY <1>1, <1>2, <2>1, <2>2, <2>3, QuietStep
<1> QED BY <1>3, <1>4 DEF RefreshList

LEMMA HeldSteps ==
  ASSUME PoolInv, HeldStep
  PROVE  PoolInv'
<1>1. PICK i \in Relays : ConnectHeld(i) \/ StopHeld(i) \/ DropHeld(i)
  BY DEF HeldStep
<1>2. UNCHANGED <<pool, shutdown, handles, pc, call, lists, forced, late>>
  BY <1>1 DEF ConnectHeld, StopHeld, DropHeld
<1>3. relay \in [Relays -> RelayType]
  BY DEF PoolInv, Typed, RelayType
<1>4. /\ held' \subseteq Relays
      /\ relay' \in [Relays -> RelayType]
      /\ \A j \in Relays : /\ relay'[j].caps = relay[j].caps
                           /\ relay'[j].status = "on" =>
                                 j \in held' \/ (relay[j].status = "on" /\ (j \in held => InPool(j)))
  <2>1. held \subseteq Relays
    BY DEF PoolInv, Typed
  <2>2. CASE ConnectHeld(i) \/ StopHeld(i)
    <3>1. PICK r \in RelayType : relay' = [relay EXCEPT ![i] = r] /\ r.caps = relay[i].caps /\ i \in held
      BY <1>3, <2>2, RelaysTyped DEF ConnectHeld, StopHeld
    <3>2. held' = held
      BY <2>2 DEF ConnectHeld, StopHeld
    <3> QED BY <1>3, <2>1, <3>1, <3>2
  <2>3. CASE DropHeld(i)
    <3>1. held' = held \ {i}
      BY <2>3 DEF DropHeld
    <3>2. CASE InPool(i)
      BY <1>3, <2>1, <2>3, <3>1, <3>2 DEF DropHeld
    <3>3. CASE ~InPool(i)
      <4>1. relay' = Released(relay, {i}, held')
        BY <2>3, <3>3 DEF DropHeld
      <4> QED BY <1>3, <2>1, <3>1, <4>1, ReleasedSound
    <3> QED BY <3>2, <3>3
  <2> QED BY <1>1, <2>2, <2>3
<1>5. Typed'
  BY <1>2, <1>4 DEF PoolInv, Typed, RelayType
<1>6. \A x \in Tasks : CallOK(x)'
  BY <1>2 DEF PoolInv, CallOK
<1>7. PoolOK'
  BY <1>2, <1>4 DEF PoolInv, PoolOK, Present, InPool
<1>8. GossipKept
  BY <1>2, <1>4 DEF GossipKept, PoolInv, Typed
<1>9. AddedRelaysStay'
  BY <1>2, <1>8, StaysKept
<1> QED BY <1>5, <1>6, <1>7, <1>9 DEF PoolInv

-----------------------------------------------------------------------------
(* The theorems                                                            *)

LEMMA NextPoolInv == PoolInv /\ [Next]_vars => PoolInv'
<1> SUFFICES ASSUME PoolInv, [Next]_vars PROVE PoolInv'
  OBVIOUS
<1>1. ASSUME NEW t \in Apps, (\E c \in Calls[t] : Begin(t, c)) \/ Cancel(t) \/ DropClient(t)
      PROVE  PoolInv'
  BY <1>1, BeginStep, CancelStep, DropSteps DEF Tasks
<1>2. ASSUME NEW t \in Tasks, CallStep(t)
      PROVE  PoolInv'
  BY <1>2, StartAddStep, AdmitStep, AddRelayStep, RemoveRelayStep, RemoveAllRelaysStep,
     ShutdownStep, GatherStep, TakeRelayStep, ConnectStep, DisconnectStep, SharedSteps
  DEF CallStep
<1>3. CASE RefresherStep
  BY <1>3, WakeStep, DropSteps, RefreshListStep DEF RefresherStep
<1>4. CASE HeldStep
  BY <1>4, HeldSteps
<1>5. CASE UNCHANGED vars
  BY <1>5 DEF vars, PoolInv, Typed, CallOK, PoolOK, Present, InPool, AddedRelaysStay
<1> QED BY <1>1, <1>2, <1>3, <1>4, <1>5 DEF Next

(* The pool, its callers and its relays fit together whatever order calls, *)
(* cancellations, removals, shutdowns and drops come in.                   *)
THEOREM PoolInvariant == Spec => []PoolInv
<1> QED BY InitPoolInv, NextPoolInv, PTL DEF Spec

(* Relay::drop, RelayPool::drop and shutdown leave no connection task that *)
(* nobody owns; past a shutdown comes only what was under way.             *)
THEOREM RunningRelaysAreOwned == Spec => []RunningIsOwned
<1>1. PoolInv => RunningIsOwned
  <2>1. PoolInv => \A i \in Relays : InPool(i) => \E u \in Urls : pool[u] = i /\ u \in Present
    BY NothingAssumption DEF InPool, Present, Relays
  <2> QED BY <2>1 DEF PoolInv, PoolOK, RunningIsOwned
<1> QED BY <1>1, PoolInvariant, PTL

(* can_remove_relay: what a request adds for gossip is there, with that    *)
(* capability, until the request has asked it.                             *)
THEOREM AddedRelaysAreKept == Spec => []AddedRelaysStay
<1>1. PoolInv => AddedRelaysStay
  BY DEF PoolInv
<1> QED BY <1>1, PoolInvariant, PTL

-----------------------------------------------------------------------------
(* The synchronisation of gossip lists, for any sets of tasks, keys and    *)
(* semaphores: the inductive invariants, exclusion, what a failed fetch    *)
(* leaves, and the refinement of KeyLocks.                                 *)

USE NumbersAssumption, NoneAssumption, FlagAssumption
    DEF Working, Fetching, fetch, store, locks

(* What a step leaves to be shown: the invariant by its named parts.       *)
LEMMA InitInvariant == SyncInit => SemaphoreInv
BY DEF SyncInit, SemaphoreInv, SyncTypeOK, PermitsInFlight, OneOwner, WaitsInFlight,
       NoHandles, PermitNum

(* The first look at the store touches nothing shared.                     *)
LEMMA StartSyncStep ==
    ASSUME SemaphoreInv, NEW t \in Syncs, NEW ks \in SUBSET Keys, StartSync(t, ks)
    PROVE  SemaphoreInv'
<1> USE DEF SemaphoreInv, StartSync
<1>1. SyncTypeOK'
  BY DEF SyncTypeOK, NoHandles
<1>2. PermitsInFlight' /\ OneOwner' /\ WaitsInFlight'
  BY DEF SyncTypeOK, PermitsInFlight, OneOwner, WaitsInFlight
<1> QED BY <1>1, <1>2

(* Semaphores created by acquire are new: nobody holds one of them.        *)
LEMMA LockInFlightStep ==
    ASSUME SemaphoreInv, NEW t \in Syncs, LockInFlight(t)
    PROVE  SemaphoreInv'
<1>1. PICK new \in [Keys -> Semaphores \union {None}] :
        /\ \A k \in Keys :
             IF k \in wanted[t] /\ inFlight[k] = None
             THEN /\ new[k] \in Semaphores /\ ~Held(new[k])
                  /\ \A j \in Keys \ {k} : new[j] # new[k]
                  /\ LowestFree(t, k, new)
             ELSE new[k] = inFlight[k]
        /\ inFlight' = new
        /\ permits' = [s \in Semaphores |->
                         IF \E k \in wanted[t] : inFlight[k] = None /\ new[k] = s
                         THEN PermitNum ELSE permits[s]]
        /\ handle' = [handle EXCEPT ![t] =
                        [k \in Keys |-> IF k \in wanted[t] THEN new[k] ELSE None]]
  BY DEF LockInFlight
<1>2. /\ stage[t] = "lock" /\ mutex = None /\ mutex' = t
      /\ stage' = [stage EXCEPT ![t] = "permits"]
      /\ UNCHANGED <<wanted, taken, cleaning, fetch, store>>
  BY DEF LockInFlight
<1>3. SyncTypeOK /\ PermitsInFlight /\ OneOwner /\ WaitsInFlight
  BY DEF SemaphoreInv
<1>4. \A k \in wanted[t] : k \in Keys /\ new[k] # None
  BY <1>1, <1>3 DEF SyncTypeOK
<1>5. taken[t] = {}
  BY <1>2, <1>3 DEF SyncTypeOK
<1>6. SyncTypeOK'
  <2>1. /\ mutex' \in Syncs \union {None}
        /\ inFlight' \in [Keys -> Semaphores \union {None}]
        /\ permits' \in [Semaphores -> 0..PermitNum]
        /\ stage' \in [Syncs -> {"idle", "lock", "permits"} \union Working]
        /\ handle' \in [Syncs -> [Keys -> Semaphores \union {None}]]
    BY <1>1, <1>2, <1>3 DEF SyncTypeOK, PermitNum
  <2>2. \A u \in Syncs : u # t => stage'[u] = stage[u] /\ handle'[u] = handle[u]
    BY <1>1, <1>2, <1>3 DEF SyncTypeOK
  <2>3. stage'[t] = "permits" /\ \A k \in wanted[t] : handle'[t][k] # None
    BY <1>1, <1>2, <1>3, <1>4 DEF SyncTypeOK
  <2> QED BY <1>2, <1>3, <1>5, <2>1, <2>2, <2>3 DEF SyncTypeOK
<1>7. \A u \in Syncs : u # t => stage'[u] = stage[u] /\ stage[u] # "permits"
  BY <1>2, <1>3 DEF SyncTypeOK
<1>8. PermitsInFlight'
  <2>1. SUFFICES ASSUME NEW u \in Syncs, NEW k \in taken[u]
                 PROVE  inFlight'[k] = handle'[u][k] /\ permits'[inFlight'[k]] = 0
    BY <1>2 DEF PermitsInFlight
  <2>2. u # t /\ k \in Keys
    BY <1>3, <1>5 DEF SyncTypeOK
  <2>3. inFlight[k] = handle[u][k] /\ permits[inFlight[k]] = 0 /\ handle'[u] = handle[u]
    BY <1>1, <1>3, <2>2 DEF PermitsInFlight, SyncTypeOK
  <2>4. inFlight[k] # None
    BY <1>3, <2>2, <2>3 DEF SyncTypeOK
  <2>5. new[k] = inFlight[k]
    BY <1>1, <2>2, <2>4
  <2>6. ~ \E j \in wanted[t] : inFlight[j] = None /\ new[j] = new[k]
    BY <1>1, <1>4, <2>2, <2>4, <2>5 DEF Held
  <2>7. new[k] \in Semaphores
    BY <1>3, <2>2, <2>4, <2>5 DEF SyncTypeOK
  <2> QED BY <1>1, <2>3, <2>5, <2>6, <2>7
<1>9. OneOwner'
  <2>1. ASSUME NEW j \in Keys, NEW k \in Keys, new[j] = new[k], new[j] # None
        PROVE  j = k
    BY <1>1, <1>3, <2>1 DEF OneOwner
  <2> QED BY <1>1, <1>2, <1>3, <2>1 DEF OneOwner
<1>10. WaitsInFlight'
  BY <1>1, <1>2, <1>3, <1>4, <1>7 DEF WaitsInFlight, SyncTypeOK
<1> QED BY <1>6, <1>8, <1>9, <1>10 DEF SemaphoreInv

(* A permit that is available is nobody's.                                 *)
LEMMA TakePermitStep ==
    ASSUME SemaphoreInv, NEW t \in Syncs, NEW k \in Keys, TakePermit(t, k)
    PROVE  SemaphoreInv'
<1> DEFINE s == handle[t][k]
<1>1. SyncTypeOK /\ PermitsInFlight /\ OneOwner /\ WaitsInFlight
  BY DEF SemaphoreInv
<1>2. /\ stage[t] = "permits" /\ k \in wanted[t] \ taken[t] /\ permits[s] > 0
      /\ permits' = [permits EXCEPT ![s] = @ - 1]
      /\ taken' = [taken EXCEPT ![t] = @ \union {k}]
      /\ UNCHANGED <<mutex, inFlight, stage, wanted, handle, cleaning, fetch, store>>
  BY DEF TakePermit
<1>3. s \in Semaphores /\ inFlight[k] = s /\ permits[s] = 1 /\ permits'[s] = 0
  <2>1. s \in Semaphores /\ inFlight[k] = s
    BY <1>1, <1>2 DEF SyncTypeOK, WaitsInFlight
  <2>2. permits \in [Semaphores -> 0..1]
    BY <1>1 DEF SyncTypeOK, PermitNum
  <2>3. permits[s] \in 0..1
    BY <2>1, <2>2
  <2>4. permits[s] = 1
    BY <1>2, <2>3
  <2> QED BY <1>2, <2>1, <2>2, <2>4
<1>4. \A u \in Syncs : k \notin taken[u]
  BY <1>1, <1>3 DEF PermitsInFlight
<1>5. SyncTypeOK'
  <2>1. permits' \in [Semaphores -> 0..PermitNum] /\ taken' \in [Syncs -> SUBSET Keys]
    BY <1>1, <1>2, <1>3 DEF SyncTypeOK, PermitNum
  <2>2. \A u \in Syncs : u # t => taken'[u] = taken[u]
    BY <1>1, <1>2 DEF SyncTypeOK
  <2>3. taken'[t] = taken[t] \union {k}
    BY <1>1, <1>2 DEF SyncTypeOK
  <2> QED BY <1>1, <1>2, <2>1, <2>2, <2>3 DEF SyncTypeOK
<1>6. PermitsInFlight'
  BY <1>1, <1>2, <1>3, <1>4 DEF PermitsInFlight, SyncTypeOK
<1>7. OneOwner' /\ WaitsInFlight'
  BY <1>1, <1>2, <1>4 DEF OneOwner, WaitsInFlight, SyncTypeOK
<1> QED BY <1>5, <1>6, <1>7 DEF SemaphoreInv

(* Permits that go back leave those of the other tasks alone.              *)
LEMMA ReleaseStep ==
    ASSUME SemaphoreInv, NEW t \in Syncs, ReleasePermits(t),
           stage[t] # "idle",
           mutex' = IF mutex = t THEN None ELSE mutex,
           cleaning' \in [SUBSET Keys -> Nat], UNCHANGED <<inFlight, store>>
    PROVE  SemaphoreInv'
<1>1. SyncTypeOK /\ PermitsInFlight /\ OneOwner /\ WaitsInFlight
  BY DEF SemaphoreInv
<1>2. \A u \in Syncs : u # t => /\ stage'[u] = stage[u] /\ wanted'[u] = wanted[u]
                                /\ taken'[u] = taken[u] /\ handle'[u] = handle[u]
  BY <1>1 DEF ReleasePermits, SyncTypeOK
<1>3. stage'[t] = "idle" /\ wanted'[t] = {} /\ taken'[t] = {} /\ handle'[t] = NoHandles
  BY <1>1 DEF ReleasePermits, SyncTypeOK
<1>4. SyncTypeOK'
  <2>1. /\ permits' \in [Semaphores -> 0..PermitNum]
        /\ stage' \in [Syncs -> {"idle", "lock", "permits"} \union Working]
        /\ wanted' \in [Syncs -> SUBSET Keys] /\ taken' \in [Syncs -> SUBSET Keys]
        /\ syncing' \in [Syncs -> SUBSET Keys]
        /\ missing' \in [Syncs -> SUBSET Keys] /\ marking' \in [Syncs -> SUBSET Keys]
        /\ answered' \in [Syncs -> BOOLEAN] /\ failed' \in [Syncs -> BOOLEAN]
        /\ handle' \in [Syncs -> [Keys -> Semaphores \union {None}]]
    BY <1>1 DEF ReleasePermits, SyncTypeOK, NoHandles, PermitNum
  <2>2. \A u \in Syncs : mutex' = u <=> stage'[u] = "permits"
    BY <1>1, <1>2, <1>3 DEF SyncTypeOK
  <2>3. stored' \subseteq Keys /\ fresh' \subseteq Keys /\ mutex' \in Syncs \union {None}
        /\ inFlight' \in [Keys -> Semaphores \union {None}]
    BY <1>1 DEF SyncTypeOK
  <2>4. \A u \in Syncs :
          /\ wanted'[u] = {} <=> stage'[u] = "idle"
          /\ taken'[u] \subseteq wanted'[u]
          /\ stage'[u] \in Working => taken'[u] = wanted'[u]
          /\ stage'[u] \in {"idle", "lock"} => taken'[u] = {} /\ handle'[u] = NoHandles
          /\ \A k \in wanted'[u] : stage'[u] # "lock" => handle'[u][k] # None
    <3> SUFFICES ASSUME NEW u \in Syncs PROVE <2>4!(u)
      OBVIOUS
    <3>1. CASE u = t
      BY <1>3, <3>1
    <3>2. CASE u # t
      <4>1. /\ wanted[u] = {} <=> stage[u] = "idle"
            /\ taken[u] \subseteq wanted[u]
            /\ stage[u] \in Working => taken[u] = wanted[u]
            /\ stage[u] \in {"idle", "lock"} => taken[u] = {} /\ handle[u] = NoHandles
            /\ \A k \in wanted[u] : stage[u] # "lock" => handle[u][k] # None
        BY <1>1 DEF SyncTypeOK
      <4>2. /\ stage'[u] = stage[u] /\ wanted'[u] = wanted[u]
            /\ taken'[u] = taken[u] /\ handle'[u] = handle[u]
        BY <1>2, <3>2
      <4>3. NoHandles' = NoHandles
        BY DEF NoHandles
      <4> QED BY <4>1, <4>2, <4>3
    <3> QED BY <3>1, <3>2
  <2> QED BY <2>1, <2>2, <2>3, <2>4 DEF SyncTypeOK
<1>5. PermitsInFlight'
  <2>1. SUFFICES ASSUME NEW u \in Syncs, NEW k \in taken'[u]
                 PROVE  inFlight[k] = handle'[u][k] /\ permits'[inFlight[k]] = 0
    BY DEF PermitsInFlight
  <2>2. u # t /\ k \in taken[u] /\ k \in Keys
    BY <1>1, <1>2, <1>3 DEF SyncTypeOK
  <2>3. inFlight[k] = handle[u][k] /\ permits[inFlight[k]] = 0 /\ inFlight[k] \in Semaphores
    <3>1. inFlight[k] = handle[u][k] /\ permits[inFlight[k]] = 0
      BY <1>1, <2>2 DEF PermitsInFlight
    <3>2. handle[u][k] # None
      BY <1>1, <2>2 DEF SyncTypeOK
    <3>3. inFlight[k] \in Semaphores \union {None}
      BY <1>1, <2>2 DEF SyncTypeOK
    <3> QED BY <3>1, <3>2, <3>3
  <2>4. ~ \E j \in taken[t] : handle[t][j] = inFlight[k]
    <3>1. SUFFICES ASSUME NEW j \in taken[t], handle[t][j] = inFlight[k] PROVE FALSE
      OBVIOUS
    <3>2. inFlight[j] = inFlight[k]
      BY <1>1, <3>1 DEF PermitsInFlight
    <3>3. j \in Keys /\ inFlight[j] # None => j = k
      BY <1>1, <2>2, <3>2 DEF OneOwner
    <3>4. j \in Keys /\ inFlight[j] # None
      BY <1>1, <2>3, <3>1, <3>2 DEF SyncTypeOK
    <3>5. taken[t] \cap taken[u] = {}
      BY <1>1, <2>2 DEF OneOwner
    <3> QED BY <2>2, <3>1, <3>3, <3>4, <3>5
  <2> QED BY <1>2, <2>2, <2>3, <2>4 DEF ReleasePermits
<1>6. OneOwner'
  <2>1. \A u \in Syncs : taken'[u] \subseteq taken[u]
    BY <1>2, <1>3
  <2>2. inFlight' = inFlight
    OBVIOUS
  <2> QED BY <1>1, <2>1, <2>2 DEF OneOwner
<1>7. WaitsInFlight'
  BY <1>1, <1>2, <1>3 DEF WaitsInFlight
<1> QED BY <1>4, <1>5, <1>6, <1>7 DEF SemaphoreInv

(* Under the free mutex nobody waits for a permit, and a semaphore with    *)
(* all permits has no owner: what cleanup removes is nobody's.             *)
LEMMA CleanupStep ==
    ASSUME SemaphoreInv, NEW ks \in SUBSET Keys, Cleanup(ks)
    PROVE  SemaphoreInv'
<1>1. SyncTypeOK /\ PermitsInFlight /\ OneOwner /\ WaitsInFlight
  BY DEF SemaphoreInv
<1>2. SyncTypeOK'
  BY <1>1 DEF Cleanup, SyncTypeOK, PermitNum
<1>3. \A k \in Keys : inFlight'[k] \in {inFlight[k], None}
  BY <1>1 DEF Cleanup, SyncTypeOK
<1>4. PermitsInFlight'
  BY <1>1 DEF Cleanup, PermitsInFlight, SyncTypeOK, PermitNum
<1>5. OneOwner'
  BY <1>1, <1>3 DEF Cleanup, OneOwner
<1>6. WaitsInFlight'
  BY <1>1 DEF Cleanup, WaitsInFlight, SyncTypeOK
<1> QED BY <1>2, <1>4, <1>5, <1>6 DEF SemaphoreInv

(* A fetch goes from one phase under the guard to another, and touches no  *)
(* permit.                                                                 *)
LEMMA FetchStays ==
    ASSUME SyncTypeOK, NEW t \in Syncs, FetchStep(t)
    PROVE  /\ UNCHANGED locks
           /\ stage[t] \in Working
           /\ \E phase \in Working : stage' = [stage EXCEPT ![t] = phase]
<1>1. UNCHANGED locks
  BY DEF FetchStep, CheckAgain, SyncNegentropy, MarkChecked, FetchNewer, FetchMissing,
         NothingFailed
<1>2. stage[t] \in Working
  BY DEF FetchStep, CheckAgain, SyncNegentropy, MarkChecked, FetchNewer, FetchMissing,
         NothingFailed
<1>3. \E phase \in Working : stage' = [stage EXCEPT ![t] = phase]
  <2>1. ASSUME NEW k \in Keys, MarkChecked(t, k) PROVE <1>3
    <3>1. stage' = [stage EXCEPT ![t] = stage[t]]
      BY <2>1 DEF MarkChecked, SyncTypeOK
    <3> QED BY <1>2, <3>1
  <2> QED BY <2>1 DEF FetchStep, CheckAgain, SyncNegentropy, FetchNewer, FetchMissing,
                       NothingFailed, MarkMissing
<1> QED BY <1>1, <1>2, <1>3

(* Lists, statuses and the outcome of a fetch keep their types.            *)
LEMMA FetchStepKeeps ==
    ASSUME SemaphoreInv, NEW t \in Syncs, FetchStep(t)
    PROVE  SemaphoreInv'
<1>1. SyncTypeOK /\ PermitsInFlight /\ OneOwner /\ WaitsInFlight
  BY DEF SemaphoreInv
<1>2. UNCHANGED locks /\ stage[t] \in Working
  BY <1>1, FetchStays
<1>3. PICK phase \in Working : stage' = [stage EXCEPT ![t] = phase]
  BY <1>1, FetchStays
<1>4. /\ syncing' \in [Syncs -> SUBSET Keys]
      /\ missing' \in [Syncs -> SUBSET Keys] /\ marking' \in [Syncs -> SUBSET Keys]
      /\ answered' \in [Syncs -> BOOLEAN] /\ failed' \in [Syncs -> BOOLEAN]
      /\ stored' \subseteq Keys /\ fresh' \subseteq Keys
  <2>1. ASSUME NEW success \in BOOLEAN, NEW failure \in BOOLEAN, NEW got \in SUBSET Keys,
               SyncNegentropy(t, success, failure, got)
        PROVE  <1>4
    BY <1>1, <2>1 DEF SyncNegentropy, SyncTypeOK
  <2>2. ASSUME NEW k \in Keys, MarkChecked(t, k) PROVE <1>4
    BY <1>1, <2>2 DEF MarkChecked, SyncTypeOK
  <2>3. ASSUME NEW got \in SUBSET Keys, FetchNewer(t, got) PROVE <1>4
    BY <1>1, <2>3 DEF FetchNewer, SyncTypeOK
  <2>4. ASSUME NEW completed \in BOOLEAN, NEW got \in SUBSET Keys,
               FetchMissing(t, completed, got)
        PROVE  <1>4
    BY <1>1, <2>4 DEF FetchMissing, MarkMissing, SyncTypeOK
  <2>5. CASE CheckAgain(t)
    BY <1>1, <2>5 DEF CheckAgain, SyncTypeOK
  <2>6. CASE NothingFailed(t)
    BY <1>1, <2>6 DEF NothingFailed, MarkMissing, SyncTypeOK
  <2> QED BY <2>1, <2>2, <2>3, <2>4, <2>5, <2>6 DEF FetchStep
<1>5. SyncTypeOK'
  BY <1>1, <1>2, <1>3, <1>4 DEF SyncTypeOK
<1>6. PermitsInFlight' /\ OneOwner' /\ WaitsInFlight'
  BY <1>1, <1>2, <1>3 DEF SyncTypeOK, PermitsInFlight, OneOwner, WaitsInFlight
<1> QED BY <1>5, <1>6 DEF SemaphoreInv

(* The mutex, the map of semaphores and their permits stay consistent,     *)
(* whichever tasks are cancelled and whenever cleanups run.                *)
THEOREM SemaphoreInvariant == SyncSpec => []SemaphoreInv
<1>1. SemaphoreInv /\ [SyncNext]_syncVars => SemaphoreInv'
  <2> SUFFICES ASSUME SemaphoreInv, [SyncNext]_syncVars PROVE SemaphoreInv'
    OBVIOUS
  <2>1. ASSUME NEW t \in Syncs, TaskStep(t) PROVE SemaphoreInv'
    <3>1. ASSUME NEW ks \in SUBSET Keys, StartSync(t, ks) PROVE SemaphoreInv'
      BY <3>1, StartSyncStep
    <3>2. ASSUME NEW k \in Keys, TakePermit(t, k) PROVE SemaphoreInv'
      BY <3>2, TakePermitStep
    <3>3. CASE CancelSync(t)
      BY <3>3, ReleaseStep DEF CancelSync, SemaphoreInv, SyncTypeOK
    <3>4. CASE DropGuard(t)
      <4>1. mutex # t /\ cleaning' \in [SUBSET Keys -> Nat]
        BY <3>4 DEF DropGuard, SemaphoreInv, SyncTypeOK
      <4> QED BY <3>4, <4>1, ReleaseStep DEF DropGuard
    <3>5. CASE FetchStep(t)
      BY <3>5, FetchStepKeeps
    <3>6. CASE ReturnPermit(t)
      BY <3>6 DEF SemaphoreInv, ReturnPermit, SyncTypeOK, PermitsInFlight, OneOwner, WaitsInFlight
    <3> QED BY <2>1, <3>1, <3>2, <3>3, <3>4, <3>5, <3>6, LockInFlightStep DEF TaskStep
  <2>2. ASSUME NEW ks \in SUBSET Keys, Cleanup(ks) PROVE SemaphoreInv'
    BY <2>2, CleanupStep
  <2>3. ASSUME NEW k \in Keys, Expire(k) PROVE SemaphoreInv'
    BY <2>3 DEF SemaphoreInv, Expire, SyncTypeOK, PermitsInFlight, OneOwner, WaitsInFlight
  <2>4. CASE UNCHANGED syncVars
    BY <2>4 DEF syncVars, SemaphoreInv, SyncTypeOK, PermitsInFlight, OneOwner, WaitsInFlight
  <2> QED BY <2>1, <2>2, <2>3, <2>4 DEF SyncNext
<1> QED BY InitInvariant, <1>1, PTL DEF SyncSpec

(* Type correctness: the mutex is held exactly by the task that waits for  *)
(* permits, and a task holds permits only for keys it wants.               *)
THEOREM GossipTypeCorrect == SyncSpec => []SyncTypeOK
BY SemaphoreInvariant, PTL DEF SemaphoreInv

(* cleanup never takes a semaphore away from a task with a permit of it.   *)
THEOREM CleanupSparesHolders == SyncSpec => []PermitsInFlight
BY SemaphoreInvariant, PTL DEF SemaphoreInv

(* No two tasks ever hold permits for the same public key.                 *)
THEOREM PermitsAreExclusive == SyncSpec => []OneOwner
BY SemaphoreInvariant, PTL DEF SemaphoreInv

(* What a fetch says of task u stays with u, and lists are not lost.       *)
LEMMA FetchIsOwn ==
    ASSUME SyncTypeOK, [SyncNext]_syncVars, NEW u \in Syncs, ~TaskStep(u)
    PROVE  /\ stage'[u] = stage[u] /\ syncing'[u] = syncing[u] /\ missing'[u] = missing[u]
           /\ marking'[u] = marking[u] /\ answered'[u] = answered[u]
           /\ stored \subseteq stored'
<1> DEFINE Same == /\ stage'[u] = stage[u] /\ syncing'[u] = syncing[u]
                   /\ missing'[u] = missing[u] /\ marking'[u] = marking[u]
                   /\ answered'[u] = answered[u] /\ stored \subseteq stored'
<1>1. ASSUME NEW t \in Syncs, TaskStep(t) PROVE Same
  <2>1. t # u
    BY <1>1
  <2>2. ASSUME FetchStep(t) PROVE Same
    <3>1. ASSUME NEW success \in BOOLEAN, NEW failure \in BOOLEAN, NEW got \in SUBSET Keys,
                 SyncNegentropy(t, success, failure, got)
          PROVE  Same
      BY <2>1, <3>1 DEF SyncNegentropy, SyncTypeOK
    <3>2. ASSUME NEW k \in Keys, MarkChecked(t, k) PROVE Same
      BY <2>1, <3>2 DEF MarkChecked, SyncTypeOK
    <3>3. ASSUME NEW got \in SUBSET Keys, FetchNewer(t, got) PROVE Same
      BY <2>1, <3>3 DEF FetchNewer, SyncTypeOK
    <3>4. ASSUME NEW completed \in BOOLEAN, NEW got \in SUBSET Keys,
                 FetchMissing(t, completed, got)
          PROVE  Same
      BY <2>1, <3>4 DEF FetchMissing, MarkMissing, SyncTypeOK
    <3>5. CASE CheckAgain(t)
      BY <2>1, <3>5 DEF CheckAgain, SyncTypeOK
    <3>6. CASE NothingFailed(t)
      BY <2>1, <3>6 DEF NothingFailed, MarkMissing, SyncTypeOK
    <3> QED BY <2>2, <3>1, <3>2, <3>3, <3>4, <3>5, <3>6 DEF FetchStep
  <2>3. ASSUME CancelSync(t) \/ DropGuard(t) PROVE Same
    BY <2>1, <2>3 DEF CancelSync, DropGuard, ReleasePermits, SyncTypeOK
  <2>4. ASSUME \/ \E ks \in SUBSET Keys : StartSync(t, ks)
               \/ LockInFlight(t) \/ ReturnPermit(t)
               \/ \E k \in Keys : TakePermit(t, k)
        PROVE  Same
    BY <2>1, <2>4 DEF StartSync, LockInFlight, ReturnPermit, TakePermit, SyncTypeOK
  <2> QED BY <1>1, <2>2, <2>3, <2>4 DEF TaskStep
<1>2. ASSUME \/ \E ks \in SUBSET Keys : Cleanup(ks)
             \/ \E k \in Keys : Expire(k)
             \/ UNCHANGED syncVars
      PROVE  Same
  BY <1>2 DEF Cleanup, Expire, syncVars
<1> QED BY <1>1, <1>2 DEF SyncNext

(* What the fetch of task u is about to mark has a list or an answer.      *)
LEMMA FetchKeepsInv ==
    ASSUME SyncTypeOK, FetchInv, NEW u \in Syncs, FetchStep(u)
    PROVE  /\ marking'[u] \union missing'[u] \subseteq syncing'[u]
           /\ answered'[u] \/ marking'[u] \subseteq stored'
           /\ stage'[u] \notin Fetching => marking'[u] \union missing'[u] = {}
           /\ stage'[u] \in {"stored", "newer"} => syncing'[u] \ missing'[u] \subseteq stored'
<1> DEFINE Good == /\ marking'[u] \union missing'[u] \subseteq syncing'[u]
                   /\ answered'[u] \/ marking'[u] \subseteq stored'
                   /\ stage'[u] \notin Fetching => marking'[u] \union missing'[u] = {}
                   /\ stage'[u] \in {"stored", "newer"} => syncing'[u] \ missing'[u] \subseteq stored'
<1>0. /\ marking[u] \union missing[u] \subseteq syncing[u]
      /\ answered[u] \/ marking[u] \subseteq stored
      /\ stage[u] \notin Fetching => marking[u] \union missing[u] = {}
      /\ stage[u] \in {"stored", "newer"} => syncing[u] \ missing[u] \subseteq stored
  BY DEF FetchInv
<1>1. ASSUME NEW success \in BOOLEAN, NEW failure \in BOOLEAN, NEW got \in SUBSET Keys,
             SyncNegentropy(u, success, failure, got)
      PROVE  Good
  <2>1. /\ stage'[u] = "stored" /\ syncing'[u] = syncing[u]
        /\ missing'[u] = syncing[u] \ stored'
        /\ marking'[u] = syncing[u] \intersect stored'
    BY <1>1 DEF SyncNegentropy, SyncTypeOK
  <2> QED BY <2>1
<1>2. ASSUME NEW k \in Keys, MarkChecked(u, k) PROVE Good
  <2>1. /\ stage' = stage /\ syncing' = syncing /\ missing' = missing /\ answered' = answered
        /\ stored' = stored /\ marking'[u] = marking[u] \ {k} /\ stage[u] \in Fetching
    BY <1>2 DEF MarkChecked, SyncTypeOK
  <2> QED BY <1>0, <2>1
<1>3. ASSUME NEW got \in SUBSET Keys, FetchNewer(u, got) PROVE Good
  <2>1. /\ stage'[u] = "newer" /\ stage[u] = "stored" /\ marking'[u] = got
        /\ got \subseteq syncing[u] \ missing[u]
        /\ syncing' = syncing /\ missing' = missing /\ stored' = stored
    BY <1>3 DEF FetchNewer, SyncTypeOK
  <2> QED BY <1>0, <2>1
<1>4. ASSUME NEW completed \in BOOLEAN, NEW got \in SUBSET Keys,
             FetchMissing(u, completed, got)
      PROVE  Good
  <2>1. /\ stage'[u] = "mark" /\ syncing' = syncing /\ missing' = missing
        /\ marking'[u] = IF answered'[u] THEN missing[u] ELSE {}
    BY <1>4 DEF FetchMissing, MarkMissing, SyncTypeOK
  <2> QED BY <1>0, <2>1
<1>5. ASSUME CheckAgain(u) PROVE Good
  <2>1. /\ stage'[u] = "sync" /\ stage[u] \notin Fetching
        /\ missing' = missing /\ marking' = marking
    BY <1>5 DEF CheckAgain, SyncTypeOK
  <2> QED BY <1>0, <2>1
<1>6. ASSUME NothingFailed(u) PROVE Good
  <2>1. /\ stage'[u] = "mark" /\ syncing' = syncing /\ missing' = missing
        /\ marking'[u] = IF answered'[u] THEN missing[u] ELSE {}
    BY <1>6 DEF NothingFailed, MarkMissing, SyncTypeOK
  <2> QED BY <1>0, <2>1
<1> QED BY <1>1, <1>2, <1>3, <1>4, <1>5, <1>6 DEF FetchStep

(* Over the whole of a synchronisation, a key without a list is marked as  *)
(* checked only once a relay has answered.                                 *)
THEOREM FetchInvariant == SyncSpec => []FetchInv
<1>1. SyncInit => FetchInv
  BY DEF SyncInit, FetchInv
<1>2. SyncTypeOK /\ FetchInv /\ [SyncNext]_syncVars => FetchInv'
  <2> SUFFICES ASSUME SyncTypeOK, FetchInv, [SyncNext]_syncVars, NEW u \in Syncs
               PROVE  /\ marking'[u] \union missing'[u] \subseteq syncing'[u]
                      /\ answered'[u] \/ marking'[u] \subseteq stored'
                      /\ stage'[u] \notin Fetching => marking'[u] \union missing'[u] = {}
                      /\ stage'[u] \in {"stored", "newer"}
                           => syncing'[u] \ missing'[u] \subseteq stored'
    BY DEF FetchInv
  <2>0. /\ marking[u] \union missing[u] \subseteq syncing[u]
        /\ answered[u] \/ marking[u] \subseteq stored
        /\ stage[u] \notin Fetching => marking[u] \union missing[u] = {}
        /\ stage[u] \in {"stored", "newer"} => syncing[u] \ missing[u] \subseteq stored
    BY DEF FetchInv
  <2>1. CASE ~TaskStep(u)
    BY <2>0, <2>1, FetchIsOwn
  <2>2. CASE FetchStep(u)
    BY <2>2, FetchKeepsInv
  <2>3. ASSUME CancelSync(u) \/ DropGuard(u)
        PROVE  stage'[u] = "idle" /\ marking'[u] = {} /\ missing'[u] = {} /\ syncing'[u] = {}
    BY <2>3 DEF CancelSync, DropGuard, ReleasePermits, SyncTypeOK
  <2>4. ASSUME \/ \E ks \in SUBSET Keys : StartSync(u, ks)
               \/ LockInFlight(u) \/ ReturnPermit(u)
               \/ \E k \in Keys : TakePermit(u, k)
        PROVE  /\ stage'[u] \notin Fetching /\ stage[u] \notin Fetching
               /\ marking' = marking /\ missing' = missing
    BY <2>4 DEF StartSync, LockInFlight, ReturnPermit, TakePermit, SyncTypeOK
  <2> QED BY <2>0, <2>1, <2>2, <2>3, <2>4 DEF TaskStep
<1> QED BY <1>1, <1>2, GossipTypeCorrect, PTL DEF SyncSpec

(* What the other tasks do leaves alone what task u holds and fetches, and *)
(* nobody else updates a key that u fetches.                               *)
LEMMA OthersFetch ==
    ASSUME SyncTypeOK, OneOwner, FetchInv, FetchedOnceInv, [SyncNext]_syncVars,
           NEW u \in Syncs, ~TaskStep(u)
    PROVE  taken'[u] = taken[u] /\ syncing[u] \cap fresh' \subseteq fresh
<1>1. ASSUME NEW t \in Syncs, TaskStep(t) PROVE taken'[u] = taken[u]
  <2>1. t # u
    BY <1>1
  <2>2. CASE UNCHANGED taken
    BY <2>2
  <2>3. ASSUME NEW k \in Keys, TakePermit(t, k) PROVE taken'[u] = taken[u]
    BY <2>1, <2>3 DEF TakePermit, SyncTypeOK
  <2>4. ASSUME CancelSync(t) \/ DropGuard(t) PROVE taken'[u] = taken[u]
    BY <2>1, <2>4 DEF CancelSync, DropGuard, ReleasePermits, SyncTypeOK
  <2> QED
    BY <1>1, <2>2, <2>3, <2>4
       DEF TaskStep, StartSync, LockInFlight, ReturnPermit, FetchStep, CheckAgain, SyncNegentropy,
           MarkChecked, FetchNewer, FetchMissing, NothingFailed, locks
<1>2. taken'[u] = taken[u]
  BY <1>1 DEF SyncNext, Cleanup, Expire, locks, syncVars
<1>3. ASSUME NEW t \in Syncs, NEW k \in Keys, MarkChecked(t, k)
      PROVE  syncing[u] \cap fresh' \subseteq fresh
  <2>1. t # u
    BY <1>3 DEF TaskStep, FetchStep
  <2>2. k \in syncing[t] /\ fresh' = fresh \union {k}
    BY <1>3 DEF MarkChecked, FetchInv
  <2>3. k \notin syncing[u]
    BY <2>1, <2>2 DEF FetchedOnceInv, OneOwner
  <2> QED BY <2>2, <2>3
<1>4. \/ fresh' \subseteq fresh
      \/ \E t \in Syncs, k \in Keys : MarkChecked(t, k)
  BY DEF SyncNext, TaskStep, syncVars, StartSync, LockInFlight, TakePermit, ReturnPermit,
         CancelSync, DropGuard, FetchStep, CheckAgain, SyncNegentropy, FetchNewer,
         FetchMissing, NothingFailed, Cleanup, Expire, store
<1> QED BY <1>2, <1>3, <1>4

\* What holds of one task
FetchesOnce(t) ==
    /\ syncing[t] \subseteq taken[t]
    /\ stage[t] = "sync" => marking[t] = {} /\ syncing[t] \cap fresh = {}
    /\ stage[t] \in {"stored", "newer"} =>
          marking[t] \cap missing[t] = {} /\ missing[t] \cap fresh = {}

LEMMA FetchStepOnce ==
    ASSUME SyncTypeOK, FetchInv, NEW u \in Syncs, FetchStep(u), FetchesOnce(u)
    PROVE  FetchesOnce(u)'
<1>0. /\ taken' = taken /\ marking[u] \union missing[u] \subseteq syncing[u]
      /\ stage[u] \notin Fetching => marking[u] = {}
  BY DEF FetchInv, FetchStep, CheckAgain, SyncNegentropy, MarkChecked, FetchNewer, FetchMissing,
         NothingFailed, locks
<1>1. ASSUME NEW success \in BOOLEAN, NEW failure \in BOOLEAN, NEW got \in SUBSET Keys,
             SyncNegentropy(u, success, failure, got)
      PROVE  FetchesOnce(u)'
  <2>1. /\ stage'[u] = "stored" /\ syncing' = syncing /\ fresh' = fresh
        /\ missing'[u] = syncing[u] \ stored' /\ marking'[u] = syncing[u] \intersect stored'
        /\ stage[u] = "sync"
    BY <1>1 DEF SyncNegentropy, SyncTypeOK
  <2> QED BY <1>0, <2>1 DEF FetchesOnce
<1>2. ASSUME NEW k \in Keys, MarkChecked(u, k) PROVE FetchesOnce(u)'
  <2>1. /\ stage' = stage /\ syncing' = syncing /\ missing' = missing
        /\ fresh' = fresh \union {k} /\ marking'[u] = marking[u] \ {k} /\ k \in marking[u]
    BY <1>2 DEF MarkChecked, SyncTypeOK
  <2> QED BY <1>0, <2>1 DEF FetchesOnce
<1>3. ASSUME NEW got \in SUBSET Keys, FetchNewer(u, got) PROVE FetchesOnce(u)'
  <2>1. /\ stage'[u] = "newer" /\ stage[u] = "stored" /\ marking'[u] = got
        /\ got \subseteq syncing[u] \ missing[u]
        /\ syncing' = syncing /\ missing' = missing /\ fresh' = fresh
    BY <1>3 DEF FetchNewer, SyncTypeOK, store
  <2> QED BY <1>0, <2>1 DEF FetchesOnce
<1>4. ASSUME \/ NothingFailed(u)
             \/ \E completed \in BOOLEAN, got \in SUBSET Keys : FetchMissing(u, completed, got)
      PROVE  FetchesOnce(u)'
  <2>1. stage'[u] = "mark" /\ syncing' = syncing
    BY <1>4 DEF FetchMissing, NothingFailed, MarkMissing, SyncTypeOK
  <2> QED BY <1>0, <2>1 DEF FetchesOnce
<1>5. ASSUME CheckAgain(u) PROVE FetchesOnce(u)'
  <2>1. /\ stage'[u] = "sync" /\ stage[u] = "check" /\ marking' = marking /\ fresh' = fresh
        /\ syncing'[u] = wanted[u] \ fresh /\ taken[u] = wanted[u]
    BY <1>5 DEF CheckAgain, SyncTypeOK, store, Working
  <2>2. stage[u] \notin Fetching
    BY <2>1 DEF Fetching
  <2> QED BY <1>0, <2>1, <2>2 DEF FetchesOnce
<1> QED BY <1>1, <1>2, <1>3, <1>4, <1>5 DEF FetchStep

(* Exclusive permits, the second look under them and the order in which a  *)
(* fetch marks keep two tasks from fetching a key, and one from asking for *)
(* a key that has been updated since its second look.                      *)
THEOREM FreshIsNotFetched == SyncSpec => []NothingFetchedTwice
<1>1. SyncInit => FetchedOnceInv
  BY DEF SyncInit, FetchedOnceInv, NothingFetchedTwice
<1>2. ASSUME SyncTypeOK, OneOwner, OneOwner', FetchInv, FetchedOnceInv, [SyncNext]_syncVars
      PROVE  FetchedOnceInv'
  <2>1. ASSUME NEW u \in Syncs PROVE FetchesOnce(u)'
    <3>0. FetchesOnce(u) /\ missing[u] \subseteq syncing[u]
      BY <1>2 DEF FetchedOnceInv, NothingFetchedTwice, FetchesOnce, FetchInv
    <3>1. CASE ~TaskStep(u)
      <4>1. /\ stage'[u] = stage[u] /\ syncing'[u] = syncing[u] /\ missing'[u] = missing[u]
            /\ marking'[u] = marking[u]
        BY <1>2, <3>1, FetchIsOwn
      <4>2. taken'[u] = taken[u] /\ syncing[u] \cap fresh' \subseteq fresh
        BY <1>2, <3>1, OthersFetch
      <4> QED BY <3>0, <4>1, <4>2 DEF FetchesOnce
    <3>2. CASE FetchStep(u)
      BY <1>2, <3>0, <3>2, FetchStepOnce
    <3>3. ASSUME CancelSync(u) \/ DropGuard(u) PROVE FetchesOnce(u)'
      <4>1. stage'[u] = "idle" /\ syncing'[u] = {}
        BY <1>2, <3>3 DEF CancelSync, DropGuard, ReleasePermits, SyncTypeOK
      <4> QED BY <4>1 DEF FetchesOnce
    <3>4. ASSUME \/ \E ks \in SUBSET Keys : StartSync(u, ks)
                 \/ LockInFlight(u) \/ ReturnPermit(u)
                 \/ \E k \in Keys : TakePermit(u, k)
          PROVE  FetchesOnce(u)'
      <4>1. stage'[u] \in {"lock", "permits", "check"} /\ syncing' = syncing
        BY <1>2, <3>4 DEF StartSync, LockInFlight, ReturnPermit, TakePermit, SyncTypeOK, fetch
      <4>2. CASE UNCHANGED taken
        BY <3>0, <4>1, <4>2 DEF FetchesOnce
      <4>3. ASSUME NEW k \in Keys, TakePermit(u, k) PROVE taken[u] \subseteq taken'[u]
        BY <1>2, <4>3 DEF TakePermit, SyncTypeOK
      <4>4. UNCHANGED taken \/ \E k \in Keys : TakePermit(u, k)
        BY <3>4 DEF StartSync, LockInFlight, ReturnPermit
      <4> QED BY <3>0, <4>1, <4>2, <4>3, <4>4 DEF FetchesOnce
    <3> QED BY <3>1, <3>2, <3>3, <3>4 DEF TaskStep
  <2>2. ASSUME NEW t \in Syncs, NEW u \in Syncs \ {t} PROVE syncing'[t] \cap syncing'[u] = {}
    <3>1. syncing'[t] \subseteq taken'[t] /\ syncing'[u] \subseteq taken'[u]
      BY <2>1 DEF FetchesOnce
    <3> QED BY <1>2, <3>1 DEF OneOwner
  <2> QED BY <2>1, <2>2 DEF FetchedOnceInv, NothingFetchedTwice, FetchesOnce
<1>3. FetchedOnceInv => NothingFetchedTwice
  BY DEF FetchedOnceInv
<1> QED
  BY <1>1, <1>2, <1>3, GossipTypeCorrect, PermitsAreExclusive, FetchInvariant, PTL DEF SyncSpec

(* A total failure of the network leaves the keys without a stored list    *)
(* outdated: the next synchronisation tries them again.                    *)
THEOREM FailuresDoNotBlock == SyncSpec => FailuresAreRetried
<1>1. ASSUME SyncTypeOK, FetchInv, [SyncNext]_syncVars, NEW k \in fresh' \ fresh
      PROVE  \E t \in Syncs : k \in syncing[t] /\ (answered[t] \/ k \in stored)
  <2>1. \/ fresh' \subseteq fresh
        \/ \E t \in Syncs, j \in Keys : MarkChecked(t, j)
    BY <1>1 DEF SyncNext, TaskStep, syncVars, StartSync, LockInFlight, TakePermit, ReturnPermit,
         CancelSync, DropGuard, FetchStep, CheckAgain, SyncNegentropy, FetchNewer,
         FetchMissing, NothingFailed, Cleanup, Expire
  <2>2. PICK t \in Syncs, j \in Keys : MarkChecked(t, j)
    BY <1>1, <2>1
  <2>3. k = j /\ j \in marking[t]
    BY <1>1, <2>2 DEF MarkChecked
  <2> QED BY <1>1, <2>3 DEF FetchInv
<1>2. SUFFICES ASSUME SyncTypeOK, FetchInv, [SyncNext]_syncVars
               PROVE  [\A k \in fresh' \ fresh :
                         \E t \in Syncs : k \in syncing[t] /\ (answered[t] \/ k \in stored)]_syncVars
  BY GossipTypeCorrect, FetchInvariant, PTL DEF SyncSpec, FailuresAreRetried
<1> QED BY <1>1, <1>2

(* Permits are taken one by one and may be lost to a cancellation, yet the *)
(* synchronisations see exclusive locks on whole key sets.                 *)
THEOREM SemaphoreRefinesKeyLocks == SyncSpec => ImplementsKeyLocks
<1> DEFINE W == [t \in Syncs |-> IF stage[t] \in Working THEN wanted[t] ELSE {}]
<1>1. SyncInit => Locks!Init
  BY DEF SyncInit, Locks!Init
<1>2. SemaphoreInv /\ [SyncNext]_syncVars => [Locks!Next]_W
  <2> SUFFICES ASSUME SemaphoreInv, [SyncNext]_syncVars, W' # W
               PROVE  Locks!Next
    OBVIOUS
  <2>1. SyncTypeOK /\ OneOwner
    BY DEF SemaphoreInv
  <2>2. ASSUME NEW t \in Syncs, ReturnPermit(t) PROVE Locks!Next
    <3>1. W[t] = {} /\ wanted[t] # {} /\ wanted[t] = taken[t] /\ wanted[t] \in SUBSET Keys
      BY <2>1, <2>2 DEF ReturnPermit, SyncTypeOK
    <3>2. \A u \in Syncs : W[u] \cap wanted[t] = {}
      BY <2>1, <2>2, <3>1 DEF ReturnPermit, SyncTypeOK, OneOwner
    <3>3. W' = [W EXCEPT ![t] = wanted[t]]
      BY <2>1, <2>2 DEF ReturnPermit, SyncTypeOK
    <3>4. \E ks \in SUBSET Keys : Locks!Acquire(t, ks)
      BY <3>1, <3>2, <3>3 DEF Locks!Acquire
    <3> QED BY <3>4 DEF Locks!Next
  <2>3. ASSUME NEW t \in Syncs, DropGuard(t) PROVE Locks!Next
    <3>1. W[t] # {} /\ W' = [W EXCEPT ![t] = {}]
      BY <2>1, <2>3 DEF DropGuard, ReleasePermits, SyncTypeOK
    <3> QED BY <3>1 DEF Locks!Next, Locks!Release
  <2>4. ASSUME NEW t \in Syncs, CancelSync(t) PROVE FALSE
    BY <2>1, <2>4 DEF CancelSync, ReleasePermits, SyncTypeOK
  <2>5. ASSUME NEW t \in Syncs, NEW ks \in SUBSET Keys, StartSync(t, ks) PROVE FALSE
    BY <2>1, <2>5 DEF StartSync, SyncTypeOK
  <2>6. ASSUME NEW t \in Syncs, LockInFlight(t) PROVE FALSE
    BY <2>1, <2>6 DEF LockInFlight, SyncTypeOK
  <2>8. ASSUME NEW t \in Syncs, FetchStep(t) PROVE FALSE
    <3>1. /\ UNCHANGED wanted /\ stage[t] \in Working
          /\ \E phase \in Working : stage' = [stage EXCEPT ![t] = phase]
      BY <2>1, <2>8, FetchStays
    <3>2. \A u \in Syncs : stage'[u] \in Working <=> stage[u] \in Working
      BY <2>1, <3>1 DEF SyncTypeOK
    <3> QED BY <3>1, <3>2
  <2>7. CASE UNCHANGED <<stage, wanted>>
    BY <2>7
  <2> QED BY <2>2, <2>3, <2>4, <2>5, <2>6, <2>7, <2>8
          DEF SyncNext, TaskStep, TakePermit, Cleanup, Expire, syncVars
<1> QED BY <1>1, <1>2, SemaphoreInvariant, PTL DEF SyncSpec, Locks!Spec, ImplementsKeyLocks
=============================================================================
