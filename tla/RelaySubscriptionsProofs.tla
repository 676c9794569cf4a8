---------------------- MODULE RelaySubscriptionsProofs ----------------------
(***************************************************************************)
(* SubscriptionsInv is inductive: for any IDs, callers, queue and relay,   *)
(* the counters are exact, what is registered is served or restorable, and *)
(* the restoration queues no REQ that is not needed.                       *)
(***************************************************************************)
EXTENDS RelaySubscriptions, FiniteSetTheorems, FunctionTheorems, TLAPS

-----------------------------------------------------------------------------
(* Queues                                                                  *)

\* The positions of the messages that carry k
Positions(q, k) == {i \in DOMAIN q : q[i].counter = k}

LEMMA PositionsFinite ==
    ASSUME NEW S, NEW q \in Seq(S), NEW k
    PROVE  IsFiniteSet(Positions(q, k)) /\ Cardinality(Positions(q, k)) \in Nat
<1>1. IsFiniteSet(1..Len(q))
  BY FS_Interval
<1>2. Positions(q, k) \in SUBSET (1..Len(q))
  BY DEF Positions
<1>3. IsFiniteSet(Positions(q, k))
  BY <1>1, <1>2, FS_Subset
<1> QED BY <1>3, FS_CardinalityType

LEMMA CarryingIsCardinality == \A q, k : Carrying(q, k) = Cardinality(Positions(q, k))
BY DEF Carrying, Positions

LEMMA CarryingIsNat ==
    ASSUME NEW S, NEW q \in Seq(S), NEW k
    PROVE  Carrying(q, k) \in Nat
BY PositionsFinite DEF Carrying, Positions

\* Some message carries k if the number of those is positive
LEMMA CarryingPositive ==
    ASSUME NEW S, NEW q \in Seq(S), NEW k
    PROVE  (\E i \in DOMAIN q : q[i].counter = k) <=> Carrying(q, k) > 0
<1>1. Carrying(q, k) = 0 <=> Positions(q, k) = {}
  BY PositionsFinite, FS_EmptySet DEF Carrying, Positions
<1> QED BY <1>1, CarryingIsNat DEF Positions

LEMMA CarryingAppend ==
    ASSUME NEW S, NEW q \in Seq(S), NEW x \in S, NEW k
    PROVE  Carrying(Append(q, x), k) = Carrying(q, k) + (IF x.counter = k THEN 1 ELSE 0)
<1> DEFINE n == Len(q) + 1
<1>1. DOMAIN Append(q, x) = (1..Len(q)) \union {n} /\ DOMAIN q = 1..Len(q)
  OBVIOUS
<1>2. \A i \in 1..Len(q) : Append(q, x)[i] = q[i]
  OBVIOUS
<1>3. Append(q, x)[n] = x /\ n \notin 1..Len(q)
  OBVIOUS
<1>4. CASE x.counter = k
  <2>1. Positions(Append(q, x), k) = Positions(q, k) \union {n}
    BY <1>1, <1>2, <1>3, <1>4 DEF Positions
  <2>2. n \notin Positions(q, k)
    BY <1>1, <1>3 DEF Positions
  <2>3. IsFiniteSet(Positions(q, k))
    BY PositionsFinite
  <2>4. Cardinality(Positions(q, k) \union {n}) = Cardinality(Positions(q, k)) + 1
    BY <2>2, <2>3, FS_AddElement
  <2> QED BY <1>4, <2>1, <2>4, CarryingIsCardinality
<1>5. CASE x.counter # k
  <2>1. Positions(Append(q, x), k) = Positions(q, k)
    BY <1>1, <1>2, <1>3, <1>5 DEF Positions
  <2>2. Carrying(q, k) \in Nat
    BY CarryingIsNat
  <2> QED BY <1>5, <2>1, <2>2, CarryingIsCardinality
<1> QED BY <1>4, <1>5

LEMMA CarryingTail ==
    ASSUME NEW S, NEW q \in Seq(S), q # <<>>, NEW k
    PROVE  Carrying(q, k) = Carrying(Tail(q), k) + (IF Head(q).counter = k THEN 1 ELSE 0)
<1> DEFINE T == Positions(Tail(q), k)
           R == {i \in DOMAIN q : i > 1 /\ q[i].counter = k}
           f == [i \in T |-> i + 1]
<1>1. /\ Len(q) \in Nat \ {0} /\ DOMAIN q = 1..Len(q) /\ Tail(q) \in Seq(S)
      /\ DOMAIN Tail(q) = 1..(Len(q) - 1) /\ Head(q) = q[1]
  OBVIOUS
<1>2. \A i \in 1..(Len(q) - 1) : Tail(q)[i] = q[i + 1]
  OBVIOUS
<1>3. \A i \in T : i \in Int /\ i + 1 \in R
  BY <1>1, <1>2 DEF Positions
<1>4. \A j \in R : j - 1 \in T /\ j \in Int
  BY <1>1, <1>2 DEF Positions
<1>5. f \in Bijection(T, R)
  <2>1. f \in [T -> R]
    BY <1>3
  <2>2. \A a, b \in T : f[a] = f[b] => a = b
    BY <1>3
  <2>3. \A j \in R : \E i \in T : f[i] = j
    <3> SUFFICES ASSUME NEW j \in R PROVE \E i \in T : f[i] = j
      OBVIOUS
    <3>1. j - 1 \in T /\ f[j - 1] = j
      BY <1>4
    <3> QED BY <3>1
  <2> QED BY <2>1, <2>2, <2>3, Fun_IsBij
<1>6. Cardinality(R) = Cardinality(T) /\ IsFiniteSet(R)
  <2>1. IsFiniteSet(T)
    BY <1>1, PositionsFinite
  <2>2. ExistsBijection(T, R)
    BY <1>5, Fun_ExistsBij
  <2> QED BY <2>1, <2>2, FS_Bijection
<1>7. CASE Head(q).counter = k
  <2>1. Positions(q, k) = R \union {1} /\ 1 \notin R
    BY <1>1, <1>7 DEF Positions
  <2>2. Cardinality(R \union {1}) = Cardinality(R) + 1
    BY <1>6, <2>1, FS_AddElement
  <2> QED BY <1>6, <1>7, <2>1, <2>2, CarryingIsCardinality
<1>8. CASE Head(q).counter # k
  <2>1. Positions(q, k) = R
    BY <1>1, <1>8 DEF Positions
  <2>2. Carrying(Tail(q), k) \in Nat
    BY <1>1, CarryingIsNat
  <2>3. Carrying(q, k) = Cardinality(R) /\ Carrying(Tail(q), k) = Cardinality(T)
    BY <2>1, CarryingIsCardinality
  <2> HIDE DEF T, R
  <2> QED BY <1>6, <1>8, <2>2, <2>3
<1> QED BY <1>7, <1>8

LEMMA CarryingConcat ==
    ASSUME NEW S, NEW q \in Seq(S), NEW r \in Seq(S), NEW k,
           \A i \in DOMAIN r : r[i].counter # k
    PROVE  Carrying(q \o r, k) = Carrying(q, k)
<1>1. DOMAIN (q \o r) = 1..(Len(q) + Len(r)) /\ DOMAIN q = 1..Len(q) /\ DOMAIN r = 1..Len(r)
  OBVIOUS
<1>2. \A i \in 1..Len(q) : (q \o r)[i] = q[i]
  OBVIOUS
<1>3. \A i \in 1..(Len(q) + Len(r)) : i \notin 1..Len(q)
         => i - Len(q) \in DOMAIN r /\ (q \o r)[i] = r[i - Len(q)]
  OBVIOUS
<1>4. Positions(q \o r, k) = Positions(q, k)
  BY <1>1, <1>2, <1>3 DEF Positions
<1> QED BY <1>4 DEF Carrying, Positions

-----------------------------------------------------------------------------
(* The types, one part of the system after the other                       *)

LinkTyped ==
    /\ connected \in BOOLEAN /\ success \in 0..MaxSessions
    /\ serve \in {"down", "accepted", "restoring", "running", "closing"}
RegistryTyped ==
    /\ reg \in [Subs -> Counters \union {Nothing}]
    /\ conn \in [Subs -> 0..(MaxSessions + 1)] /\ closed \in [Subs -> BOOLEAN]
    /\ \A s \in Subs : reg[s] = Nothing => conn[s] = 0 /\ ~closed[s]
OutboundTyped ==
    /\ queue \in Seq(Item) /\ Len(queue) <= Capacity
    /\ count \in [Counters -> Nat]
SenderTyped ==
    /\ stage \in {"idle", "taken", "started"}
    /\ item \in Item \union {Nothing} /\ (item = Nothing <=> stage = "idle")
IngesterTyped ==
    /\ todo \subseteq Subs /\ redo \subseteq Subs /\ challenge \in BOOLEAN
    /\ ing \in {"idle", "waiting", "authenticated", "restoring"}
UsersTyped ==
    /\ pc \in [Callers -> {"ready", "added", "undo"}]
    /\ target \in [Callers -> Subs \union {Nothing}]
    /\ \A c \in Callers : target[c] = Nothing <=> pc[c] = "ready"
PeerTyped ==
    /\ open \subseteq Subs /\ stray \subseteq open /\ authed \in BOOLEAN
    /\ inbox \in Seq(Frame)
WorksInSession == stage # "idle" \/ ing # "idle" => serve = "running"

LEMMA TypesByPart ==
    TypeOK <=> /\ LinkTyped /\ RegistryTyped /\ OutboundTyped /\ SenderTyped
               /\ IngesterTyped /\ UsersTyped /\ PeerTyped /\ WorksInSession
BY DEF TypeOK, LinkTyped, RegistryTyped, OutboundTyped, SenderTyped, IngesterTyped, UsersTyped,
       PeerTyped, WorksInSession

\* Messages and answers
LEMMA Messages ==
    /\ \A x \in Item : /\ x.counter \in Counters \union {Nothing}
                       /\ x.type \in {"REQ", "CLOSE", "AUTH", "EVENT"}
                       /\ x.type \in {"REQ", "CLOSE"} => x.id \in Subs
                       /\ x.counter # Nothing => x.type = "REQ"
    /\ \A s \in Subs, k \in Counters \union {Nothing} : Req(s, k) \in Item
    /\ \A s \in Subs : Close(s) \in Item
    /\ Plain("AUTH") \in Item /\ Plain("EVENT") \in Item
BY NothingAssumption DEF Item, Req, Close, Plain

LEMMA Answers ==
    /\ Answer("AUTH") \in Frame /\ Answer("OK") \in Frame
    /\ \A s \in Subs : \A r \in {"auth-required", "rate-limited", "blocked"} : Closed(s, r) \in Frame
    /\ \A f \in Frame : f.type = "CLOSED" => f.id \in Subs
    /\ \A f \in Frame : f.type # "CLOSED" => f.id = Nothing
BY DEF Frame, Answer, Closed

LEMMA InitTyped == Init => TypeOK
<1> SUFFICES ASSUME Init PROVE TypeOK
  OBVIOUS
<1>1. LinkTyped /\ RegistryTyped /\ SenderTyped /\ IngesterTyped /\ UsersTyped /\ WorksInSession
  <2>1. LinkTyped /\ WorksInSession
    <3>1. 0 \in 0..MaxSessions
      BY BoundsAssumption
    <3> QED BY <3>1 DEF Init, LinkTyped, WorksInSession
  <2>2. SenderTyped /\ IngesterTyped
    BY DEF Init, SenderTyped, IngesterTyped
  <2>3. UsersTyped
    BY DEF Init, UsersTyped
  <2>4. RegistryTyped
    <3>1. 0 \in 0..(MaxSessions + 1)
      BY BoundsAssumption
    <3> QED BY <3>1 DEF Init, RegistryTyped
  <2> QED BY <2>1, <2>2, <2>3, <2>4
<1>2. OutboundTyped
  <2>1. <<>> \in Seq(Item) /\ Len(<<>>) <= Capacity
    BY BoundsAssumption
  <2> QED BY <2>1 DEF Init, OutboundTyped
<1>3. PeerTyped
  <2>1. <<>> \in Seq(Frame)
    OBVIOUS
  <2> QED BY <2>1 DEF Init, PeerTyped
<1> QED BY <1>1, <1>2, <1>3, TypesByPart

\* What a restoration does to the queue and the registry
LEMMA RestorationTyped ==
    ASSUME NEW s \in Subs, NEW refused, LinkTyped, RegistryTyped, OutboundTyped,
           QueueResubscription(s, refused)
    PROVE  RegistryTyped' /\ OutboundTyped'
<1>1. CASE ~NeedsRestore(s, success)
  BY <1>1 DEF QueueResubscription, registry, outbound, RegistryTyped, OutboundTyped
<1>2. CASE NeedsRestore(s, success)
  <2>1. reg' = reg /\ reg[s] \in Counters /\ reg[s] # Nothing /\ success \in 0..(MaxSessions + 1)
    BY <1>2, BoundsAssumption DEF QueueResubscription, NeedsRestore, RegistryTyped, LinkTyped
  <2>2. /\ conn' = [conn EXCEPT ![s] = success]
        /\ \/ closed' = [closed EXCEPT ![s] = FALSE]
           \/ closed' = [closed EXCEPT ![s] = TRUE]
    BY <1>2 DEF QueueResubscription
  <2>3. RegistryTyped'
    BY <2>1, <2>2 DEF RegistryTyped
  <2>4. CASE Room(1) /\ queue' = Append(queue, Req(s, reg[s])) /\ count' = Track(reg[s])
    <3>1. queue' \in Seq(Item) /\ Len(queue') = Len(queue) + 1
      BY <2>1, <2>4, Messages DEF OutboundTyped
    <3>2. count' \in [Counters -> Nat]
      BY <2>1, <2>4 DEF OutboundTyped, Track
    <3> QED BY <2>3, <2>4, <3>1, <3>2 DEF OutboundTyped, Room
  <2>5. CASE UNCHANGED outbound
    BY <2>3, <2>5 DEF OutboundTyped, outbound
  <2> QED BY <1>2, <2>3, <2>4, <2>5 DEF QueueResubscription
<1> QED BY <1>1, <1>2

LEMMA ForgetTyped ==
    ASSUME NEW ids, RegistryTyped, Forget(ids)
    PROVE  RegistryTyped'
<1>1. reg' \in [Subs -> Counters \union {Nothing}] /\ conn' \in [Subs -> 0..(MaxSessions + 1)]
  BY BoundsAssumption DEF Forget, RegistryTyped
<1>2. closed' \in [Subs -> BOOLEAN]
  BY DEF Forget, RegistryTyped
<1>3. \A s \in Subs : reg'[s] = Nothing => conn'[s] = 0 /\ ~closed'[s]
  BY DEF Forget, RegistryTyped
<1> QED BY <1>1, <1>2, <1>3 DEF RegistryTyped

LEMMA TrackTyped ==
    ASSUME NEW k \in Counters \union {Nothing}, OutboundTyped
    PROVE  Track(k) \in [Counters -> Nat] /\ Untrack(k) \in [Counters -> Nat]
BY DEF Track, Untrack, OutboundTyped

\* What each step makes of each part
LEMMA LinkKept ==
    ASSUME LinkTyped, Next
    PROVE  LinkTyped'
<1>1. CASE UNCHANGED link
  BY <1>1 DEF link, LinkTyped
<1>2. CASE AcceptConnection
  BY <1>2, BoundsAssumption DEF AcceptConnection, LinkTyped
<1>3. CASE Disconnect \/ StartRestoring \/ StartHandlers \/ SessionEnds \/ ScheduleReconnect
  BY <1>3 DEF Disconnect, StartRestoring, StartHandlers, SessionEnds, ScheduleReconnect, LinkTyped
<1> QED
  BY <1>1, <1>2, <1>3
     DEF Next, CallerStep, SessionStep, AddLongLivedSubscription, QueueReq, UndoSubscription,
         Unsubscribe, UnsubscribeAll, ReissueSubscription, QueueBatch, Publish, RestoreNext,
         RecvClientMsg, SubscriptionReqStarted, SendWsMsg, HandleRelayMessage,
         Authenticate, AuthFails, StartRestoringAuthed, FinishRestoringAuthed, RestoreAuthed,
         RelayCloses

LEMMA RegistryKept ==
    ASSUME LinkTyped, RegistryTyped, OutboundTyped, PeerTyped, UsersTyped, Next
    PROVE  RegistryTyped'
<1>1. CASE UNCHANGED registry
  BY <1>1 DEF registry, RegistryTyped
<1>2. ASSUME NEW ids, Forget(ids) PROVE RegistryTyped'
  BY <1>2, ForgetTyped
<1>3. ASSUME NEW c \in Callers, NEW s \in Subs, AddLongLivedSubscription(c, s)
      PROVE  RegistryTyped'
  <2>1. DeliveryConnection \in 0..(MaxSessions + 1)
    BY BoundsAssumption DEF DeliveryConnection, LinkTyped
  <2>2. PICK k \in Counters : reg' = [reg EXCEPT ![s] = k]
    BY <1>3 DEF AddLongLivedSubscription
  <2>3. conn' = [conn EXCEPT ![s] = DeliveryConnection] /\ closed' = closed
    BY <1>3 DEF AddLongLivedSubscription
  <2>4. k # Nothing
    BY NothingAssumption
  <2> QED BY <2>1, <2>2, <2>3, <2>4 DEF RegistryTyped
<1>4. ASSUME NEW s \in Subs, NEW refused, QueueResubscription(s, refused) PROVE RegistryTyped'
  BY <1>4, RestorationTyped
<1>5. CASE SubscriptionReqStarted
  <2> DEFINE mine(s) == item.type = "REQ" /\ item.counter # Nothing /\ reg[s] = item.counter
  <2>1. /\ reg' = reg /\ conn' = [s \in Subs |-> IF mine(s) THEN success ELSE conn[s]]
        /\ closed' = [s \in Subs |-> closed[s] /\ ~mine(s)]
    BY <1>5 DEF SubscriptionReqStarted
  <2>2. success \in 0..(MaxSessions + 1)
    BY BoundsAssumption DEF LinkTyped
  <2>3. \A s \in Subs : mine(s) => reg[s] # Nothing
    OBVIOUS
  <2> HIDE DEF mine
  <2>4. conn' \in [Subs -> 0..(MaxSessions + 1)]
    BY <2>1, <2>2 DEF RegistryTyped
  <2>5. closed' \in [Subs -> BOOLEAN]
    BY <2>1
  <2>6. \A s \in Subs : reg[s] = Nothing => conn'[s] = 0 /\ ~closed'[s]
    BY <2>1, <2>3 DEF RegistryTyped
  <2> QED BY <2>1, <2>4, <2>5, <2>6 DEF RegistryTyped
<1>6. CASE HandleRelayMessage
  <2>1. PICK f : f = Head(inbox)
    OBVIOUS
  <2>2. CASE UNCHANGED registry
    BY <2>2, <1>1
  <2>3. CASE Forget({f.id})
    BY <2>3, <1>2
  <2>4. CASE UNCHANGED <<reg, conn>> /\ closed' = [closed EXCEPT ![f.id] = reg[f.id] # Nothing]
    <3>1. reg' = reg /\ conn' = conn /\ closed' \in [Subs -> BOOLEAN]
      BY <2>4 DEF RegistryTyped
    <3>2. \A s \in Subs : reg[s] = Nothing => ~closed'[s]
      BY <2>4 DEF RegistryTyped
    <3> QED BY <3>1, <3>2 DEF RegistryTyped
  <2> QED BY <1>6, <2>1, <2>2, <2>3, <2>4 DEF HandleRelayMessage
<1> QED
  BY <1>1, <1>2, <1>3, <1>4, <1>5, <1>6
     DEF Next, CallerStep, SessionStep, QueueReq, UndoSubscription,
         Unsubscribe, UnsubscribeAll, ReissueSubscription, QueueBatch, Publish, RestoreNext,
         AcceptConnection, Disconnect, StartRestoring, StartHandlers, SessionEnds,
         ScheduleReconnect, RecvClientMsg, SendWsMsg,
         Authenticate, AuthFails, StartRestoringAuthed, FinishRestoringAuthed, RestoreAuthed,
         RelayCloses

LEMMA SenderKept ==
    ASSUME SenderTyped, OutboundTyped, Next
    PROVE  SenderTyped'
<1>1. CASE UNCHANGED sender
  BY <1>1 DEF sender, SenderTyped
<1>2. CASE RecvClientMsg
  <2>1. item' = Head(queue) /\ item' \in Item /\ stage' = "taken"
    BY <1>2 DEF RecvClientMsg, OutboundTyped
  <2> QED BY <2>1, ItemAssumption DEF SenderTyped
<1>3. CASE SessionEnds \/ SubscriptionReqStarted \/ SendWsMsg
  BY <1>3 DEF SessionEnds, SubscriptionReqStarted, SendWsMsg, SenderTyped
<1> QED
  BY <1>1, <1>2, <1>3
     DEF Next, CallerStep, SessionStep, AddLongLivedSubscription, QueueReq, UndoSubscription,
         Unsubscribe, UnsubscribeAll, ReissueSubscription, QueueBatch, Publish, RestoreNext,
         AcceptConnection, Disconnect, StartRestoring, StartHandlers,
         ScheduleReconnect, HandleRelayMessage,
         Authenticate, AuthFails, StartRestoringAuthed, FinishRestoringAuthed, RestoreAuthed,
         RelayCloses

LEMMA OutboundKept ==
    ASSUME LinkTyped, RegistryTyped, OutboundTyped, SenderTyped, UsersTyped, Next
    PROVE  OutboundTyped'
<1>1. CASE UNCHANGED outbound
  BY <1>1 DEF outbound, OutboundTyped
<1>2. ASSUME NEW x \in Item, Room(1), queue' = Append(queue, x)
      PROVE  queue' \in Seq(Item) /\ Len(queue') <= Capacity
  <2>1. queue' \in Seq(Item) /\ Len(queue') = Len(queue) + 1
    BY <1>2 DEF OutboundTyped
  <2> QED BY <1>2, <2>1 DEF Room
<1>3. ASSUME NEW c \in Callers, NEW refused, QueueReq(c, refused) PROVE OutboundTyped'
  <2>1. pc[c] = "added" /\ target[c] \in Subs
    BY <1>3 DEF QueueReq, UsersTyped
  <2>2. reg[target[c]] \in Counters \union {Nothing}
    BY <2>1 DEF RegistryTyped
  <2>3. Req(target[c], reg[target[c]]) \in Item
    BY <2>1, <2>2, Messages
  <2>4. \/ UNCHANGED outbound
        \/ /\ Room(1) /\ queue' = Append(queue, Req(target[c], reg[target[c]]))
           /\ count' = Track(reg[target[c]])
    BY <1>3 DEF QueueReq
  <2> QED BY <2>2, <2>3, <2>4, <1>1, <1>2, TrackTyped DEF OutboundTyped
<1>4. ASSUME NEW s \in Subs, NEW refused, Unsubscribe(s, refused) PROVE OutboundTyped'
  <2>1. count' = count /\ Close(s) \in Item
    BY <1>4, Messages DEF Unsubscribe
  <2>2. queue' = queue \/ (Room(1) /\ queue' = Append(queue, Close(s)))
    <3>1. queue' = IF ~refused /\ Room(1) THEN Append(queue, Close(s)) ELSE queue
      BY <1>4 DEF Unsubscribe
    <3> QED BY <3>1
  <2> QED BY <2>1, <2>2, <1>2 DEF OutboundTyped
<1>5. ASSUME NEW refused, UnsubscribeAll(refused) PROVE OutboundTyped'
  <2>0. PICK n \in 0..Capacity : \E order \in [1..n -> Registered] :
           queue' = queue \o [i \in 1..n |-> Close(order[i])] /\ Len(queue') <= Capacity
    BY <1>5, Zenon DEF UnsubscribeAll
  <2>1. PICK order \in [1..n -> Registered] :
           queue' = queue \o [i \in 1..n |-> Close(order[i])] /\ Len(queue') <= Capacity
    BY <2>0, Zenon
  <2>2. n \in Nat
    BY BoundsAssumption
  <2>3. \A i \in 1..n : Close(order[i]) \in Item
    BY Messages DEF Registered
  <2>4. [i \in 1..n |-> Close(order[i])] \in Seq(Item)
    BY <2>2, <2>3
  <2>5. count' = count
    BY <1>5 DEF UnsubscribeAll
  <2> QED BY <2>1, <2>4, <2>5 DEF OutboundTyped
<1>6. ASSUME NEW s \in Subs, ReissueSubscription(s) PROVE OutboundTyped'
  <2>1. reg[s] \in Counters
    BY <1>6 DEF ReissueSubscription, Registered, RegistryTyped
  <2>2. Close(s) \in Item /\ Req(s, reg[s]) \in Item
    BY <2>1, Messages
  <2>3. <<Close(s), Req(s, reg[s])>> \in Seq(Item) /\ Len(<<Close(s), Req(s, reg[s])>>) = 2
    BY <2>2
  <2>4. /\ queue' = queue \o <<Close(s), Req(s, reg[s])>> /\ Len(queue) + 2 <= Capacity
        /\ count' = Track(reg[s])
    BY <1>6 DEF ReissueSubscription, QueueBatch, Room
  <2>5. queue' \in Seq(Item) /\ Len(queue') = Len(queue) + 2
    BY <2>3, <2>4 DEF OutboundTyped
  <2> QED BY <2>1, <2>4, <2>5, TrackTyped DEF OutboundTyped
<1>7. CASE Publish
  <2>1. count' = count /\ Room(1) /\ queue' = Append(queue, Plain("EVENT"))
    BY <1>7 DEF Publish
  <2> QED BY <2>1, <1>2, Messages DEF OutboundTyped
<1>8. ASSUME NEW s \in Subs, NEW refused, QueueResubscription(s, refused) PROVE OutboundTyped'
  BY <1>8, RestorationTyped
<1>9. ASSUME NEW refused, Authenticate(refused) PROVE OutboundTyped'
  <2>1. count' = count /\ (queue' = queue \/ (Room(1) /\ queue' = Append(queue, Plain("AUTH"))))
    <3>1. CASE ~refused /\ Room(1)
      BY <1>9, <3>1 DEF Authenticate
    <3>2. CASE ~(~refused /\ Room(1))
      BY <1>9, <3>2 DEF Authenticate
    <3> QED BY <3>1, <3>2
  <2> QED BY <2>1, <1>2, Messages DEF OutboundTyped
<1>10. CASE RecvClientMsg
  <2>1. count' = count /\ queue # <<>> /\ queue' = Tail(queue)
    BY <1>10 DEF RecvClientMsg
  <2>2. queue' \in Seq(Item) /\ Len(queue') = Len(queue) - 1
    BY <2>1 DEF OutboundTyped
  <2> QED BY <2>1, <2>2, BoundsAssumption DEF OutboundTyped
<1>11. CASE SessionEnds \/ SubscriptionReqStarted
  <2>1. stage # "idle" => item.counter \in Counters \union {Nothing}
    BY Messages DEF SenderTyped
  <2>2. queue' = queue /\ (count' = count \/ (stage # "idle" /\ count' = Untrack(item.counter)))
    <3>1. CASE SessionEnds
      BY <3>1 DEF SessionEnds
    <3>2. CASE SubscriptionReqStarted
      BY <3>2 DEF SubscriptionReqStarted
    <3> QED BY <1>11, <3>1, <3>2
  <2> QED BY <2>1, <2>2, TrackTyped DEF OutboundTyped
<1> QED
  BY <1>1, <1>3, <1>4, <1>5, <1>6, <1>7, <1>8, <1>9, <1>10, <1>11
     DEF Next, CallerStep, SessionStep, AddLongLivedSubscription, UndoSubscription, RestoreNext,
         AcceptConnection, Disconnect, StartRestoring, StartHandlers, ScheduleReconnect,
         SendWsMsg, HandleRelayMessage,
         AuthFails, StartRestoringAuthed, FinishRestoringAuthed, RestoreAuthed, RelayCloses

LEMMA IngesterKept ==
    ASSUME IngesterTyped, Next
    PROVE  IngesterTyped'
<1>1. CASE UNCHANGED <<todo, ingester>>
  BY <1>1 DEF ingester, IngesterTyped
<1>2. CASE StartRestoring \/ StartRestoringAuthed
  BY <1>2 DEF StartRestoring, StartRestoringAuthed, Registered, IngesterTyped, ingester
<1>3. ASSUME NEW s \in Subs, NEW refused, RestoreNext(s, refused) \/ RestoreAuthed(s, refused)
      PROVE  IngesterTyped'
  BY <1>3 DEF RestoreNext, RestoreAuthed, IngesterTyped, ingester
<1>4. CASE SessionEnds \/ AuthFails \/ FinishRestoringAuthed
  BY <1>4 DEF SessionEnds, AuthFails, FinishRestoringAuthed, IngesterTyped
<1>5. CASE HandleRelayMessage
  BY <1>5, FlagsAssumption DEF HandleRelayMessage, IngesterTyped
<1>6. ASSUME NEW refused, Authenticate(refused) PROVE IngesterTyped'
  BY <1>6 DEF Authenticate, IngesterTyped
<1> QED
  BY <1>1, <1>2, <1>3, <1>4, <1>5, <1>6
     DEF Next, CallerStep, SessionStep, AddLongLivedSubscription, QueueReq, UndoSubscription,
         Unsubscribe, UnsubscribeAll, ReissueSubscription, QueueBatch, Publish,
         AcceptConnection, Disconnect, StartHandlers, ScheduleReconnect, RecvClientMsg,
         SubscriptionReqStarted, SendWsMsg, RelayCloses

LEMMA UsersKept ==
    ASSUME UsersTyped, Next
    PROVE  UsersTyped'
<1>1. CASE UNCHANGED users
  BY <1>1 DEF users, UsersTyped
<1>2. ASSUME NEW c \in Callers, NEW s \in Subs, AddLongLivedSubscription(c, s)
      PROVE  UsersTyped'
  <2>1. s # Nothing
    BY NothingAssumption
  <2> QED BY <1>2, <2>1 DEF AddLongLivedSubscription, UsersTyped
<1>3. ASSUME NEW c \in Callers, NEW refused, QueueReq(c, refused) PROVE UsersTyped'
  <2>1. CASE pc' = [pc EXCEPT ![c] = "ready"] /\ target' = [target EXCEPT ![c] = Nothing]
    BY <2>1 DEF UsersTyped
  <2>2. CASE pc' = [pc EXCEPT ![c] = "undo"] /\ target' = target /\ pc[c] = "added"
    BY <2>2 DEF UsersTyped
  <2> QED BY <1>3, <2>1, <2>2 DEF QueueReq
<1>4. ASSUME NEW c \in Callers, UndoSubscription(c) PROVE UsersTyped'
  BY <1>4 DEF UndoSubscription, UsersTyped
<1> QED
  BY <1>1, <1>2, <1>3, <1>4
     DEF Next, CallerStep, SessionStep, Unsubscribe, UnsubscribeAll, ReissueSubscription,
         QueueBatch, Publish, RestoreNext, AcceptConnection, Disconnect, StartRestoring,
         StartHandlers, SessionEnds, ScheduleReconnect, RecvClientMsg, SubscriptionReqStarted,
         SendWsMsg, HandleRelayMessage, Authenticate, AuthFails,
         StartRestoringAuthed, FinishRestoringAuthed, RestoreAuthed, RelayCloses

\* The ways the sender puts a frame on the wire
LEMMA Writes ==
    ASSUME SendWsMsg
    PROVE  \/ /\ item.type = "REQ" /\ open' = open \union {item.id}
              /\ stray' = IF item.counter \in {reg[item.id]} \ {Nothing}
                          THEN stray \ {item.id} ELSE stray \union {item.id}
              /\ UNCHANGED <<authed, inbox>>
           \/ /\ item.type = "REQ" /\ inbox' = Append(inbox, Closed(item.id, "auth-required"))
              /\ UNCHANGED <<open, stray, authed>>
           \/ /\ item.type = "CLOSE"
              /\ open' = open \ {item.id} /\ stray' = stray \ {item.id}
              /\ UNCHANGED <<authed, inbox>>
           \/ /\ item.type = "AUTH" /\ authed' = TRUE /\ inbox' = Append(inbox, Answer("OK"))
              /\ UNCHANGED <<open, stray>>
           \/ item.type \notin {"REQ", "CLOSE"} /\ UNCHANGED peer
<1>1. CASE item.type = "REQ" /\ (~AuthRelay \/ authed)
  BY <1>1 DEF SendWsMsg
<1>2. CASE item.type = "REQ" /\ AuthRelay /\ ~authed
  BY <1>2 DEF SendWsMsg
<1>3. CASE item.type = "CLOSE"
  BY <1>3 DEF SendWsMsg
<1>4. CASE item.type = "AUTH"
  BY <1>4 DEF SendWsMsg
<1>5. CASE item.type \notin {"REQ", "CLOSE", "AUTH"}
  BY <1>5 DEF SendWsMsg
<1> QED BY <1>1, <1>2, <1>3, <1>4, <1>5

LEMMA PeerKept ==
    ASSUME SenderTyped, PeerTyped, Next
    PROVE  PeerTyped'
<1>1. CASE UNCHANGED peer
  BY <1>1 DEF peer, PeerTyped
<1>2. ASSUME NEW f \in Frame, inbox' = Append(inbox, f) PROVE inbox' \in Seq(Frame)
  BY <1>2 DEF PeerTyped
<1>3. CASE AcceptConnection \/ SessionEnds
  <2>1. open' = {} /\ stray' = {} /\ authed' = FALSE
    BY <1>3 DEF AcceptConnection, SessionEnds
  <2>2. inbox' = <<Answer("AUTH")>> \/ inbox' = <<>>
    BY <1>3 DEF AcceptConnection, SessionEnds
  <2>3. inbox' \in Seq(Frame)
    <3>1. <<Answer("AUTH")>> \in Seq(Frame) /\ <<>> \in Seq(Frame)
      BY Answers
    <3> QED BY <2>2, <3>1
  <2> QED BY <2>1, <2>3 DEF PeerTyped
<1>4. CASE SendWsMsg
  <2>1. item \in Item /\ (item.type \in {"REQ", "CLOSE"} => item.id \in Subs)
    BY <1>4, Messages DEF SendWsMsg, SenderTyped
  <2>2. CASE UNCHANGED <<authed, inbox>> /\ item.type = "REQ" /\ open' = open \union {item.id}
             /\ (stray' = stray \ {item.id} \/ stray' = stray \union {item.id})
    BY <2>1, <2>2 DEF PeerTyped
  <2>3. CASE UNCHANGED <<open, stray, authed>> /\ item.type = "REQ"
             /\ inbox' = Append(inbox, Closed(item.id, "auth-required"))
    BY <2>1, <2>3, <1>2, Answers DEF PeerTyped
  <2>4. CASE UNCHANGED <<authed, inbox>> /\ open' = open \ {item.id} /\ stray' = stray \ {item.id}
    BY <2>4 DEF PeerTyped
  <2>5. CASE UNCHANGED <<open, stray>> /\ authed' = TRUE /\ inbox' = Append(inbox, Answer("OK"))
    BY <2>5, <1>2, Answers DEF PeerTyped
  <2> QED BY <1>4, <2>2, <2>3, <2>4, <2>5, <1>1, Writes
<1>5. CASE HandleRelayMessage
  <2>1. inbox # <<>> /\ inbox' = Tail(inbox) /\ UNCHANGED <<open, stray, authed>>
    BY <1>5 DEF HandleRelayMessage
  <2> QED BY <2>1 DEF PeerTyped
<1>6. ASSUME NEW s \in Subs, NEW reason \in CloseReasons, RelayCloses(s, reason)
      PROVE  PeerTyped'
  <2>1. reason \in {"rate-limited", "blocked"}
    BY FlagsAssumption
  <2> QED BY <1>6, <2>1, <1>2, Answers DEF RelayCloses, PeerTyped
<1> QED
  BY <1>1, <1>3, <1>4, <1>5, <1>6
     DEF Next, CallerStep, SessionStep, AddLongLivedSubscription, QueueReq, UndoSubscription,
         Unsubscribe, UnsubscribeAll, ReissueSubscription, QueueBatch, Publish, RestoreNext,
         Disconnect, StartRestoring, StartHandlers, ScheduleReconnect, RecvClientMsg,
         SubscriptionReqStarted, Authenticate, AuthFails,
         StartRestoringAuthed, FinishRestoringAuthed, RestoreAuthed

LEMMA WorksInSessionKept ==
    ASSUME WorksInSession, Next
    PROVE  WorksInSession'
<1>1. CASE UNCHANGED <<stage, ing>> /\ (serve' = serve \/ serve # "running")
  BY <1>1 DEF WorksInSession
<1>2. CASE SessionEnds
  BY <1>2 DEF SessionEnds, WorksInSession
<1>3. CASE UNCHANGED serve /\ (serve = "running" \/ stage # "idle" \/ ing # "idle")
  BY <1>3 DEF WorksInSession
<1> QED
  BY <1>1, <1>2, <1>3
     DEF Next, CallerStep, SessionStep, AddLongLivedSubscription, QueueReq, UndoSubscription,
         Unsubscribe, UnsubscribeAll, ReissueSubscription, QueueBatch, Publish, RestoreNext,
         AcceptConnection, Disconnect, StartRestoring, StartHandlers, ScheduleReconnect,
         RecvClientMsg, SubscriptionReqStarted, SendWsMsg, HandleRelayMessage,
         Authenticate, AuthFails, StartRestoringAuthed, FinishRestoringAuthed, RestoreAuthed,
         RelayCloses, link, sender, ingester

LEMMA TypesKept == TypeOK /\ [Next]_vars => TypeOK'
<1> SUFFICES ASSUME TypeOK, [Next]_vars PROVE TypeOK'
  OBVIOUS
<1>0. /\ LinkTyped /\ RegistryTyped /\ OutboundTyped /\ SenderTyped
      /\ IngesterTyped /\ UsersTyped /\ PeerTyped /\ WorksInSession
  BY TypesByPart
<1>1. CASE Next
  <2>1. /\ LinkTyped' /\ RegistryTyped' /\ OutboundTyped' /\ SenderTyped'
        /\ IngesterTyped' /\ UsersTyped' /\ PeerTyped' /\ WorksInSession'
    BY <1>0, <1>1, LinkKept, RegistryKept, OutboundKept, SenderKept, IngesterKept, UsersKept,
       PeerKept, WorksInSessionKept
  <2>2. (TypeOK <=> /\ LinkTyped /\ RegistryTyped /\ OutboundTyped /\ SenderTyped
                    /\ IngesterTyped /\ UsersTyped /\ PeerTyped /\ WorksInSession)'
    BY TypesByPart, PTL
  <2> QED BY <2>1, <2>2
<1>2. CASE UNCHANGED vars
  BY <1>2 DEF vars, TypeOK
<1> QED BY <1>1, <1>2

-----------------------------------------------------------------------------
(* Steps that take nothing away                                            *)

Relations ==
    /\ CountsExact /\ CountersAreOwn /\ ClosesAreFollowed /\ NextSessionIsQueued
    /\ OpenIsCurrent /\ ServedOrRestorable

\* What is added to the queue is not a REQ, nor the CLOSE of a registered ID.
QueueGrows ==
    /\ \A k \in Counters : Carrying(queue', k) = Carrying(queue, k)
    /\ \A i \in DOMAIN queue : i \in DOMAIN queue' /\ queue'[i] = queue[i]
    /\ \A i \in DOMAIN queue' : i \notin DOMAIN queue =>
          /\ queue'[i].counter = Nothing
          /\ \A s \in Subs : queue'[i] = Close(s) => reg'[s] = Nothing

\* A registration is dropped, or kept; what is closed remains closed; what the
\* relay has open or has said of the ID is still so, or has been noted.
RegistrationStays(s) ==
    reg'[s] # Nothing =>
        /\ reg'[s] = reg[s]
        /\ conn'[s] = conn[s] \/ (conn'[s] = success /\ closed'[s])
        /\ closed[s] => closed'[s]
        /\ BeingSubscribed(s) => BeingSubscribed(s)'
        /\ s \in open => s \in open' \/ Unread(s)'
        /\ Unread(s) => Unread(s)' \/ closed'[s]
        /\ s \in open' \ stray' => s \in open \ stray

CalmStep ==
    /\ success' = success /\ (connected' => connected) /\ InSession' = InSession
    /\ serve = "running" => serve' = "running"
    /\ UNCHANGED <<count, stage, item>>
    /\ QueueGrows
    /\ \A s \in Subs : RegistrationStays(s)

LEMMA CalmStepKeeps ==
    ASSUME TypeOK, Relations, CalmStep
    PROVE  Relations'
<1>1. CountsExact'
  BY DEF Relations, CountsExact, CalmStep, QueueGrows, Waiting
<1>2. ASSUME NEW s \in Subs, reg'[s] # Nothing
      PROVE  /\ reg'[s] = reg[s] /\ s \in Registered /\ reg[s] \in Counters
             /\ conn'[s] = conn[s] \/ (conn'[s] = success /\ closed'[s])
             /\ conn[s] \in Nat /\ success \in Nat
             /\ closed[s] => closed'[s]
             /\ BeingSubscribed(s) => BeingSubscribed(s)'
             /\ s \in open => s \in open' \/ Unread(s)'
             /\ Unread(s) => Unread(s)' \/ closed'[s]
             /\ s \in open' \ stray' => s \in open \ stray
  <2>1. RegistrationStays(s)
    BY DEF CalmStep
  <2>2. reg'[s] = reg[s]
    BY <1>2, <2>1 DEF RegistrationStays
  <2>3. s \in Registered /\ reg[s] \in Counters
    BY <1>2, <2>2 DEF Registered, TypeOK
  <2>4. conn[s] \in Nat /\ success \in Nat
    BY DEF TypeOK
  <2> QED BY <1>2, <2>1, <2>2, <2>3, <2>4 DEF RegistrationStays
<1>3. ASSUME NEW s \in Subs, reg'[s] # Nothing, HasReq(s) PROVE HasReq(s)'
  BY <1>2, <1>3 DEF HasReq, CalmStep, QueueGrows
<1>4. CountersAreOwn'
  <2> SUFFICES ASSUME NEW s \in Subs, reg'[s] # Nothing
               PROVE  /\ \A t \in Subs : reg'[t] = reg'[s] => t = s
                      /\ \A i \in DOMAIN queue' : queue'[i].counter = reg'[s] => queue'[i].id = s
                      /\ stage' # "idle" /\ item'.counter = reg'[s] => item'.id = s
    BY DEF CountersAreOwn, Registered
  <2>1. \A t \in Subs : reg'[t] = reg'[s] => t = s
    <3> SUFFICES ASSUME NEW t \in Subs, reg'[t] = reg'[s] PROVE t = s
      OBVIOUS
    <3>1. reg[t] = reg[s] /\ s \in Registered
      BY <1>2
    <3> QED BY <3>1 DEF Relations, CountersAreOwn
  <2>2. \A i \in DOMAIN queue' : queue'[i].counter = reg'[s] => queue'[i].id = s
    BY <1>2 DEF Relations, CountersAreOwn, CalmStep, QueueGrows
  <2>3. stage' # "idle" /\ item'.counter = reg'[s] => item'.id = s
    BY <1>2 DEF Relations, CountersAreOwn, CalmStep
  <2> QED BY <2>1, <2>2, <2>3
<1>5. ClosesAreFollowed'
  <2> SUFFICES ASSUME NEW s \in Subs, reg'[s] # Nothing, ~BeingSubscribed(s)'
               PROVE  /\ \A i \in DOMAIN queue' : queue'[i] = Close(s) =>
                            \E j \in DOMAIN queue' : j > i /\ queue'[j].counter = reg'[s]
                      /\ stage' \in {"taken", "started"} /\ item' = Close(s) => HasReq(s)'
    BY DEF ClosesAreFollowed, Registered
  <2>1. s \in Registered /\ ~BeingSubscribed(s) /\ reg'[s] = reg[s]
    BY <1>2
  <2>2. ASSUME NEW i \in DOMAIN queue', queue'[i] = Close(s)
        PROVE  \E j \in DOMAIN queue' : j > i /\ queue'[j].counter = reg'[s]
    <3>1. i \in DOMAIN queue /\ queue[i] = Close(s)
      BY <2>2 DEF CalmStep, QueueGrows
    <3>2. PICK j \in DOMAIN queue : j > i /\ queue[j].counter = reg[s]
      BY <2>1, <3>1 DEF Relations, ClosesAreFollowed
    <3>3. j \in DOMAIN queue' /\ queue'[j] = queue[j]
      BY <3>2 DEF CalmStep, QueueGrows
    <3> QED BY <2>1, <3>2, <3>3
  <2>3. ASSUME stage' \in {"taken", "started"} /\ item' = Close(s) PROVE HasReq(s)'
    <3>1. stage \in {"taken", "started"} /\ item = Close(s)
      BY <2>3 DEF CalmStep
    <3>2. HasReq(s)
      BY <2>1, <3>1 DEF Relations, ClosesAreFollowed
    <3> QED BY <1>3, <3>2
  <2> QED BY <2>2, <2>3
<1>6. NextSessionIsQueued'
  <2> SUFFICES ASSUME NEW s \in Subs, reg'[s] # Nothing, conn'[s] > success'
               PROVE  /\ conn'[s] = success' + 1 /\ ~connected'
                      /\ BeingSubscribed(s)' \/ HasReq(s)'
    BY DEF NextSessionIsQueued, Registered
  <2>1. conn'[s] = conn[s] /\ success' = success /\ s \in Registered
    BY <1>2 DEF CalmStep
  <2>2. conn[s] = success + 1 /\ ~connected /\ (BeingSubscribed(s) \/ HasReq(s))
    BY <2>1 DEF Relations, NextSessionIsQueued
  <2>3. ~connected'
    BY <2>2 DEF CalmStep
  <2> QED BY <1>2, <1>3, <2>1, <2>2, <2>3
<1>8. OpenIsCurrent'
  <2> SUFFICES ASSUME NEW s \in Subs, reg'[s] # Nothing,
                      s \in open' \ stray' \/ Writing(reg[s])'
               PROVE  conn'[s] >= success'
    BY DEF OpenIsCurrent, Registered
  <2>1. s \in open \ stray \/ Writing(reg[s])
    BY <1>2 DEF CalmStep, Writing
  <2>2. conn[s] >= success
    BY <1>2, <2>1 DEF Relations, OpenIsCurrent
  <2> QED BY <1>2, <2>2 DEF CalmStep
<1>9. ServedOrRestorable'
  <2> DEFINE current == IF InSession THEN success ELSE success + 1
  <2> SUFFICES ASSUME NEW s \in Subs, reg'[s] # Nothing, ~BeingSubscribed(s)'
               PROVE  \/ count'[reg'[s]] > 0
                      \/ Writing(reg[s])'
                      \/ NeedsRestore(s, IF InSession THEN success ELSE success + 1)'
                      \/ serve' = "running" /\ s \in open'
                      \/ InSession' /\ Unread(s)'
    BY DEF ServedOrRestorable, Registered
  <2>1. /\ reg'[s] = reg[s] /\ count' = count /\ success' = success /\ InSession' = InSession
        /\ s \in Registered /\ ~BeingSubscribed(s)
    BY <1>2 DEF CalmStep
  <2>2. count[reg[s]] \in Nat /\ current \in Nat /\ current >= success
    BY <1>2 DEF TypeOK
  <2>3. NeedsRestore(s, IF InSession THEN success ELSE success + 1)'
           <=> count[reg[s]] = 0 /\ (closed'[s] \/ current > conn'[s])
    BY <2>1 DEF NeedsRestore
  <2>4. CASE NeedsRestore(s, current)
    <3>1. count[reg[s]] = 0 /\ (closed[s] \/ current > conn[s])
      BY <2>4 DEF NeedsRestore
    <3>2. closed'[s] \/ current > conn'[s]
      BY <1>2, <3>1
    <3> QED BY <2>3, <3>1, <3>2
  <2>5. CASE (serve = "running" /\ s \in open) \/ (InSession /\ Unread(s))
    <3>1. (serve' = "running" /\ s \in open') \/ (InSession' /\ Unread(s)') \/ closed'[s]
      BY <1>2, <2>1, <2>5 DEF CalmStep, InSession
    <3> QED BY <2>1, <2>2, <2>3, <3>1
  <2>6. CASE Writing(reg[s])
    BY <2>1, <2>6 DEF CalmStep, Writing
  <2> QED BY <2>1, <2>2, <2>4, <2>5, <2>6 DEF Relations, ServedOrRestorable
<1> QED BY <1>1, <1>4, <1>5, <1>6, <1>8, <1>9 DEF Relations

\* The queue is left alone, or gets messages that no registration waits for.
LEMMA SameQueueGrows == queue' = queue => QueueGrows
BY DEF QueueGrows

LEMMA PlainQueueGrows ==
    ASSUME TypeOK, NEW x \in Item, queue' = Append(queue, x), x.counter = Nothing,
           \A s \in Subs : x = Close(s) => reg'[s] = Nothing
    PROVE  QueueGrows
<1>1. queue \in Seq(Item)
  BY DEF TypeOK
<1>2. \A k \in Counters : Carrying(queue', k) = Carrying(queue, k)
  <2> SUFFICES ASSUME NEW k \in Counters PROVE Carrying(queue', k) = Carrying(queue, k)
    OBVIOUS
  <2>1. k # Nothing /\ Carrying(queue, k) \in Nat
    BY <1>1, NothingAssumption, CarryingIsNat
  <2>2. Carrying(queue', k) = Carrying(queue, k) + 0
    BY <1>1, <2>1, CarryingAppend
  <2> QED BY <2>1, <2>2
<1>3. /\ \A i \in DOMAIN queue : i \in DOMAIN queue' /\ queue'[i] = queue[i]
      /\ \A i \in DOMAIN queue' : i \notin DOMAIN queue => queue'[i] = x
  BY <1>1
<1> QED BY <1>2, <1>3 DEF QueueGrows

LEMMA ClosesGrow ==
    ASSUME TypeOK, NEW n \in Nat, NEW order \in [1..n -> Subs],
           queue' = queue \o [i \in 1..n |-> Close(order[i])],
           \A i \in 1..n : reg'[order[i]] = Nothing
    PROVE  QueueGrows
<1> DEFINE r == [i \in 1..n |-> Close(order[i])]
<1>1. queue \in Seq(Item)
  BY DEF TypeOK
<1>2. r \in Seq(Item) /\ DOMAIN r = 1..n
  <2>1. \A i \in 1..n : Close(order[i]) \in Item
    BY Messages
  <2> QED BY <2>1
<1>3. \A i \in 1..n : r[i] = Close(order[i]) /\ r[i].counter = Nothing
  BY DEF Close
<1>4. \A i \in 1..n : \A s \in Subs : r[i] = Close(s) => reg'[s] = Nothing
  <2> SUFFICES ASSUME NEW i \in 1..n, NEW s \in Subs, Close(order[i]) = Close(s)
               PROVE  reg'[s] = Nothing
    OBVIOUS
  <2>1. order[i] = s
    BY DEF Close
  <2> QED BY <2>1
<1> HIDE DEF r
<1>5. queue' = queue \o r
  BY DEF r
<1>6. \A k \in Counters : Carrying(queue', k) = Carrying(queue, k)
  <2> SUFFICES ASSUME NEW k \in Counters PROVE Carrying(queue', k) = Carrying(queue, k)
    OBVIOUS
  <2>1. \A i \in DOMAIN r : r[i].counter # k
    BY <1>2, <1>3, NothingAssumption
  <2>2. Carrying(queue \o r, k) = Carrying(queue, k)
    BY <1>1, <1>2, <2>1, CarryingConcat
  <2> QED BY <1>5, <2>2
<1>7. /\ \A i \in DOMAIN queue : i \in DOMAIN queue' /\ queue'[i] = queue[i]
      /\ \A i \in DOMAIN queue' : i \notin DOMAIN queue => \E j \in 1..n : queue'[i] = r[j]
  <2>1. /\ DOMAIN queue = 1..Len(queue) /\ DOMAIN queue' = 1..(Len(queue) + n)
        /\ Len(queue) \in Nat /\ Len(r) = n
    BY <1>1, <1>2, <1>5
  <2>2. \A i \in 1..Len(queue) : queue'[i] = queue[i]
    BY <1>1, <1>2, <1>5
  <2>3. \A i \in (1..(Len(queue) + n)) : i \notin 1..Len(queue) =>
           i - Len(queue) \in 1..n /\ queue'[i] = r[i - Len(queue)]
    BY <1>1, <1>2, <1>5, <2>1
  <2>4. DOMAIN queue \subseteq DOMAIN queue'
    BY <2>1
  <2>5. \A i \in DOMAIN queue' : i \notin DOMAIN queue => \E j \in 1..n : queue'[i] = r[j]
    BY <2>1, <2>3
  <2> QED BY <2>1, <2>2, <2>4, <2>5
<1>8. \A i \in DOMAIN queue' : i \notin DOMAIN queue =>
         /\ queue'[i].counter = Nothing
         /\ \A s \in Subs : queue'[i] = Close(s) => reg'[s] = Nothing
  <2> SUFFICES ASSUME NEW i \in DOMAIN queue', i \notin DOMAIN queue
               PROVE  /\ queue'[i].counter = Nothing
                      /\ \A s \in Subs : queue'[i] = Close(s) => reg'[s] = Nothing
    OBVIOUS
  <2>1. PICK j \in 1..n : queue'[i] = r[j]
    BY <1>7
  <2> QED BY <1>3, <1>4, <2>1
<1> QED BY <1>6, <1>7, <1>8 DEF QueueGrows

\* What stays when nothing but the registry, or nothing of an ID, changes
LEMMA RegistrationsForgotten ==
    ASSUME NEW ids, Forget(ids), UNCHANGED <<open, stray, inbox>>,
           \A s \in Subs : s \notin ids /\ BeingSubscribed(s) => BeingSubscribed(s)'
    PROVE  /\ \A s \in Subs : RegistrationStays(s)
           /\ \A s \in ids : s \in Subs => reg'[s] = Nothing
BY DEF Forget, RegistrationStays, Unread

LEMMA RegistrationsKept ==
    ASSUME UNCHANGED <<registry, target, open, stray, inbox>>
    PROVE  \A s \in Subs : RegistrationStays(s)
BY DEF RegistrationStays, Unread, registry, BeingSubscribed

LEMMA CallersCalm ==
    ASSUME TypeOK, NEW refused
    PROVE  /\ \A c \in Callers : UndoSubscription(c) => CalmStep
           /\ \A s \in Subs : Unsubscribe(s, refused) => CalmStep
           /\ UnsubscribeAll(refused) => CalmStep
           /\ Publish => CalmStep
           /\ Authenticate(refused) => CalmStep
<1>1. ASSUME NEW c \in Callers, UndoSubscription(c) PROVE CalmStep
  <2>1. /\ UNCHANGED <<link, outbound, sender, peer>> /\ Forget({target[c]})
        /\ target' = [target EXCEPT ![c] = Nothing]
    BY <1>1 DEF UndoSubscription
  <2>2. \A s \in Subs : s \notin {target[c]} /\ BeingSubscribed(s) => BeingSubscribed(s)'
    BY <2>1 DEF BeingSubscribed, TypeOK
  <2>3. \A s \in Subs : RegistrationStays(s)
    BY <2>1, <2>2, RegistrationsForgotten DEF peer
  <2> QED BY <2>1, <2>3, SameQueueGrows DEF CalmStep, link, outbound, sender, InSession
<1>2. ASSUME NEW s \in Subs, Unsubscribe(s, refused) PROVE CalmStep
  <2>1. UNCHANGED <<link, count, sender, target, peer>> /\ Forget({s})
    BY <1>2 DEF Unsubscribe, users
  <2>2. (\A t \in Subs : RegistrationStays(t)) /\ reg'[s] = Nothing
    BY <2>1, RegistrationsForgotten DEF peer, BeingSubscribed
  <2>3. queue' = queue \/ queue' = Append(queue, Close(s))
    <3>1. queue' = IF ~refused /\ Room(1) THEN Append(queue, Close(s)) ELSE queue
      BY <1>2 DEF Unsubscribe
    <3> QED BY <3>1
  <2>4. Close(s) \in Item /\ Close(s).counter = Nothing
    BY Messages DEF Close
  <2>5. \A t \in Subs : Close(s) = Close(t) => reg'[t] = Nothing
    BY <2>2 DEF Close
  <2>6. QueueGrows
    BY <2>3, <2>4, <2>5, SameQueueGrows, PlainQueueGrows
  <2> QED BY <2>1, <2>2, <2>6 DEF CalmStep, link, sender, InSession
<1>3. ASSUME UnsubscribeAll(refused) PROVE CalmStep
  <2>1. UNCHANGED <<link, count, sender, target, peer>>
    BY <1>3 DEF UnsubscribeAll, users
  <2>2. PICK n \in 0..Capacity : \E order \in [1..n -> Registered] :
           /\ queue' = queue \o [i \in 1..n |-> Close(order[i])]
           /\ LET done == {order[i] : i \in 1..n} IN
              IF done = Registered
              THEN Forget(done)
              ELSE /\ refused \/ ~Room(n + 1)
                   /\ \E s \in Registered \ done : Forget(done \union {s})
    BY <1>3, Zenon DEF UnsubscribeAll
  <2>3. PICK order \in [1..n -> Registered] :
           /\ queue' = queue \o [i \in 1..n |-> Close(order[i])]
           /\ LET done == {order[i] : i \in 1..n} IN
              IF done = Registered
              THEN Forget(done)
              ELSE /\ refused \/ ~Room(n + 1)
                   /\ \E s \in Registered \ done : Forget(done \union {s})
    BY <2>2, Zenon
  <2> DEFINE done == {order[i] : i \in 1..n}
  <2>4. PICK ids : done \subseteq ids /\ Forget(ids)
    <3>1. CASE done = Registered
      BY <2>3, <3>1
    <3>2. CASE done # Registered
      <4>1. PICK s \in Registered \ done : Forget(done \union {s})
        BY <2>3, <3>2
      <4> QED BY <4>1
    <3> QED BY <3>1, <3>2
  <2>5. (\A t \in Subs : RegistrationStays(t)) /\ \A t \in ids : t \in Subs => reg'[t] = Nothing
    BY <2>1, <2>4, RegistrationsForgotten DEF peer, BeingSubscribed
  <2>6. \A i \in 1..n : order[i] \in Subs /\ order[i] \in done
    BY DEF Registered
  <2>7. n \in Nat /\ order \in [1..n -> Subs]
    BY BoundsAssumption DEF Registered
  <2>8. QueueGrows
    BY <2>3, <2>4, <2>5, <2>6, <2>7, ClosesGrow
  <2> QED BY <2>1, <2>5, <2>8 DEF CalmStep, link, sender, InSession
<1>4. ASSUME UNCHANGED <<link, registry, count, sender, target, peer>>,
             NEW type \in {"AUTH", "EVENT"},
             queue' = queue \/ queue' = Append(queue, Plain(type))
      PROVE  CalmStep
  <2>1. Plain(type) \in Item /\ Plain(type).counter = Nothing
    BY Messages DEF Plain
  <2>2. \A s \in Subs : Plain(type) # Close(s)
    BY DEF Plain, Close
  <2>3. QueueGrows
    BY <1>4, <2>1, <2>2, SameQueueGrows, PlainQueueGrows
  <2>4. \A s \in Subs : RegistrationStays(s)
    BY <1>4, RegistrationsKept DEF peer
  <2> QED BY <1>4, <2>3, <2>4 DEF CalmStep, link, sender, InSession
<1>5. ASSUME Publish PROVE CalmStep
  BY <1>4, <1>5 DEF Publish, users
<1>6. ASSUME Authenticate(refused) PROVE CalmStep
  <2>1. queue' = queue \/ queue' = Append(queue, Plain("AUTH"))
    <3>1. CASE ~refused /\ Room(1)
      BY <1>6, <3>1 DEF Authenticate
    <3>2. CASE ~(~refused /\ Room(1))
      BY <1>6, <3>2 DEF Authenticate
    <3> QED BY <3>1, <3>2
  <2> QED BY <1>4, <1>6, <2>1 DEF Authenticate, users
<1> QED BY <1>1, <1>2, <1>3, <1>5, <1>6

\* The session goes through its phases; an answer is read, or is on its way.
LEMMA SessionCalm ==
    ASSUME TypeOK
    PROVE  /\ Disconnect \/ StartRestoring \/ StartHandlers \/ ScheduleReconnect => CalmStep
           /\ AuthFails \/ StartRestoringAuthed \/ FinishRestoringAuthed => CalmStep
           /\ HandleRelayMessage => CalmStep
           /\ \A s \in Subs : \A reason \in CloseReasons : RelayCloses(s, reason) => CalmStep
           /\ UNCHANGED vars => CalmStep
<1>1. ASSUME UNCHANGED <<success, registry, outbound, sender, target, peer>>,
             connected' => connected, InSession' = InSession, serve = "running" => serve' = "running"
      PROVE  CalmStep
  BY <1>1, SameQueueGrows, RegistrationsKept DEF CalmStep, outbound, sender, peer
<1>2. ASSUME Disconnect \/ StartRestoring \/ StartHandlers \/ ScheduleReconnect PROVE CalmStep
  <2>1. /\ UNCHANGED <<success, registry, outbound, sender, target, peer>>
        /\ serve = "running" => serve' = "running"
    BY <1>2 DEF Disconnect, StartRestoring, StartHandlers, ScheduleReconnect, users
  <2>2. connected' => connected
    BY <1>2 DEF Disconnect, StartRestoring, StartHandlers, ScheduleReconnect
  <2>3. InSession' = InSession
    BY <1>2 DEF Disconnect, StartRestoring, StartHandlers, ScheduleReconnect, InSession
  <2> QED BY <1>1, <2>1, <2>2, <2>3
<1>3. ASSUME AuthFails \/ StartRestoringAuthed \/ FinishRestoringAuthed PROVE CalmStep
  <2>1. UNCHANGED <<link, registry, outbound, sender, target, peer>>
    BY <1>3 DEF AuthFails, StartRestoringAuthed, FinishRestoringAuthed, users
  <2> QED BY <1>1, <2>1 DEF link, InSession
<1>4. ASSUME HandleRelayMessage PROVE CalmStep
  <2>1. /\ UNCHANGED <<link, outbound, sender, target, open, stray>>
        /\ inbox # <<>> /\ inbox' = Tail(inbox) /\ inbox \in Seq(Frame)
    BY <1>4 DEF HandleRelayMessage, users, TypeOK
  <2>2. \A s \in Subs : BeingSubscribed(s) => BeingSubscribed(s)'
    BY <2>1 DEF BeingSubscribed
  <2> DEFINE f == Head(inbox)
  <2>3. f \in Frame
    BY <2>1
  <2>4. \A s \in Subs : Unread(s) => Unread(s)' \/ s = f.id
    <3> SUFFICES ASSUME NEW s \in Subs, Unread(s), s # f.id PROVE Unread(s)'
      OBVIOUS
    <3>1. PICK i \in DOMAIN inbox : inbox[i].id = s
      BY DEF Unread
    <3>2. i # 1 /\ i \in 1..Len(inbox) /\ Len(inbox) \in Nat
      BY <2>1, <3>1
    <3>3. i - 1 \in DOMAIN inbox' /\ inbox'[i - 1] = inbox[i]
      BY <2>1, <3>2
    <3> QED BY <3>1, <3>3 DEF Unread
  <2>5. CASE f.type # "CLOSED"
    <3>1. UNCHANGED registry /\ f.id \notin Subs
      BY <1>4, <2>3, <2>5, Answers, NothingAssumption DEF HandleRelayMessage
    <3>2. \A s \in Subs : Unread(s) => Unread(s)'
      BY <2>4, <3>1
    <3>3. \A s \in Subs : RegistrationStays(s)
      BY <2>1, <2>2, <3>1, <3>2 DEF RegistrationStays, registry
    <3> QED BY <2>1, <3>3, SameQueueGrows DEF CalmStep, link, outbound, sender, InSession
  <2>6. CASE f.type = "CLOSED" /\ KeptByClosed(f.reason)
    <3>1. UNCHANGED <<reg, conn>> /\ closed' = [closed EXCEPT ![f.id] = reg[f.id] # Nothing]
      BY <1>4, <2>6 DEF HandleRelayMessage
    <3>2. \A s \in Subs : closed'[s] = IF s = f.id THEN reg[s] # Nothing ELSE closed[s]
      BY <3>1 DEF TypeOK
    <3>3. ASSUME NEW s \in Subs PROVE RegistrationStays(s)
      <4>1. CASE s = f.id /\ reg[s] # Nothing
        <5>1. closed'[s]
          BY <3>2, <4>1
        <5> QED BY <2>1, <2>2, <3>1, <5>1 DEF RegistrationStays
      <4>2. CASE s = f.id /\ reg[s] = Nothing
        BY <3>1, <4>2 DEF RegistrationStays
      <4>3. CASE s # f.id
        <5>1. closed'[s] = closed[s]
          BY <3>2, <4>3
        <5> QED BY <2>1, <2>2, <2>4, <3>1, <4>3, <5>1 DEF RegistrationStays
      <4> QED BY <4>1, <4>2, <4>3
    <3> QED BY <2>1, <3>3, SameQueueGrows DEF CalmStep, link, outbound, sender, InSession
  <2>7. CASE f.type = "CLOSED" /\ ~KeptByClosed(f.reason)
    <3>1. Forget({f.id})
      BY <1>4, <2>7 DEF HandleRelayMessage
    <3>2. ASSUME NEW s \in Subs PROVE RegistrationStays(s)
      <4>1. CASE s = f.id
        BY <3>1, <4>1 DEF Forget, RegistrationStays
      <4>2. CASE s # f.id
        <5>1. reg'[s] = reg[s] /\ conn'[s] = conn[s] /\ (closed[s] => closed'[s])
          BY <3>1, <4>2 DEF Forget
        <5> QED BY <2>1, <2>2, <2>4, <4>2, <5>1 DEF RegistrationStays
      <4> QED BY <4>1, <4>2
    <3> QED BY <2>1, <3>2, SameQueueGrows DEF CalmStep, link, outbound, sender, InSession
  <2> QED BY <2>5, <2>6, <2>7
<1>5. ASSUME NEW s \in Subs, NEW reason \in CloseReasons, RelayCloses(s, reason) PROVE CalmStep
  <2>1. /\ UNCHANGED <<link, registry, outbound, sender, target>>
        /\ open' = open \ {s} /\ stray' = stray \ {s}
        /\ inbox' = Append(inbox, Closed(s, reason)) /\ inbox \in Seq(Frame)
    BY <1>5 DEF RelayCloses, users, TypeOK
  <2>2. /\ DOMAIN inbox = 1..Len(inbox) /\ Len(inbox) \in Nat
        /\ DOMAIN inbox' = 1..(Len(inbox) + 1)
        /\ \A i \in 1..Len(inbox) : inbox'[i] = inbox[i]
        /\ inbox'[Len(inbox) + 1] = Closed(s, reason)
    BY <2>1
  <2>3. \A t \in Subs : Unread(t) => Unread(t)'
    BY <2>2 DEF Unread
  <2>4. Unread(s)'
    <3>1. Len(inbox) + 1 \in DOMAIN inbox' /\ inbox'[Len(inbox) + 1].id = s
      BY <2>2 DEF Closed
    <3> QED BY <3>1 DEF Unread
  <2>5. ASSUME NEW t \in Subs PROVE RegistrationStays(t)
    <3>1. BeingSubscribed(t) => BeingSubscribed(t)'
      BY <2>1 DEF BeingSubscribed
    <3>2. t \in open => t \in open' \/ Unread(t)'
      BY <2>1, <2>4
    <3>3. t \in open' \ stray' => t \in open \ stray
      BY <2>1
    <3> QED BY <2>1, <2>3, <3>1, <3>2, <3>3 DEF RegistrationStays, registry
  <2> QED BY <2>1, <2>5, SameQueueGrows DEF CalmStep, link, outbound, sender, InSession
<1>6. ASSUME UNCHANGED vars PROVE CalmStep
  <2>1. UNCHANGED <<link, registry, outbound, sender, target, peer>>
    BY <1>6 DEF vars, link, registry, outbound, sender, peer
  <2> QED BY <1>1, <2>1 DEF link, InSession
<1> QED BY <1>2, <1>3, <1>4, <1>5, <1>6

-----------------------------------------------------------------------------
(* A REQ is queued                                                         *)

ReqQueued(s) ==
    /\ UNCHANGED <<link, reg, sender, peer>>
    /\ \E p \in {queue, Append(queue, Close(s))} : queue' = Append(p, Req(s, reg[s]))
    /\ count' = Track(reg[s])
    /\ \A t \in Subs \ {s} :
          conn'[t] = conn[t] /\ closed'[t] = closed[t] /\ (BeingSubscribed(t) => BeingSubscribed(t)')
    /\ reg[s] # Nothing => /\ conn'[s] = conn[s] \/ conn'[s] = success
                           /\ closed'[s] = closed[s] \/ count[reg[s]] = 0

\* What becomes of the queue and the counters
LEMMA ReqInQueue ==
    ASSUME TypeOK, NEW s \in Subs, ReqQueued(s)
    PROVE  /\ \A k \in Counters : Carrying(queue', k) = Carrying(queue, k) + (IF reg[s] = k THEN 1 ELSE 0)
           /\ \A i \in DOMAIN queue : i \in DOMAIN queue' /\ queue'[i] = queue[i]
           /\ \A i \in DOMAIN queue' : i \notin DOMAIN queue =>
                 queue'[i] = Close(s) \/ queue'[i] = Req(s, reg[s])
           /\ \E n \in DOMAIN queue' : /\ queue'[n] = Req(s, reg[s])
                                       /\ \A i \in DOMAIN queue' : i = n \/ i < n
<1>1. PICK p \in {queue, Append(queue, Close(s))} : queue' = Append(p, Req(s, reg[s]))
  BY DEF ReqQueued
<1>2. reg[s] \in Counters \union {Nothing} /\ queue \in Seq(Item)
  BY DEF TypeOK
<1>3. /\ Req(s, reg[s]) \in Item /\ Close(s) \in Item
      /\ Req(s, reg[s]).counter = reg[s] /\ Close(s).counter = Nothing
  BY <1>2, Messages DEF Req, Close
<1>4. p \in Seq(Item)
  BY <1>1, <1>2, <1>3
<1>5. ASSUME NEW k \in Counters
      PROVE  Carrying(queue', k) = Carrying(queue, k) + (IF reg[s] = k THEN 1 ELSE 0)
  <2>1. Carrying(Append(p, Req(s, reg[s])), k) = Carrying(p, k) + (IF reg[s] = k THEN 1 ELSE 0)
    BY <1>3, <1>4, CarryingAppend
  <2>2. k # Nothing /\ Carrying(queue, k) \in Nat
    BY <1>2, NothingAssumption, CarryingIsNat
  <2>3. Carrying(Append(queue, Close(s)), k) = Carrying(queue, k) + (IF Nothing = k THEN 1 ELSE 0)
    BY <1>2, <1>3, CarryingAppend
  <2>4. Carrying(p, k) = Carrying(queue, k)
    <3>1. CASE p = queue
      BY <3>1
    <3>2. CASE p = Append(queue, Close(s))
      <4>1. Carrying(p, k) = Carrying(queue, k) + 0
        BY <2>2, <2>3, <3>2
      <4> QED BY <2>2, <4>1
    <3> QED BY <3>1, <3>2
  <2> QED BY <1>1, <2>1, <2>4
<1>6. /\ \A i \in DOMAIN queue : i \in DOMAIN p /\ p[i] = queue[i]
      /\ \A i \in DOMAIN p : i \notin DOMAIN queue => p[i] = Close(s)
  BY <1>1, <1>2
<1>7. /\ \A i \in DOMAIN p : i \in DOMAIN queue' /\ queue'[i] = p[i] /\ i < Len(p) + 1
      /\ Len(p) + 1 \in DOMAIN queue' /\ queue'[Len(p) + 1] = Req(s, reg[s])
      /\ \A i \in DOMAIN queue' : i \in DOMAIN p \/ i = Len(p) + 1
  BY <1>1, <1>4
<1> QED BY <1>5, <1>6, <1>7

LEMMA PendingIsCounted ==
    ASSUME TypeOK, CountsExact, NEW s \in Registered
    PROVE  /\ HasReq(s) => count[reg[s]] > 0
           /\ stage = "taken" /\ item.counter = reg[s] => count[reg[s]] > 0
           /\ reg[s] \in Counters /\ reg[s] # Nothing /\ count[reg[s]] \in Nat
<1>1. reg[s] \in Counters /\ reg[s] # Nothing /\ count[reg[s]] \in Nat /\ queue \in Seq(Item)
  BY DEF TypeOK, Registered
<1>2. count[reg[s]] = Waiting(reg[s])
  BY <1>1 DEF CountsExact
<1>3. Carrying(queue, reg[s]) \in Nat /\ (HasReq(s) => Carrying(queue, reg[s]) > 0)
  BY <1>1, CarryingIsNat, CarryingPositive DEF HasReq
<1> QED BY <1>1, <1>2, <1>3 DEF Waiting

LEMMA ReqQueuedKeeps ==
    ASSUME TypeOK, Relations, NEW s \in Subs, ReqQueued(s)
    PROVE  Relations'
<1>0. /\ reg' = reg /\ UNCHANGED <<connected, success, serve, stage, item, open, stray, inbox>>
      /\ reg[s] \in Counters \union {Nothing} /\ count \in [Counters -> Nat] /\ queue \in Seq(Item)
      /\ Registered \subseteq Subs
  BY DEF ReqQueued, link, sender, peer, TypeOK, Registered
<1>1. \A k \in Counters : count'[k] = count[k] + (IF reg[s] = k THEN 1 ELSE 0)
  <2> SUFFICES ASSUME NEW k \in Counters
               PROVE  count'[k] = count[k] + (IF reg[s] = k THEN 1 ELSE 0)
    OBVIOUS
  <2>1. CASE reg[s] = Nothing
    <3>1. count' = count /\ k # Nothing /\ count[k] \in Nat
      BY <1>0, <2>1, NothingAssumption DEF ReqQueued, Track
    <3> QED BY <2>1, <3>1
  <2>2. CASE reg[s] # Nothing
    <3>1. count' = [count EXCEPT ![reg[s]] = @ + 1]
      BY <2>2 DEF ReqQueued, Track
    <3>2. count[k] \in Nat
      BY <1>0
    <3> QED BY <1>0, <2>2, <3>1, <3>2
  <2> QED BY <2>1, <2>2
<1>2. CountsExact'
  <2> SUFFICES ASSUME NEW k \in Counters PROVE count'[k] = Waiting(k)'
    BY DEF CountsExact
  <2>1. count[k] = Waiting(k) /\ Carrying(queue, k) \in Nat
    BY <1>0, CarryingIsNat DEF Relations, CountsExact
  <2>2. Carrying(queue', k) = Carrying(queue, k) + (IF reg[s] = k THEN 1 ELSE 0)
    BY ReqInQueue
  <2> QED BY <1>0, <1>1, <2>1, <2>2 DEF Waiting
<1>3. /\ \A i \in DOMAIN queue : i \in DOMAIN queue' /\ queue'[i] = queue[i]
      /\ \A i \in DOMAIN queue' : i \notin DOMAIN queue =>
            queue'[i] = Close(s) \/ queue'[i] = Req(s, reg[s])
  BY ReqInQueue
<1>4. PICK n \in DOMAIN queue' : /\ queue'[n] = Req(s, reg[s])
                                 /\ \A i \in DOMAIN queue' : i = n \/ i < n
  BY ReqInQueue
<1>5. /\ Close(s).id = s /\ Close(s).counter = Nothing /\ Close(s).type = "CLOSE"
      /\ Req(s, reg[s]).id = s /\ Req(s, reg[s]).counter = reg[s] /\ Req(s, reg[s]).type = "REQ"
      /\ \A t \in Subs : Close(t).id = t /\ Close(t).type = "CLOSE"
  BY DEF Close, Req
<1>6. ASSUME NEW t \in Registered PROVE HasReq(t) => HasReq(t)'
  BY <1>0, <1>3 DEF HasReq
<1>7. s \in Registered => HasReq(s)'
  BY <1>0, <1>4, <1>5 DEF HasReq
<1>8. ASSUME NEW t \in Registered
      PROVE  /\ t # s => /\ conn'[t] = conn[t] /\ closed'[t] = closed[t]
                         /\ BeingSubscribed(t) => BeingSubscribed(t)'
             /\ t = s => /\ conn'[s] = conn[s] \/ conn'[s] = success
                         /\ closed'[s] = closed[s] \/ count[reg[s]] = 0
             /\ t \in Subs /\ conn[t] \in Nat /\ success \in Nat
  BY DEF ReqQueued, TypeOK, Registered
<1>9. Registered' = Registered
  BY <1>0 DEF Registered
<1>10. CountersAreOwn'
  <2> SUFFICES ASSUME NEW t \in Registered
               PROVE  /\ \A u \in Subs : reg[u] = reg[t] => u = t
                      /\ \A i \in DOMAIN queue' : queue'[i].counter = reg[t] => queue'[i].id = t
                      /\ stage # "idle" /\ item.counter = reg[t] => item.id = t
    BY <1>0, <1>9 DEF CountersAreOwn
  <2>1. reg[t] # Nothing
    BY DEF Registered
  <2>2. ASSUME NEW i \in DOMAIN queue', queue'[i].counter = reg[t] PROVE queue'[i].id = t
    <3>1. CASE i \in DOMAIN queue
      BY <1>3, <2>2, <3>1 DEF Relations, CountersAreOwn
    <3>2. CASE i \notin DOMAIN queue
      <4>1. queue'[i] = Req(s, reg[s])
        BY <1>3, <1>5, <2>1, <2>2, <3>2
      <4>2. reg[s] = reg[t]
        BY <1>5, <2>2, <4>1
      <4>3. s = t
        BY <4>2 DEF Relations, CountersAreOwn
      <4> QED BY <1>5, <4>1, <4>3
    <3> QED BY <3>1, <3>2
  <2> QED BY <2>2 DEF Relations, CountersAreOwn
<1>11. ClosesAreFollowed'
  <2> SUFFICES ASSUME NEW t \in Registered, ~BeingSubscribed(t)'
               PROVE  /\ \A i \in DOMAIN queue' : queue'[i] = Close(t) =>
                            \E j \in DOMAIN queue' : j > i /\ queue'[j].counter = reg[t]
                      /\ stage \in {"taken", "started"} /\ item = Close(t) => HasReq(t)'
    BY <1>0, <1>9 DEF ClosesAreFollowed
  <2>1. CASE t = s
    <3>1. \A i \in DOMAIN queue' : i \in Int
      BY <1>0, <1>3 DEF ReqQueued
    <3>2. ASSUME NEW i \in DOMAIN queue', queue'[i] = Close(s) PROVE i < n
      BY <1>4, <1>5, <3>2
    <3>3. n \in Int /\ \A i \in DOMAIN queue' : i < n => n > i
      BY <3>1
    <3> QED BY <1>4, <1>5, <1>7, <2>1, <3>2, <3>3
  <2>2. CASE t # s
    <3>1. ~BeingSubscribed(t)
      BY <1>8, <2>2
    <3>2. ASSUME NEW i \in DOMAIN queue', queue'[i] = Close(t)
          PROVE  \E j \in DOMAIN queue' : j > i /\ queue'[j].counter = reg[t]
      <4>1. i \in DOMAIN queue /\ queue[i] = Close(t)
        BY <1>3, <1>5, <1>8, <2>2, <3>2
      <4>2. PICK j \in DOMAIN queue : j > i /\ queue[j].counter = reg[t]
        BY <3>1, <4>1 DEF Relations, ClosesAreFollowed
      <4> QED BY <1>3, <4>2
    <3>3. stage \in {"taken", "started"} /\ item = Close(t) => HasReq(t)'
      BY <1>6, <3>1 DEF Relations, ClosesAreFollowed
    <3> QED BY <3>2, <3>3
  <2> QED BY <2>1, <2>2
<1>12. NextSessionIsQueued'
  <2> SUFFICES ASSUME NEW t \in Registered, conn'[t] > success
               PROVE  conn'[t] = success + 1 /\ ~connected /\ (BeingSubscribed(t)' \/ HasReq(t)')
    BY <1>0, <1>9 DEF NextSessionIsQueued
  <2>1. conn'[t] = conn[t]
    BY <1>8
  <2>2. conn[t] = success + 1 /\ ~connected /\ (BeingSubscribed(t) \/ HasReq(t))
    BY <2>1 DEF Relations, NextSessionIsQueued
  <2> QED BY <1>6, <1>7, <1>8, <2>1, <2>2
<1>14. OpenIsCurrent'
  <2> SUFFICES ASSUME NEW t \in Registered, t \in open \ stray \/ Writing(reg[t])
               PROVE  conn'[t] >= success
    BY <1>0, <1>9 DEF OpenIsCurrent, Writing
  <2>1. conn[t] >= success
    BY DEF Relations, OpenIsCurrent
  <2> QED BY <1>8, <2>1
<1>15. ServedOrRestorable'
  <2> SUFFICES ASSUME NEW t \in Registered, ~BeingSubscribed(t)'
               PROVE  \/ count'[reg[t]] > 0
                      \/ Writing(reg[t])
                      \/ NeedsRestore(t, IF InSession THEN success ELSE success + 1)'
                      \/ serve = "running" /\ t \in open
                      \/ InSession /\ Unread(t)
    BY <1>0, <1>9 DEF ServedOrRestorable, Writing, Unread, InSession
  <2>1. reg[t] \in Counters /\ reg[t] # Nothing /\ count[reg[t]] \in Nat
    BY PendingIsCounted DEF Relations
  <2>2. CASE t = s
    BY <1>1, <2>1, <2>2
  <2>3. CASE t # s
    <3>1. reg[t] # reg[s]
      BY <1>0, <2>3 DEF Relations, CountersAreOwn
    <3>2. count'[reg[t]] = count[reg[t]]
      BY <1>1, <2>1, <3>1
    <3>3. conn'[t] = conn[t] /\ closed'[t] = closed[t] /\ ~BeingSubscribed(t)
      BY <1>8, <2>3
    <3> QED BY <1>0, <3>2, <3>3 DEF Relations, ServedOrRestorable, NeedsRestore, InSession
  <2> QED BY <2>2, <2>3
<1> QED BY <1>2, <1>10, <1>11, <1>12, <1>14, <1>15 DEF Relations

\* Who queues a REQ: subscribe, reissue and the two restorations.
LEMMA QueueReqKeeps ==
    ASSUME TypeOK, Relations, NEW c \in Callers, NEW refused, QueueReq(c, refused)
    PROVE  Relations'
<1>1. /\ UNCHANGED <<link, registry, sender, peer>> /\ target[c] \in Subs
      /\ target \in [Callers -> Subs \union {Nothing}]
  BY DEF QueueReq, TypeOK
<1>2. CASE ~refused /\ Room(1)
  <2>1. /\ queue' = Append(queue, Req(target[c], reg[target[c]]))
        /\ count' = Track(reg[target[c]]) /\ target' = [target EXCEPT ![c] = Nothing]
    BY <1>2 DEF QueueReq
  <2>2. \A t \in Subs \ {target[c]} : BeingSubscribed(t) => BeingSubscribed(t)'
    BY <1>1, <2>1 DEF BeingSubscribed
  <2>3. ReqQueued(target[c])
    BY <1>1, <2>1, <2>2 DEF ReqQueued, registry
  <2> QED BY <1>1, <2>3, ReqQueuedKeeps
<1>3. CASE ~(~refused /\ Room(1))
  <2>1. UNCHANGED <<link, registry, outbound, sender, target, peer>>
    BY <1>1, <1>3 DEF QueueReq
  <2>2. CalmStep
    BY <2>1, SameQueueGrows, RegistrationsKept
       DEF CalmStep, link, outbound, sender, peer, InSession
  <2> QED BY <2>2, CalmStepKeeps
<1> QED BY <1>2, <1>3

LEMMA ReissueKeeps ==
    ASSUME TypeOK, Relations, NEW s \in Subs, ReissueSubscription(s)
    PROVE  Relations'
<1>1. /\ UNCHANGED <<link, registry, sender, target, peer>> /\ count' = Track(reg[s])
      /\ queue' = queue \o <<Close(s), Req(s, reg[s])>>
  BY DEF ReissueSubscription, QueueBatch, users
<1>2. queue' = Append(Append(queue, Close(s)), Req(s, reg[s]))
  <2>1. queue \in Seq(Item) /\ Close(s) \in Item /\ Req(s, reg[s]) \in Item
    BY Messages DEF TypeOK
  <2> QED BY <1>1, <2>1
<1>3. ReqQueued(s)
  BY <1>1, <1>2 DEF ReqQueued, registry, BeingSubscribed
<1> QED BY <1>3, ReqQueuedKeeps

LEMMA RestorationKeeps ==
    ASSUME TypeOK, Relations, NEW s \in Subs, NEW refused, QueueResubscription(s, refused),
           UNCHANGED <<link, sender, users, peer>>
    PROVE  Relations'
<1>1. CASE ~NeedsRestore(s, success)
  <2>1. UNCHANGED <<link, registry, outbound, sender, target, peer>>
    BY <1>1 DEF QueueResubscription, users
  <2>2. CalmStep
    BY <2>1, SameQueueGrows, RegistrationsKept
       DEF CalmStep, link, outbound, sender, peer, InSession
  <2> QED BY <2>2, CalmStepKeeps
<1>2. CASE NeedsRestore(s, success) /\ ~refused /\ Room(1)
  <2>1. /\ queue' = Append(queue, Req(s, reg[s])) /\ count' = Track(reg[s]) /\ reg' = reg
        /\ conn' = [conn EXCEPT ![s] = success] /\ closed' = [closed EXCEPT ![s] = FALSE]
    BY <1>2 DEF QueueResubscription
  <2>2. count[reg[s]] = 0
    BY <1>2 DEF NeedsRestore
  <2>3. /\ conn'[s] = success
        /\ \A t \in Subs \ {s} : conn'[t] = conn[t] /\ closed'[t] = closed[t]
    BY <2>1 DEF TypeOK
  <2>4. \A t \in Subs : BeingSubscribed(t) => BeingSubscribed(t)'
    BY DEF BeingSubscribed, users
  <2>5. ReqQueued(s)
    BY <2>1, <2>2, <2>3, <2>4 DEF ReqQueued
  <2> QED BY <2>5, ReqQueuedKeeps
<1>3. CASE NeedsRestore(s, success) /\ ~(~refused /\ Room(1))
  <2>1. /\ UNCHANGED outbound /\ reg' = reg
        /\ conn' = [conn EXCEPT ![s] = success] /\ closed' = [closed EXCEPT ![s] = TRUE]
    BY <1>3 DEF QueueResubscription
  <2>2. /\ conn'[s] = success /\ closed'[s] = TRUE
        /\ \A t \in Subs \ {s} : conn'[t] = conn[t] /\ closed'[t] = closed[t]
    BY <2>1 DEF TypeOK
  <2>3. \A t \in Subs : BeingSubscribed(t) => BeingSubscribed(t)'
    BY DEF BeingSubscribed, users
  <2>4. \A t \in Subs : Unread(t) => Unread(t)'
    BY DEF Unread, peer
  <2>5. ASSUME NEW t \in Subs PROVE RegistrationStays(t)
    <3>1. CASE t = s
      BY <2>1, <2>2, <2>3, <2>4, <3>1 DEF RegistrationStays, peer
    <3>2. CASE t # s
      BY <2>1, <2>2, <2>3, <2>4, <3>2 DEF RegistrationStays, peer
    <3> QED BY <3>1, <3>2
  <2>6. CalmStep
    BY <2>1, <2>5, SameQueueGrows DEF CalmStep, link, outbound, sender, InSession
  <2> QED BY <2>6, CalmStepKeeps
<1> QED BY <1>1, <1>2, <1>3

-----------------------------------------------------------------------------
(* A new registration, and a new session                                   *)

LEMMA AddKeeps ==
    ASSUME TypeOK, Relations, NEW c \in Callers, NEW s \in Subs, AddLongLivedSubscription(c, s)
    PROVE  Relations'
<1>1. /\ UNCHANGED <<connected, success, serve, queue, count, stage, item, open, stray, inbox>>
      /\ closed' = closed /\ conn' = [conn EXCEPT ![s] = DeliveryConnection]
      /\ target' = [target EXCEPT ![c] = s] /\ pc[c] = "ready" /\ reg[s] = Nothing
  BY DEF AddLongLivedSubscription, link, outbound, sender, peer
<1>2. PICK k \in Counters : ~Held(k) /\ reg' = [reg EXCEPT ![s] = k]
  BY DEF AddLongLivedSubscription
<1>3. /\ k # Nothing /\ reg'[s] = k
      /\ \A t \in Subs : t # s => reg'[t] = reg[t] /\ conn'[t] = conn[t]
      /\ conn'[s] = DeliveryConnection /\ success \in Nat
  BY <1>1, <1>2, NothingAssumption DEF TypeOK
<1>4. /\ \A t \in Subs : reg[t] # k
      /\ \A i \in DOMAIN queue : queue[i].counter # k
      /\ stage # "idle" => item.counter # k
  BY <1>2 DEF Held
<1>5. BeingSubscribed(s)' /\ \A t \in Subs : t # s /\ BeingSubscribed(t) => BeingSubscribed(t)'
  <2>1. target'[c] = s
    BY <1>1 DEF TypeOK
  <2>2. target[c] = Nothing
    BY <1>1 DEF TypeOK
  <2>3. \A d \in Callers : d # c => target'[d] = target[d]
    BY <1>1 DEF TypeOK
  <2> QED BY <2>1, <2>2, <2>3, NothingAssumption DEF BeingSubscribed
<1>6. \A t \in Subs : reg'[t] # Nothing => t = s \/ (t # s /\ t \in Registered)
  BY <1>3 DEF Registered
<1>7. CountsExact'
  BY <1>1 DEF Relations, CountsExact, Waiting
<1>8. CountersAreOwn'
  <2> SUFFICES ASSUME NEW t \in Subs, reg'[t] # Nothing
               PROVE  /\ \A u \in Subs : reg'[u] = reg'[t] => u = t
                      /\ \A i \in DOMAIN queue : queue[i].counter = reg'[t] => queue[i].id = t
                      /\ stage # "idle" /\ item.counter = reg'[t] => item.id = t
    BY <1>1 DEF CountersAreOwn, Registered
  <2>1. CASE t = s
    BY <1>3, <1>4, <2>1
  <2>2. CASE t # s
    BY <1>3, <1>4, <1>6, <2>2 DEF Relations, CountersAreOwn
  <2> QED BY <2>1, <2>2
<1>9. ClosesAreFollowed'
  BY <1>1, <1>3, <1>5, <1>6 DEF Relations, ClosesAreFollowed, Registered, HasReq
<1>10. NextSessionIsQueued'
  <2> SUFFICES ASSUME NEW t \in Subs, reg'[t] # Nothing, conn'[t] > success
               PROVE  conn'[t] = success + 1 /\ ~connected /\ (BeingSubscribed(t)' \/ HasReq(t)')
    BY <1>1 DEF NextSessionIsQueued, Registered
  <2>1. CASE t = s
    BY <1>3, <1>5, <2>1 DEF DeliveryConnection
  <2>2. CASE t # s
    BY <1>1, <1>3, <1>5, <1>6, <2>2 DEF Relations, NextSessionIsQueued, HasReq
  <2> QED BY <2>1, <2>2
<1>12. OpenIsCurrent'
  <2>1. conn'[s] >= success
    BY <1>3 DEF DeliveryConnection
  <2> QED BY <1>1, <1>3, <1>4, <1>6, <2>1 DEF Relations, OpenIsCurrent, Registered, Writing
<1>13. ServedOrRestorable'
  <2> SUFFICES ASSUME NEW t \in Subs, reg'[t] # Nothing, ~BeingSubscribed(t)'
               PROVE  \/ count[reg'[t]] > 0
                      \/ Writing(reg[t])'
                      \/ NeedsRestore(t, IF InSession THEN success ELSE success + 1)'
                      \/ serve = "running" /\ t \in open
                      \/ InSession /\ Unread(t)
    BY <1>1 DEF ServedOrRestorable, Registered, Unread, InSession
  <2>1. t # s /\ t \in Registered /\ ~BeingSubscribed(t) /\ reg'[t] = reg[t] /\ conn'[t] = conn[t]
    BY <1>3, <1>5, <1>6
  <2> QED BY <1>1, <2>1 DEF Relations, ServedOrRestorable, NeedsRestore, Writing, InSession
<1> QED BY <1>7, <1>8, <1>9, <1>10, <1>12, <1>13 DEF Relations

LEMMA AcceptKeeps ==
    ASSUME TypeOK, Relations, AcceptConnection
    PROVE  Relations'
<1>1. /\ serve = "down" /\ connected' = TRUE /\ success' = success + 1 /\ serve' = "accepted"
      /\ open' = {} /\ stray' = {} /\ success \in Nat /\ stage = "idle"
      /\ UNCHANGED <<reg, conn, closed, queue, count, stage, item, target>>
  BY DEF AcceptConnection, registry, outbound, sender, users, TypeOK
<1>2. CountsExact' /\ CountersAreOwn'
  BY <1>1 DEF Relations, CountsExact, Waiting, CountersAreOwn, Registered
<1>3. ClosesAreFollowed'
  BY <1>1 DEF Relations, ClosesAreFollowed, Registered, BeingSubscribed, HasReq
<1>4. NextSessionIsQueued'
  <2>1. \A s \in Registered : conn[s] \in Nat
    BY DEF Registered, TypeOK
  <2>2. \A s \in Registered : ~(conn[s] > success + 1)
    BY <1>1, <2>1 DEF Relations, NextSessionIsQueued
  <2> QED BY <1>1, <2>2 DEF NextSessionIsQueued, Registered
<1>5. OpenIsCurrent'
  BY <1>1 DEF OpenIsCurrent, Writing
<1>6. ServedOrRestorable'
  <2> SUFFICES ASSUME NEW s \in Registered, ~BeingSubscribed(s)
               PROVE  \/ count[reg[s]] > 0
                      \/ NeedsRestore(s, IF InSession THEN success ELSE success + 1)'
    BY <1>1 DEF ServedOrRestorable, Registered, BeingSubscribed
  <2>1. ~InSession /\ InSession'
    BY <1>1 DEF InSession
  <2>2. CASE count[reg[s]] > 0 \/ NeedsRestore(s, success + 1)
    BY <1>1, <2>1, <2>2 DEF NeedsRestore
  <2> QED BY <1>1, <2>1, <2>2 DEF Relations, ServedOrRestorable, Writing
<1> QED BY <1>2, <1>3, <1>4, <1>5, <1>6 DEF Relations

-----------------------------------------------------------------------------
(* The sender                                                              *)

LEMMA Untracked ==
    ASSUME TypeOK, CountsExact, NEW k \in Counters
    PROVE  /\ stage = "taken" => Untrack(item.counter)[k] = Carrying(queue, k)
           /\ stage # "taken" => count[k] = Carrying(queue, k)
           /\ Carrying(queue, k) \in Nat
<1>1. /\ queue \in Seq(Item) /\ count \in [Counters -> Nat] /\ count[k] = Waiting(k)
      /\ stage = "taken" => item.counter \in Counters \union {Nothing}
  BY Messages DEF TypeOK, CountsExact
<1>2. Carrying(queue, k) \in Nat /\ k # Nothing
  BY <1>1, CarryingIsNat, NothingAssumption
<1>3. CASE stage # "taken"
  BY <1>1, <1>2, <1>3 DEF Waiting
<1>4. CASE stage = "taken" /\ item.counter = k
  <2>1. count[k] = Carrying(queue, k) + 1
    BY <1>1, <1>4 DEF Waiting
  <2>2. Untrack(item.counter) = [count EXCEPT ![k] = @ - 1]
    BY <1>2, <1>4, <2>1 DEF Untrack
  <2> QED BY <1>1, <1>2, <1>4, <2>1, <2>2
<1>5. CASE stage = "taken" /\ item.counter # k
  <2>1. count[k] = Carrying(queue, k)
    BY <1>1, <1>2, <1>5 DEF Waiting
  <2>2. Untrack(item.counter)[k] = count[k]
    BY <1>1, <1>5 DEF Untrack
  <2> QED BY <1>2, <1>5, <2>1, <2>2
<1> QED BY <1>3, <1>4, <1>5

LEMMA SessionEndsKeeps ==
    ASSUME TypeOK, Relations, SessionEnds
    PROVE  Relations'
<1>1. /\ UNCHANGED <<connected, success, reg, conn, closed, queue, target>>
      /\ serve' = "closing" /\ stage' = "idle" /\ open' = {} /\ success \in Nat
      /\ count' = IF stage = "taken" THEN Untrack(item.counter) ELSE count
  BY DEF SessionEnds, registry, users, TypeOK
<1>2. \A k \in Counters : count'[k] = Carrying(queue, k) /\ Carrying(queue, k) \in Nat
  BY <1>1, Untracked DEF Relations
<1>3. CountsExact'
  BY <1>1, <1>2 DEF CountsExact, Waiting
<1>4. CountersAreOwn'
  BY <1>1 DEF Relations, CountersAreOwn, Registered
<1>5. ClosesAreFollowed'
  BY <1>1 DEF Relations, ClosesAreFollowed, Registered, BeingSubscribed
<1>6. NextSessionIsQueued'
  BY <1>1 DEF Relations, NextSessionIsQueued, Registered, BeingSubscribed, HasReq
<1>7. OpenIsCurrent'
  BY <1>1 DEF OpenIsCurrent, Writing
<1>8. ServedOrRestorable'
  <2> SUFFICES ASSUME NEW s \in Registered, ~BeingSubscribed(s)
               PROVE  \/ count'[reg[s]] > 0
                      \/ NeedsRestore(s, IF InSession THEN success ELSE success + 1)'
    BY <1>1 DEF ServedOrRestorable, Registered, BeingSubscribed
  <2>1. reg[s] \in Counters /\ reg[s] # Nothing /\ conn[s] \in Nat /\ queue \in Seq(Item)
    BY DEF Registered, TypeOK
  <2>2. ~InSession'
    BY <1>1 DEF InSession
  <2>3. CASE conn[s] > success
    <3>1. HasReq(s)
      BY <2>3 DEF Relations, NextSessionIsQueued
    <3>2. Carrying(queue, reg[s]) > 0
      BY <2>1, <3>1, CarryingPositive DEF HasReq
    <3> QED BY <1>2, <2>1, <3>2
  <2>4. CASE ~(conn[s] > success)
    <3>1. success + 1 > conn[s]
      BY <1>1, <2>1, <2>4
    <3>2. count'[reg[s]] > 0 \/ count'[reg[s]] = 0
      BY <1>2, <2>1
    <3> QED BY <1>1, <2>1, <2>2, <3>1, <3>2 DEF NeedsRestore
  <2> QED BY <2>3, <2>4
<1> QED BY <1>3, <1>4, <1>5, <1>6, <1>7, <1>8 DEF Relations

LEMMA RecvKeeps ==
    ASSUME TypeOK, Relations, RecvClientMsg
    PROVE  Relations'
<1>1. /\ UNCHANGED <<connected, success, serve, reg, conn, closed, count, target, open, stray, inbox>>
      /\ stage = "idle" /\ connected /\ queue # <<>> /\ stage' = "taken"
      /\ item' = Head(queue) /\ queue' = Tail(queue) /\ queue \in Seq(Item)
  BY DEF RecvClientMsg, link, registry, users, peer, TypeOK
<1>2. /\ \A i \in DOMAIN queue' : i + 1 \in DOMAIN queue /\ queue'[i] = queue[i + 1]
      /\ 1 \in DOMAIN queue /\ item' = queue[1]
      /\ \A i \in DOMAIN queue : i \in Int /\ (i > 1 => i - 1 \in DOMAIN queue' /\ queue'[i - 1] = queue[i])
      /\ \A i \in DOMAIN queue' : i \in Int
  BY <1>1
<1>3. Registered' = Registered /\ \A s \in Subs : BeingSubscribed(s)' = BeingSubscribed(s)
  BY <1>1 DEF Registered, BeingSubscribed
<1>4. CountsExact'
  <2> SUFFICES ASSUME NEW k \in Counters PROVE count[k] = Waiting(k)'
    BY <1>1 DEF CountsExact
  <2>1. count[k] = Carrying(queue, k) + 0
    BY <1>1 DEF Relations, CountsExact, Waiting
  <2>2. Carrying(queue, k) = Carrying(queue', k) + (IF item'.counter = k THEN 1 ELSE 0)
    BY <1>1, CarryingTail
  <2>3. Carrying(queue, k) \in Nat
    BY <1>1, CarryingIsNat
  <2> QED BY <1>1, <2>1, <2>2, <2>3 DEF Waiting
<1>5. CountersAreOwn'
  BY <1>1, <1>2, <1>3 DEF Relations, CountersAreOwn
<1>6. ClosesAreFollowed'
  <2> SUFFICES ASSUME NEW s \in Registered, ~BeingSubscribed(s)
               PROVE  /\ \A i \in DOMAIN queue' : queue'[i] = Close(s) =>
                            \E j \in DOMAIN queue' : j > i /\ queue'[j].counter = reg[s]
                      /\ item' = Close(s) => HasReq(s)'
    BY <1>1, <1>3 DEF ClosesAreFollowed, Registered
  <2>1. ASSUME NEW i \in DOMAIN queue, queue[i] = Close(s)
        PROVE  \E j \in DOMAIN queue' : j + 1 > i /\ queue'[j].counter = reg[s]
    <3>1. PICK j \in DOMAIN queue : j > i /\ queue[j].counter = reg[s]
      BY <2>1 DEF Relations, ClosesAreFollowed
    <3>2. i >= 1 /\ i \in Int /\ j \in Int
      BY <1>1
    <3>3. j - 1 \in DOMAIN queue' /\ queue'[j - 1] = queue[j] /\ (j - 1) + 1 > i
      BY <1>2, <3>1, <3>2
    <3> QED BY <3>1, <3>3
  <2>2. ASSUME NEW i \in DOMAIN queue', queue'[i] = Close(s)
        PROVE  \E j \in DOMAIN queue' : j > i /\ queue'[j].counter = reg[s]
    <3>1. i + 1 \in DOMAIN queue /\ queue[i + 1] = Close(s) /\ i \in Int
      BY <1>2, <2>2
    <3>2. PICK j \in DOMAIN queue' : j + 1 > i + 1 /\ queue'[j].counter = reg[s]
      BY <2>1, <3>1
    <3>3. j > i
      BY <1>2, <3>1, <3>2
    <3> QED BY <3>2, <3>3
  <2>3. ASSUME item' = Close(s) PROVE HasReq(s)'
    BY <1>1, <1>2, <2>1, <2>3 DEF HasReq
  <2> QED BY <2>2, <2>3
<1>7. NextSessionIsQueued'
  BY <1>1, <1>3 DEF Relations, NextSessionIsQueued
<1>8. OpenIsCurrent'
  BY <1>1, <1>3 DEF Relations, OpenIsCurrent, Writing
<1>9. ServedOrRestorable'
  BY <1>1, <1>3 DEF Relations, ServedOrRestorable, NeedsRestore, InSession, Unread, Registered, Writing
<1> QED BY <1>4, <1>5, <1>6, <1>7, <1>8, <1>9 DEF Relations

LEMMA StartedKeeps ==
    ASSUME TypeOK, Relations, SubscriptionReqStarted
    PROVE  Relations'
<1> DEFINE mine(s) == item.type = "REQ" /\ item.counter # Nothing /\ reg[s] = item.counter
<1>1. /\ UNCHANGED <<connected, success, serve, reg, queue, item, target, open, stray, inbox>>
      /\ stage = "taken" /\ stage' = "started" /\ item \in Item /\ success \in Nat
      /\ count' = Untrack(item.counter) /\ Registered' = Registered
  BY DEF SubscriptionReqStarted, link, users, peer, TypeOK, Registered
<1>2. ASSUME NEW s \in Registered
      PROVE  /\ reg[s] = item.counter => conn'[s] = success
             /\ reg[s] # item.counter => conn'[s] = conn[s] /\ closed'[s] = closed[s]
             /\ conn[s] \in Nat
  <2>1. reg[s] # Nothing /\ s \in Subs /\ conn[s] \in Nat /\ closed[s] \in BOOLEAN
    BY DEF Registered, TypeOK
  <2>2. reg[s] = item.counter => mine(s)
    BY <1>1, <2>1, Messages
  <2>3. /\ conn'[s] = IF mine(s) THEN success ELSE conn[s]
        /\ closed'[s] = (closed[s] /\ ~mine(s))
    BY <2>1 DEF SubscriptionReqStarted
  <2> QED BY <2>1, <2>2, <2>3
<1>3. \A k \in Counters : count'[k] = Carrying(queue, k) /\ Carrying(queue, k) \in Nat
  BY <1>1, Untracked DEF Relations
<1>9. CountsExact'
  BY <1>1, <1>3 DEF CountsExact, Waiting
<1>10. CountersAreOwn'
  BY <1>1 DEF Relations, CountersAreOwn
<1>4. ClosesAreFollowed'
  BY <1>1 DEF Relations, ClosesAreFollowed, BeingSubscribed, HasReq
<1>5. NextSessionIsQueued'
  <2> SUFFICES ASSUME NEW s \in Registered, conn'[s] > success
               PROVE  conn'[s] = success + 1 /\ ~connected /\ (BeingSubscribed(s) \/ HasReq(s))
    BY <1>1 DEF NextSessionIsQueued, BeingSubscribed, HasReq
  <2>1. conn'[s] = conn[s]
    BY <1>1, <1>2
  <2> QED BY <2>1 DEF Relations, NextSessionIsQueued
<1>7. OpenIsCurrent'
  <2> SUFFICES ASSUME NEW s \in Registered, s \in open \ stray \/ item.counter = reg[s]
               PROVE  conn'[s] >= success
    BY <1>1 DEF OpenIsCurrent, Writing
  <2>1. CASE item.counter = reg[s]
    BY <1>1, <1>2, <2>1
  <2>2. CASE item.counter # reg[s]
    BY <1>2, <2>2 DEF Relations, OpenIsCurrent
  <2> QED BY <2>1, <2>2
<1>8. ServedOrRestorable'
  <2> SUFFICES ASSUME NEW s \in Registered, ~BeingSubscribed(s)
               PROVE  \/ count'[reg[s]] > 0
                      \/ Writing(reg[s])'
                      \/ NeedsRestore(s, IF InSession THEN success ELSE success + 1)'
                      \/ serve = "running" /\ s \in open
                      \/ InSession /\ Unread(s)
    BY <1>1 DEF ServedOrRestorable, BeingSubscribed, Unread, InSession
  <2>1. CASE reg[s] = item.counter
    BY <1>1, <2>1 DEF Writing
  <2>2. CASE reg[s] # item.counter
    <3>1. conn'[s] = conn[s] /\ closed'[s] = closed[s]
      BY <1>2, <2>2
    <3>2. count'[reg[s]] = count[reg[s]]
      <4>1. reg[s] \in Counters /\ count[reg[s]] = Waiting(reg[s])
        BY PendingIsCounted DEF Relations, CountsExact
      <4> QED BY <1>3, <2>2, <4>1 DEF Waiting
    <3>3. ~Writing(reg[s])
      BY <1>1 DEF Writing
    <3> QED BY <1>1, <3>1, <3>2, <3>3 DEF Relations, ServedOrRestorable, NeedsRestore, InSession
  <2> QED BY <2>1, <2>2
<1> QED BY <1>4, <1>5, <1>7, <1>8, <1>9, <1>10 DEF Relations

LEMMA SendKeeps ==
    ASSUME TypeOK, Relations, SendWsMsg
    PROVE  Relations'
<1>1. /\ UNCHANGED <<connected, success, serve, reg, conn, closed, queue, count, target>>
      /\ stage = "started" /\ stage' = "idle" /\ item \in Item /\ serve = "running"
      /\ Registered' = Registered /\ inbox \in Seq(Frame)
  BY DEF SendWsMsg, link, registry, outbound, users, TypeOK, Registered
<1>2. \A s \in Subs : Unread(s) => Unread(s)'
  <2>1. CASE inbox' = inbox
    BY <2>1 DEF Unread
  <2>2. ASSUME NEW f \in Frame, inbox' = Append(inbox, f) PROVE \A s \in Subs : Unread(s) => Unread(s)'
    <3>1. \A i \in DOMAIN inbox : i \in DOMAIN inbox' /\ inbox'[i] = inbox[i]
      BY <1>1, <2>2
    <3> QED BY <3>1 DEF Unread
  <2>3. item.type = "REQ" => item.id \in Subs
    BY <1>1, Messages
  <2>4. CASE item.type = "REQ" /\ inbox' = Append(inbox, Closed(item.id, "auth-required"))
    BY <2>2, <2>3, <2>4, Answers
  <2>5. CASE inbox' = Append(inbox, Answer("OK"))
    BY <2>2, <2>5, Answers
  <2> QED BY <2>1, <2>4, <2>5, Writes DEF peer
<1>3. CountsExact' /\ CountersAreOwn'
  BY <1>1 DEF Relations, CountsExact, Waiting, CountersAreOwn
<1>4. ClosesAreFollowed'
  BY <1>1 DEF Relations, ClosesAreFollowed, BeingSubscribed
<1>5. NextSessionIsQueued'
  BY <1>1 DEF Relations, NextSessionIsQueued, BeingSubscribed, HasReq
<1>6. ASSUME NEW s \in Registered, item.counter = reg[s] PROVE item.type = "REQ" /\ item.id = s
  <2>1. reg[s] # Nothing
    BY DEF Registered
  <2> QED BY <1>1, <1>6, <2>1, Messages DEF Relations, CountersAreOwn
<1>7. ASSUME NEW s \in Registered, item.counter = reg[s] PROVE s \in open' \/ Unread(s)'
  <2>1. item.type = "REQ" /\ item.id = s
    BY <1>6, <1>7
  <2>2. CASE open' = open \union {item.id}
    BY <2>1, <2>2
  <2>3. CASE inbox' = Append(inbox, Closed(item.id, "auth-required"))
    <3>1. Len(inbox) + 1 \in DOMAIN inbox' /\ inbox'[Len(inbox) + 1] = Closed(s, "auth-required")
      BY <1>1, <2>1, <2>3
    <3> QED BY <3>1 DEF Unread, Closed
  <2> QED BY <2>1, <2>2, <2>3, Writes
<1>8. OpenIsCurrent'
  <2> SUFFICES ASSUME NEW s \in Registered, s \in open' \ stray'
               PROVE  conn[s] >= success
    BY <1>1 DEF OpenIsCurrent, Writing
  <2>1. CASE item.counter = reg[s]
    BY <1>1, <2>1 DEF Relations, OpenIsCurrent, Writing
  <2>2. CASE s \in open' \ stray' /\ item.counter # reg[s]
    <3>1. s \in open \ stray
      <4>1. CASE /\ item.type = "REQ" /\ open' = open \union {item.id}
                 /\ stray' = IF item.counter \in {reg[item.id]} \ {Nothing}
                             THEN stray \ {item.id} ELSE stray \union {item.id}
        BY <2>2, <4>1
      <4>2. CASE open' = open \ {item.id} /\ stray' = stray \ {item.id}
        BY <2>2, <4>2
      <4>3. CASE open' = open /\ stray' = stray
        BY <2>2, <4>3
      <4> QED BY <4>1, <4>2, <4>3, Writes DEF peer
    <3> QED BY <3>1 DEF Relations, OpenIsCurrent
  <2> QED BY <2>1, <2>2
<1>9. ServedOrRestorable'
  <2> SUFFICES ASSUME NEW s \in Registered, ~BeingSubscribed(s)
               PROVE  \/ count[reg[s]] > 0
                      \/ NeedsRestore(s, IF InSession THEN success ELSE success + 1)
                      \/ s \in open'
                      \/ Unread(s)'
    BY <1>1 DEF ServedOrRestorable, BeingSubscribed, NeedsRestore, InSession
  <2>1. CASE s \in open /\ s \notin open'
    <3>1. item.type = "CLOSE" /\ item.id = s
      BY <2>1, Writes DEF peer
    <3>2. item = Close(s)
      BY <1>1, <3>1 DEF Item, Close
    <3>3. HasReq(s)
      BY <1>1, <3>2 DEF Relations, ClosesAreFollowed
    <3> QED BY <3>3, PendingIsCounted DEF Relations
  <2>2. CASE Writing(reg[s])
    BY <1>7, <2>2 DEF Writing
  <2>3. CASE ~Writing(reg[s]) /\ (s \notin open \/ s \in open')
    <3>1. s \in Subs
      BY DEF Registered
    <3> QED BY <1>2, <2>3, <3>1 DEF Relations, ServedOrRestorable
  <2> QED BY <2>1, <2>2, <2>3
<1> QED BY <1>3, <1>4, <1>5, <1>8, <1>9 DEF Relations

-----------------------------------------------------------------------------
(* The invariant                                                           *)

LEMMA InitRelated == Init => Relations
<1> SUFFICES ASSUME Init PROVE Relations
  OBVIOUS
<1>1. Registered = {} /\ queue = <<>> /\ stage = "idle" /\ count = [k \in Counters |-> 0]
  BY DEF Init, Registered
<1>2. CountsExact
  <2>1. \A k \in Counters : Carrying(<<>>, k) = 0
    <3> SUFFICES ASSUME NEW k \in Counters PROVE Carrying(<<>>, k) = 0
      OBVIOUS
    <3>1. Positions(<<>>, k) = {}
      BY DEF Positions
    <3> QED BY <3>1, CarryingIsCardinality, FS_EmptySet
  <2> QED BY <1>1, <2>1 DEF CountsExact, Waiting
<1> QED
  BY <1>1, <1>2
     DEF Relations, CountersAreOwn, ClosesAreFollowed, NextSessionIsQueued,
         OpenIsCurrent, ServedOrRestorable, Writing

LEMMA RelationsKept == TypeOK /\ Relations /\ [Next]_vars => Relations'
<1> SUFFICES ASSUME TypeOK, Relations, [Next]_vars PROVE Relations'
  OBVIOUS
<1>1. ASSUME CalmStep PROVE Relations'
  BY <1>1, CalmStepKeeps
<1>2. CASE CallerStep
  <2>1. ASSUME NEW c \in Callers, NEW s \in Subs, AddLongLivedSubscription(c, s) PROVE Relations'
    BY <2>1, AddKeeps
  <2>2. ASSUME NEW c \in Callers, NEW refused \in Refusals, QueueReq(c, refused) PROVE Relations'
    BY <2>2, QueueReqKeeps
  <2>3. ASSUME NEW c \in Callers, UndoSubscription(c) PROVE Relations'
    BY <2>3, <1>1, CallersCalm
  <2>4. ASSUME NEW s \in Subs, NEW refused \in Refusals, Unsubscribe(s, refused) PROVE Relations'
    BY <2>4, <1>1, CallersCalm
  <2>5. ASSUME NEW refused \in Refusals, UnsubscribeAll(refused) PROVE Relations'
    BY <2>5, <1>1, CallersCalm
  <2>6. ASSUME NEW s \in Subs, ReissueSubscription(s) PROVE Relations'
    BY <2>6, ReissueKeeps
  <2>7. CASE Publish
    BY <2>7, <1>1, CallersCalm
  <2> QED BY <1>2, <2>1, <2>2, <2>3, <2>4, <2>5, <2>6, <2>7 DEF CallerStep
<1>3. CASE SessionStep
  <2>1. CASE AcceptConnection
    BY <2>1, AcceptKeeps
  <2>2. CASE Disconnect \/ StartRestoring \/ StartHandlers \/ ScheduleReconnect
    BY <2>2, <1>1, SessionCalm
  <2>3. ASSUME NEW s \in Subs, NEW refused \in Refusals, RestoreNext(s, refused) PROVE Relations'
    BY <2>3, RestorationKeeps DEF RestoreNext
  <2>4. CASE SessionEnds
    BY <2>4, SessionEndsKeeps
  <2>5. CASE RecvClientMsg
    BY <2>5, RecvKeeps
  <2>6. CASE SubscriptionReqStarted
    BY <2>6, StartedKeeps
  <2>7. CASE SendWsMsg
    BY <2>7, SendKeeps
  <2>9. CASE HandleRelayMessage
    BY <2>9, <1>1, SessionCalm
  <2>10. ASSUME NEW refused \in Refusals, Authenticate(refused) PROVE Relations'
    BY <2>10, <1>1, CallersCalm
  <2>11. CASE AuthFails \/ StartRestoringAuthed \/ FinishRestoringAuthed
    BY <2>11, <1>1, SessionCalm
  <2>12. ASSUME NEW s \in Subs, NEW refused \in Refusals, RestoreAuthed(s, refused) PROVE Relations'
    BY <2>12, RestorationKeeps DEF RestoreAuthed
  <2> QED
    BY <1>3, <2>1, <2>2, <2>3, <2>4, <2>5, <2>6, <2>7, <2>9, <2>10, <2>11, <2>12
       DEF SessionStep
<1>4. ASSUME NEW s \in Subs, NEW reason \in CloseReasons, RelayCloses(s, reason) PROVE Relations'
  BY <1>4, <1>1, SessionCalm
<1>5. CASE UNCHANGED vars
  BY <1>5, <1>1, SessionCalm
<1> QED BY <1>2, <1>3, <1>4, <1>5 DEF Next

(* SubscriptionsInv is inductive.  It is what the queue, the registry, the  *)
(* sender and the relay's answers owe to each other: relay/inner.rs.        *)
THEOREM SubscriptionsInvariant == Spec => []SubscriptionsInv
<1>1. Init => TypeOK /\ Relations
  BY InitTyped, InitRelated
<1>2. (TypeOK /\ Relations) /\ [Next]_vars => (TypeOK /\ Relations)'
  BY TypesKept, RelationsKept
<1>3. TypeOK /\ Relations => SubscriptionsInv
  BY DEF SubscriptionsInv, Relations
<1> QED BY <1>1, <1>2, <1>3, PTL DEF Spec

(* Whatever way a REQ goes - started, refused by a full queue, dropped with *)
(* its session, left behind by an unsubscribe - the PendingReqCounter of    *)
(* its registration is the number of REQs that the sender has not started.  *)
THEOREM PendingIsExact == Spec => []PendingReqsCounted
<1>1. SubscriptionsInv => PendingReqsCounted
  BY DEF SubscriptionsInv, CountsExact, PendingReqsCounted
<1> QED BY <1>1, SubscriptionsInvariant, PTL

(* A registered subscription has a REQ counted or being written, is open,   *)
(* is about to learn that it is not, or is taken by the next restoration.   *)
THEOREM NoneIsForgotten == Spec => []ServedOrRestorable
<1>1. SubscriptionsInv => ServedOrRestorable
  BY DEF SubscriptionsInv
<1> QED BY <1>1, SubscriptionsInvariant, PTL

-----------------------------------------------------------------------------
(* Which steps queue a REQ                                                 *)

LEMMA AppendedReq ==
    ASSUME TypeOK, NEW s \in Subs, queue' = Append(queue, Req(s, reg[s]))
    PROVE  /\ queue \in Seq(Item) /\ Len(queue) \in Nat /\ Len(queue') = Len(queue) + 1
           /\ queue'[Len(queue) + 1].type = "REQ" /\ queue'[Len(queue) + 1].id = s
BY DEF TypeOK, Req

LEMMA NotAppended ==
    ASSUME TypeOK, NEW s \in Subs, queue' = Append(queue, Req(s, reg[s])), Next
    PROVE  \/ \E c \in Callers, refused \in Refusals : QueueReq(c, refused)
           \/ \E t \in Subs, refused \in Refusals : RestoreNext(t, refused) \/ RestoreAuthed(t, refused)
<1>1. /\ queue \in Seq(Item) /\ Len(queue) \in Nat /\ Len(queue') = Len(queue) + 1
      /\ queue'[Len(queue) + 1].type = "REQ"
  BY AppendedReq
<1>2. queue' # queue
  BY <1>1
<1>3. ASSUME NEW x \in Item, x.type # "REQ" PROVE queue' # Append(queue, x)
  BY <1>1, <1>3
<1>4. ASSUME NEW t \in Subs, NEW refused, Unsubscribe(t, refused) PROVE FALSE
  <2>1. queue' = IF ~refused /\ Room(1) THEN Append(queue, Close(t)) ELSE queue
    BY <1>4 DEF Unsubscribe
  <2>2. Close(t) \in Item /\ Close(t).type # "REQ"
    BY Messages DEF Close
  <2> QED BY <1>2, <1>3, <2>1, <2>2
<1>5. ASSUME NEW refused, UnsubscribeAll(refused) PROVE FALSE
  <2>1. PICK n \in 0..Capacity : \E order \in [1..n -> Registered] :
           queue' = queue \o [i \in 1..n |-> Close(order[i])]
    BY <1>5, Zenon DEF UnsubscribeAll
  <2>2. PICK order \in [1..n -> Registered] : queue' = queue \o [i \in 1..n |-> Close(order[i])]
    BY <2>1, Zenon
  <2> DEFINE r == [i \in 1..n |-> Close(order[i])]
  <2>3. n \in Nat /\ r \in Seq(Item) /\ Len(r) = n
    <3>1. \A i \in 1..n : Close(order[i]) \in Item
      BY Messages DEF Registered
    <3> QED BY <3>1, BoundsAssumption
  <2>4. \A i \in 1..n : r[i].type = "CLOSE"
    BY DEF Close
  <2> HIDE DEF r
  <2>5. queue' = queue \o r
    BY <2>2 DEF r
  <2>6. Len(queue') = Len(queue) + n
    BY <1>1, <2>3, <2>5
  <2>7. n = 1
    BY <1>1, <2>3, <2>6
  <2>8. queue'[Len(queue) + 1] = r[1]
    BY <1>1, <2>3, <2>5, <2>7
  <2> QED BY <1>1, <2>4, <2>7, <2>8
<1>6. ASSUME NEW t \in Subs, ReissueSubscription(t) PROVE FALSE
  <2>1. queue' = queue \o <<Close(t), Req(t, reg[t])>>
    BY <1>6 DEF ReissueSubscription, QueueBatch
  <2>2. Close(t) \in Item /\ Req(t, reg[t]) \in Item
    BY Messages DEF TypeOK
  <2>3. Len(queue') = Len(queue) + 2
    BY <1>1, <2>1, <2>2
  <2> QED BY <1>1, <2>3
<1>7. ASSUME Publish PROVE FALSE
  <2>1. Plain("EVENT") \in Item /\ Plain("EVENT").type # "REQ"
    BY Messages DEF Plain
  <2> QED BY <1>3, <1>7, <2>1 DEF Publish
<1>8. ASSUME NEW refused, Authenticate(refused) PROVE FALSE
  <2>1. Plain("AUTH") \in Item /\ Plain("AUTH").type # "REQ"
    BY Messages DEF Plain
  <2>2. CASE ~refused /\ Room(1)
    BY <1>3, <1>8, <2>1, <2>2 DEF Authenticate
  <2>3. CASE ~(~refused /\ Room(1))
    BY <1>2, <1>8, <2>3 DEF Authenticate
  <2> QED BY <2>2, <2>3
<1>9. ASSUME RecvClientMsg PROVE FALSE
  <2>1. queue # <<>> /\ queue' = Tail(queue)
    BY <1>9 DEF RecvClientMsg
  <2>2. Len(queue') = Len(queue) - 1
    BY <1>1, <2>1
  <2> QED BY <1>1, <2>2
<1> QED
  BY <1>2, <1>4, <1>5, <1>6, <1>7, <1>8, <1>9
     DEF Next, CallerStep, SessionStep, AddLongLivedSubscription, UndoSubscription,
         AcceptConnection, Disconnect, StartRestoring, StartHandlers, SessionEnds,
         ScheduleReconnect, SubscriptionReqStarted, SendWsMsg, HandleRelayMessage,
         AuthFails, StartRestoringAuthed, FinishRestoringAuthed, RelayCloses, outbound

LEMMA RestorationChecks ==
    ASSUME TypeOK, Relations, NEW s \in Registered, NEW t \in Subs, NEW refused,
           QueueResubscription(t, refused), queue' = Append(queue, Req(s, reg[s]))
    PROVE  Waiting(reg[s]) = 0 /\ (closed[s] \/ (s \notin open \ stray /\ ~Writing(reg[s])))
<1>1. s \in Subs /\ reg[s] \in Counters /\ count[reg[s]] = Waiting(reg[s])
  BY PendingIsCounted DEF Registered, Relations, CountsExact
<1>2. /\ queue \in Seq(Item) /\ Len(queue) \in Nat /\ Len(queue') = Len(queue) + 1
      /\ queue'[Len(queue) + 1].id = s
  BY <1>1, AppendedReq
<1>3. queue' # queue
  BY <1>2
<1>4. NeedsRestore(t, success) /\ queue' = Append(queue, Req(t, reg[t]))
  BY <1>3 DEF QueueResubscription, outbound
<1>5. queue'[Len(queue) + 1].id = t
  BY <1>4, AppendedReq
<1>6. NeedsRestore(s, success)
  BY <1>2, <1>4, <1>5
<1>7. count[reg[s]] = 0 /\ (closed[s] \/ success > conn[s])
  BY <1>6 DEF NeedsRestore
<1>8. conn[s] \in Nat /\ success \in Nat
  BY <1>1 DEF TypeOK
<1>9. success > conn[s] => s \notin open \ stray /\ ~Writing(reg[s])
  BY <1>8 DEF Relations, OpenIsCurrent
<1> QED BY <1>1, <1>7, <1>9

(* queue_resubscription, before the sender runs or next to it, queues no    *)
(* REQ for a subscription that has one queued or taken, and only after a    *)
(* CLOSED for one that is known to be open or whose REQ is being written.   *)
THEOREM RestorationSparesServed == Spec => RestorationIsNeeded
<1>1. ASSUME TypeOK, Relations, [Next]_vars, NEW s \in Registered,
             queue' = Append(queue, Req(s, reg[s])), UNCHANGED pc
      PROVE  Waiting(reg[s]) = 0 /\ (closed[s] \/ (s \notin open \ stray /\ ~Writing(reg[s])))
  <2>1. s \in Subs
    BY DEF Registered
  <2>2. CASE UNCHANGED vars
    <3>1. Len(queue') = Len(queue) + 1 /\ Len(queue) \in Nat
      BY <1>1, <2>1, AppendedReq
    <3> QED BY <2>2, <3>1 DEF vars
  <2>3. ASSUME NEW c \in Callers, NEW refused, QueueReq(c, refused) PROVE FALSE
    <3>1. pc[c] = "added" /\ pc'[c] # "added"
      BY <1>1, <2>3 DEF QueueReq, TypeOK
    <3> QED BY <1>1, <3>1
  <2>4. ASSUME NEW t \in Subs, NEW refused, RestoreNext(t, refused) \/ RestoreAuthed(t, refused)
        PROVE  Waiting(reg[s]) = 0 /\ (closed[s] \/ (s \notin open \ stray /\ ~Writing(reg[s])))
    <3>1. QueueResubscription(t, refused)
      BY <2>4 DEF RestoreNext, RestoreAuthed
    <3> QED BY <1>1, <3>1, RestorationChecks
  <2> QED BY <1>1, <2>1, <2>2, <2>3, <2>4, NotAppended
<1>2. SubscriptionsInv /\ [Next]_vars
         => [\A s \in Registered :
                queue' = Append(queue, Req(s, reg[s])) /\ UNCHANGED pc
                   => /\ Waiting(reg[s]) = 0
                      /\ closed[s] \/ (s \notin open \ stray /\ ~Writing(reg[s]))]_vars
  BY <1>1 DEF SubscriptionsInv, Relations
<1> QED BY <1>2, SubscriptionsInvariant, PTL DEF Spec, RestorationIsNeeded
=============================================================================
