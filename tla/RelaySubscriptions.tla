------------------------- MODULE RelaySubscriptions -------------------------
(***************************************************************************)
(* The long-lived subscriptions of one relay (nostr-sdk/src/relay/inner.rs)*)
(* and the outbound queue their REQ and CLOSE frames wait in: callers that *)
(* subscribe, unsubscribe and reissue, the restoration after a reconnect   *)
(* and after an authentication, the sender and the receiver of the         *)
(* WebSocket session, and the relay at the other end.                      *)
(*                                                                         *)
(* One action is one critical section of the subscriptions lock, or one    *)
(* step of a task between two awaits.  A frame reaches the relay when it   *)
(* is written, and the relay's answers wait in order until they are read.  *)
(* The queue outlives the session: what was not dequeued when a session    *)
(* ends is sent on the next one.  The relay has the READ capability.       *)
(* Auto-closing subscriptions, EOSE and event counts are left out.         *)
(***************************************************************************)
EXTENDS Naturals, Sequences, FiniteSets

CONSTANTS
    Subs,           \* subscription IDs
    Callers,        \* tasks inside Relay::subscribe
    Counters,       \* PendingReqCounter allocations (Arc)
    Nothing,        \* Option::None
    Capacity,       \* size of the outbound queue
    Authenticator,  \* an authenticator is configured
    AuthRelay,      \* the relay serves a REQ only after an authentication
    CloseReasons,   \* with which it closes open subscriptions by itself
    Trouble,        \* ensure_operational and authentications may fail
    \* Bounds of the model: sessions, unread answers, and the queue length up
    \* to which callers other than subscribe queue messages.
    MaxSessions, MaxInbox, CallerRoom

ASSUME NothingAssumption == Nothing \notin Subs \union Counters
ASSUME BoundsAssumption ==
    Capacity \in Nat \ {0} /\ MaxSessions \in Nat /\ MaxInbox \in Nat /\ CallerRoom \in Nat
ASSUME FlagsAssumption ==
    /\ Authenticator \in BOOLEAN /\ AuthRelay \in BOOLEAN /\ Trouble \in BOOLEAN
    /\ CloseReasons \subseteq {"rate-limited", "blocked"}

VARIABLES
    connected,      \* the status is Connected
    success,        \* stats.success(): the number of the latest session
    serve,          \* connect_and_run after the dial
    \* AtomicRelay::subscriptions: the counter of each registered ID, the
    \* session that sends its latest REQ, and whether it counts as closed
    reg, conn, closed,
    queue, count,   \* the outbound queue; the value of each counter
    stage, item,    \* sender_message_handler and the item it holds
    todo,           \* IDs post_connection still has to restore
    challenge, ing, redo,   \* the ingester, and the IDs it has to restore
    pc, target,     \* callers of subscribe
    \* the relay: the IDs open on this session, those opened by a REQ that the
    \* registry did not count, whether it has authenticated us, its answers
    open, stray, authed, inbox

link     == <<connected, success, serve>>
registry == <<reg, conn, closed>>
outbound == <<queue, count>>
sender   == <<stage, item>>
ingester == <<challenge, ing, redo>>
users    == <<pc, target>>
peer     == <<open, stray, authed, inbox>>
vars     == <<connected, success, serve, reg, conn, closed, queue, count, stage,
              item, todo, challenge, ing, redo, pc, target, open, stray, authed, inbox>>

-----------------------------------------------------------------------------
(* Data                                                                    *)

\* A queued message; a REQ of a registered subscription carries its counter.
Item == [type : {"REQ"}, id : Subs, counter : Counters \union {Nothing}]
          \union [type : {"CLOSE"}, id : Subs, counter : {Nothing}]
          \union [type : {"AUTH", "EVENT"}, id : {Nothing}, counter : {Nothing}]

ASSUME ItemAssumption == Nothing \notin Item

Req(s, k)   == [type |-> "REQ",   id |-> s, counter |-> k]
Close(s)    == [type |-> "CLOSE", id |-> s, counter |-> Nothing]
Plain(type) == [type |-> type, id |-> Nothing, counter |-> Nothing]

\* An answer of the relay; "auth-required" is the prefix of a CLOSED.
Frame == [type : {"AUTH", "OK"}, id : {Nothing}, reason : {Nothing}]
           \union [type : {"CLOSED"}, id : Subs,
                   reason : {"auth-required", "rate-limited", "blocked"}]

Answer(type)      == [type |-> type, id |-> Nothing, reason |-> Nothing]
Closed(s, reason) == [type |-> "CLOSED", id |-> s, reason |-> reason]

\* The session's handlers exist.
InSession == serve \in {"accepted", "restoring", "running"}

TypeOK ==
    /\ connected \in BOOLEAN /\ success \in 0..MaxSessions
    /\ serve \in {"down", "accepted", "restoring", "running", "closing"}
    /\ reg \in [Subs -> Counters \union {Nothing}]
    /\ conn \in [Subs -> 0..(MaxSessions + 1)]
    /\ closed \in [Subs -> BOOLEAN]
    /\ queue \in Seq(Item) /\ Len(queue) <= Capacity
    /\ count \in [Counters -> Nat]
    /\ stage \in {"idle", "taken", "started"}
    /\ item \in Item \union {Nothing} /\ (item = Nothing <=> stage = "idle")
    /\ todo \subseteq Subs /\ redo \subseteq Subs
    /\ challenge \in BOOLEAN
    /\ ing \in {"idle", "waiting", "authenticated", "restoring"}
    /\ pc \in [Callers -> {"ready", "added", "undo"}]
    /\ target \in [Callers -> Subs \union {Nothing}]
    /\ open \subseteq Subs /\ stray \subseteq open /\ authed \in BOOLEAN
    /\ inbox \in Seq(Frame)
    /\ \A c \in Callers : target[c] = Nothing <=> pc[c] = "ready"
    /\ \A s \in Subs : reg[s] = Nothing => conn[s] = 0 /\ ~closed[s]
    /\ stage # "idle" \/ ing # "idle" => serve = "running"

Init ==
    /\ connected = FALSE /\ success = 0 /\ serve = "down"
    /\ reg = [s \in Subs |-> Nothing]
    /\ conn = [s \in Subs |-> 0] /\ closed = [s \in Subs |-> FALSE]
    /\ queue = <<>> /\ count = [k \in Counters |-> 0]
    /\ stage = "idle" /\ item = Nothing
    /\ todo = {} /\ challenge = FALSE /\ ing = "idle" /\ redo = {}
    /\ pc = [c \in Callers |-> "ready"] /\ target = [c \in Callers |-> Nothing]
    /\ open = {} /\ stray = {} /\ authed = FALSE /\ inbox = <<>>

-----------------------------------------------------------------------------
(* Helpers                                                                 *)

Registered == {s \in Subs : reg[s] # Nothing}

\* Whether the channel can take n more messages.
Room(n) == Len(queue) + n <= Capacity

\* ensure_operational refuses (success rate or latency).
Refusals == IF Trouble THEN BOOLEAN ELSE {FALSE}

\* PendingReqCounter::track
Track(k) == IF k = Nothing THEN count ELSE [count EXCEPT ![k] = @ + 1]

\* A PendingReq is dropped: a saturating decrement.
Untrack(k) ==
    IF k = Nothing \/ count[k] = 0 THEN count ELSE [count EXCEPT ![k] = @ - 1]

\* Somebody holds the Arc of the counter, or its REQ is being written: until
\* then its name in the model stands for the registration of that REQ.
Held(k) == \/ \E s \in Subs : reg[s] = k
           \/ \E i \in DOMAIN queue : queue[i].counter = k
           \/ stage # "idle" /\ item.counter = k

\* delivery_connection: the session that writes a message queued now.
DeliveryConnection == IF connected THEN success ELSE success + 1

\* mutant: a queued REQ does not hold the restoration back
NeedsRestore_Pending(s, current) ==
    reg[s] # Nothing /\ (closed[s] \/ current > conn[s])

\* SubscriptionData::needs_restore
NeedsRestore(s, current) ==
    reg[s] # Nothing /\ count[reg[s]] = 0 /\ (closed[s] \/ current > conn[s])

\* The registration of s is dropped.
Forget(ids) ==
    /\ reg' = [s \in Subs |-> IF s \in ids THEN Nothing ELSE reg[s]]
    /\ conn' = [s \in Subs |-> IF s \in ids THEN 0 ELSE conn[s]]
    /\ closed' = [s \in Subs |-> s \notin ids /\ closed[s]]

-----------------------------------------------------------------------------
(* Callers                                                                 *)

\* subscribe_long_lived: a new registration, under the lock ...
AddLongLivedSubscription(c, s) ==
    /\ pc[c] = "ready" /\ reg[s] = Nothing
    /\ \E k \in Counters : /\ ~Held(k)
                           /\ reg' = [reg EXCEPT ![s] = k]
    /\ conn' = [conn EXCEPT ![s] = DeliveryConnection]
    /\ pc' = [pc EXCEPT ![c] = "added"]
    /\ target' = [target EXCEPT ![c] = s]
    /\ UNCHANGED <<link, closed, outbound, sender, todo, ingester, peer>>

\* mutant: the REQ is queued without its PendingReq when the queue is full
QueueReq_Leaks(c, refused) ==
    /\ pc[c] = "added"
    /\ LET s == target[c] IN
       /\ count' = IF refused THEN count ELSE Track(reg[s])
       /\ IF ~refused /\ Room(1)
          THEN /\ queue' = Append(queue, Req(s, reg[s]))
               /\ pc' = [pc EXCEPT ![c] = "ready"]
               /\ target' = [target EXCEPT ![c] = Nothing]
          ELSE /\ pc' = [pc EXCEPT ![c] = "undo"]
               /\ UNCHANGED <<queue, target>>
    /\ UNCHANGED <<link, registry, sender, todo, ingester, peer>>

\* ... then send_msg, whose queue_msg takes the lock again: the REQ is tracked
\* with whatever registration has the ID by then ...
QueueReq(c, refused) ==
    /\ pc[c] = "added"
    /\ LET s == target[c] IN
       IF ~refused /\ Room(1)
       THEN /\ queue' = Append(queue, Req(s, reg[s]))
            /\ count' = Track(reg[s])
            /\ pc' = [pc EXCEPT ![c] = "ready"]
            /\ target' = [target EXCEPT ![c] = Nothing]
       ELSE /\ pc' = [pc EXCEPT ![c] = "undo"]
            /\ UNCHANGED <<outbound, target>>
    /\ UNCHANGED <<link, registry, sender, todo, ingester, peer>>

\* ... and, after an error, the ID is removed in a third critical section.
UndoSubscription(c) ==
    /\ pc[c] = "undo"
    /\ Forget({target[c]})
    /\ pc' = [pc EXCEPT ![c] = "ready"]
    /\ target' = [target EXCEPT ![c] = Nothing]
    /\ UNCHANGED <<link, outbound, sender, todo, ingester, peer>>

\* unsubscribe: the registration goes first, the CLOSE may fail.
Unsubscribe(s, refused) ==
    /\ s \in Registered
    /\ Len(queue) < CallerRoom
    /\ Forget({s})
    /\ queue' = IF ~refused /\ Room(1) THEN Append(queue, Close(s)) ELSE queue
    /\ UNCHANGED <<link, count, sender, todo, ingester, users, peer>>

\* unsubscribe_all, under one lock: IDs are visited in the order of a hash
\* map, and the first one whose CLOSE cannot be queued is the last visited.
UnsubscribeAll(refused) ==
    /\ Registered # {} /\ Len(queue) < CallerRoom
    /\ \E n \in 0..Capacity :
       \E order \in [1..n -> Registered] :
         /\ \A i, j \in 1..n : order[i] = order[j] => i = j
         /\ queue' = queue \o [i \in 1..n |-> Close(order[i])]
         /\ Len(queue') <= Capacity
         /\ refused => n = 0
         /\ LET done == {order[i] : i \in 1..n} IN
            IF done = Registered
            THEN Forget(done)
            ELSE /\ refused \/ ~Room(n + 1)
                 /\ \E s \in Registered \ done : Forget(done \union {s})
    /\ UNCHANGED <<link, count, sender, todo, ingester, users, peer>>

\* send_client_msgs: the messages in order, or none of them.
QueueBatch(s) ==
    /\ Len(queue) + 2 <= CallerRoom /\ Room(2)
    /\ queue' = queue \o <<Close(s), Req(s, reg[s])>>
    /\ count' = Track(reg[s])
    /\ UNCHANGED <<link, registry, sender, todo, ingester, users, peer>>

\* mutant: the CLOSE is queued even when the REQ does not fit
ReissueSubscription_Partial(s) ==
    /\ s \in Registered
    /\ \/ QueueBatch(s)
       \/ /\ Len(queue) < CallerRoom /\ Room(1) /\ ~Room(2)
          /\ queue' = Append(queue, Close(s))
          /\ UNCHANGED <<link, count, registry, sender, todo, ingester, users, peer>>

\* reissue_subscription, and send_msg_batch with the same two messages.
ReissueSubscription(s) == s \in Registered /\ QueueBatch(s)

\* send_msg with an event.
Publish ==
    /\ Len(queue) < CallerRoom /\ Room(1)
    /\ queue' = Append(queue, Plain("EVENT"))
    /\ UNCHANGED <<link, registry, count, sender, todo, ingester, users, peer>>

-----------------------------------------------------------------------------
(* The session                                                             *)

\* accept_connection: success and status change under the connection mutex.
AcceptConnection ==
    /\ serve = "down" /\ success < MaxSessions
    /\ connected' = TRUE /\ success' = success + 1 /\ serve' = "accepted"
    /\ open' = {} /\ stray' = {} /\ authed' = FALSE
    /\ inbox' = IF AuthRelay THEN <<Answer("AUTH")>> ELSE <<>>
    /\ UNCHANGED <<registry, outbound, sender, todo, ingester, users>>

\* The caller disconnects, or the relay goes to sleep: the session's task
\* learns it later.
Disconnect ==
    /\ connected
    /\ connected' = FALSE
    /\ UNCHANGED <<success, serve, registry, outbound, sender, todo, ingester, users, peer>>

\* resubscribe takes a snapshot of the IDs ...
StartRestoring ==
    /\ serve = "accepted"
    /\ serve' = "restoring" /\ todo' = Registered
    /\ UNCHANGED <<connected, success, registry, outbound, sender, ingester, users, peer>>

\* mutant: a REQ that could not be queued is not kept restorable
QueueResubscription_Forgets(s, refused) ==
    IF ~NeedsRestore(s, success)
    THEN UNCHANGED <<registry, outbound>>
    ELSE /\ conn' = [conn EXCEPT ![s] = success]
         /\ closed' = [closed EXCEPT ![s] = FALSE]
         /\ IF ~refused /\ Room(1)
            THEN /\ queue' = Append(queue, Req(s, reg[s]))
                 /\ count' = Track(reg[s])
            ELSE UNCHANGED outbound
         /\ UNCHANGED reg

\* queue_resubscription, under the lock.  (What the order of the ID's hash
\* map decides, the order of the steps decides here.)
QueueResubscription(s, refused) ==
    IF ~NeedsRestore(s, success)
    THEN UNCHANGED <<registry, outbound>>
    ELSE /\ conn' = [conn EXCEPT ![s] = success]
         /\ IF ~refused /\ Room(1)
            THEN /\ queue' = Append(queue, Req(s, reg[s]))
                 /\ count' = Track(reg[s])
                 /\ closed' = [closed EXCEPT ![s] = FALSE]
            ELSE /\ closed' = [closed EXCEPT ![s] = TRUE]
                 /\ UNCHANGED outbound
         /\ UNCHANGED reg

\* The restoration of s fails: resubscribe stops with an error.
RestorationFails(s, refused) == NeedsRestore(s, success) /\ (refused \/ ~Room(1))

\* ... and visits them one by one, before the sender handler exists.
RestoreNext(s, refused) ==
    /\ serve = "restoring" /\ s \in todo
    /\ QueueResubscription(s, refused)
    /\ todo' = IF RestorationFails(s, refused) THEN {} ELSE todo \ {s}
    /\ UNCHANGED <<link, sender, ingester, users, peer>>

StartHandlers ==
    /\ serve = "restoring" /\ todo = {}
    /\ serve' = "running"
    /\ UNCHANGED <<connected, success, registry, outbound, sender, todo, ingester, users, peer>>

\* mutant: the item of a cancelled sender stays counted
SessionEnds_Leaks ==
    /\ InSession
    /\ serve' = "closing"
    /\ stage' = "idle" /\ item' = Nothing
    /\ todo' = {} /\ challenge' = FALSE /\ ing' = "idle" /\ redo' = {}
    /\ open' = {} /\ stray' = {} /\ authed' = FALSE /\ inbox' = <<>>
    /\ UNCHANGED <<connected, success, registry, outbound, users>>

\* mutant: the sender's item survives its session
SessionEnds_KeepsItem ==
    /\ InSession
    /\ serve' = "closing"
    /\ todo' = {} /\ challenge' = FALSE /\ ing' = "idle" /\ redo' = {}
    /\ open' = {} /\ stray' = {} /\ authed' = FALSE /\ inbox' = <<>>
    /\ UNCHANGED <<connected, success, registry, outbound, sender, users>>

\* The peer closes, a frame cannot be sent or the attempt was taken away: the
\* handlers are dropped, and with them the PendingReq the sender still holds.
SessionEnds ==
    /\ InSession
    /\ serve' = "closing"
    /\ count' = IF stage = "taken" THEN Untrack(item.counter) ELSE count
    /\ stage' = "idle" /\ item' = Nothing
    /\ todo' = {} /\ challenge' = FALSE /\ ing' = "idle" /\ redo' = {}
    /\ open' = {} /\ stray' = {} /\ authed' = FALSE /\ inbox' = <<>>
    /\ UNCHANGED <<connected, success, registry, queue, users>>

\* close_ws ends, then schedule_reconnect.
ScheduleReconnect ==
    /\ serve = "closing"
    /\ serve' = "down" /\ connected' = FALSE
    /\ UNCHANGED <<success, registry, outbound, sender, todo, ingester, users, peer>>

-----------------------------------------------------------------------------
(* The sender                                                              *)

\* recv_client_msg, under the connection mutex.
RecvClientMsg ==
    /\ serve = "running" /\ stage = "idle" /\ connected /\ queue # <<>>
    /\ item' = Head(queue) /\ queue' = Tail(queue)
    /\ stage' = "taken"
    /\ UNCHANGED <<link, registry, count, todo, ingester, users, peer>>

\* mutant: the session that sends the REQ is not recorded
SubscriptionReqStarted_KeepsSession ==
    /\ stage = "taken"
    /\ stage' = "started"
    /\ closed' = [s \in Subs |->
                    closed[s] /\ ~(item.type = "REQ" /\ item.counter # Nothing
                                     /\ reg[s] = item.counter)]
    /\ count' = Untrack(item.counter)
    /\ UNCHANGED <<link, reg, conn, queue, item, todo, ingester, users, peer>>

\* subscription_req_started, for the registration the REQ was tracked with;
\* the PendingReq is dropped behind it, before the frame is written.
SubscriptionReqStarted ==
    /\ stage = "taken"
    /\ stage' = "started"
    /\ LET mine(s) == item.type = "REQ" /\ item.counter # Nothing /\ reg[s] = item.counter IN
       /\ conn' = [s \in Subs |-> IF mine(s) THEN success ELSE conn[s]]
       /\ closed' = [s \in Subs |-> closed[s] /\ ~mine(s)]
    /\ count' = Untrack(item.counter)
    /\ UNCHANGED <<link, reg, queue, item, todo, ingester, users, peer>>

\* send_ws_msg returns: the frame is on the wire, and the relay answers it.
\* While it waits, the receiver and the ingester go on.
SendWsMsg ==
    /\ stage = "started" /\ Len(inbox) < MaxInbox
    /\ stage' = "idle" /\ item' = Nothing
    /\ CASE item.type = "REQ" /\ (~AuthRelay \/ authed) ->
              /\ open' = open \union {item.id}
              /\ stray' = IF item.counter \in {reg[item.id]} \ {Nothing}
                          THEN stray \ {item.id} ELSE stray \union {item.id}
              /\ UNCHANGED <<authed, inbox>>
         [] item.type = "REQ" /\ AuthRelay /\ ~authed ->
              /\ inbox' = Append(inbox, Closed(item.id, "auth-required"))
              /\ UNCHANGED <<open, stray, authed>>
         [] item.type = "CLOSE" ->
              /\ open' = open \ {item.id} /\ stray' = stray \ {item.id}
              /\ UNCHANGED <<authed, inbox>>
         [] item.type = "AUTH" ->
              /\ authed' = TRUE /\ inbox' = Append(inbox, Answer("OK"))
              /\ UNCHANGED <<open, stray>>
         [] OTHER -> UNCHANGED peer
    /\ UNCHANGED <<link, registry, outbound, todo, ingester, users>>

\* The relay closes a subscription by itself.
RelayCloses(s, reason) ==
    /\ s \in open /\ Len(inbox) < MaxInbox
    /\ open' = open \ {s} /\ stray' = stray \ {s}
    /\ inbox' = Append(inbox, Closed(s, reason))
    /\ UNCHANGED <<link, registry, outbound, sender, todo, ingester, users, authed>>

-----------------------------------------------------------------------------
(* The receiver and the ingester                                           *)

\* CLOSED: the subscription is kept to be restored, or removed.
KeptByClosed(reason) ==
    reason = "rate-limited" \/ (reason = "auth-required" /\ Authenticator)

\* mutant: an auth-required CLOSED is ignored
HandleRelayMessage_IgnoresClosed ==
    /\ serve = "running" /\ inbox # <<>>
    /\ inbox' = Tail(inbox)
    /\ LET f == Head(inbox) IN
       /\ challenge' = (challenge \/ (f.type = "AUTH" /\ Authenticator))
       /\ ing' = IF f.type = "OK" /\ ing = "waiting" THEN "authenticated" ELSE ing
    /\ UNCHANGED <<link, registry, outbound, sender, todo, redo, users, open, stray, authed>>

\* receiver_message_handler: the next answer of the relay.
HandleRelayMessage ==
    /\ serve = "running" /\ inbox # <<>>
    /\ inbox' = Tail(inbox)
    /\ LET f == Head(inbox) IN
       /\ IF f.type # "CLOSED" THEN UNCHANGED registry
          ELSE IF KeptByClosed(f.reason)
          THEN /\ closed' = [closed EXCEPT ![f.id] = reg[f.id] # Nothing]
               /\ UNCHANGED <<reg, conn>>
          ELSE Forget({f.id})
       /\ challenge' = (challenge \/ (f.type = "AUTH" /\ Authenticator))
       /\ ing' = IF f.type = "OK" /\ ing = "waiting" THEN "authenticated" ELSE ing
    /\ UNCHANGED <<link, outbound, sender, todo, redo, users, open, stray, authed>>

\* The ingester takes the challenge and queues the AUTH event, or fails.
Authenticate(refused) ==
    /\ serve = "running" /\ ing = "idle" /\ challenge
    /\ challenge' = FALSE
    /\ IF ~refused /\ Room(1)
       THEN queue' = Append(queue, Plain("AUTH")) /\ ing' = "waiting"
       ELSE UNCHANGED <<queue, ing>>
    /\ UNCHANGED <<link, registry, count, sender, todo, redo, users, peer>>

\* wait_for_ok times out, or the relay refuses the event.
AuthFails ==
    /\ Trouble /\ ing = "waiting"
    /\ ing' = "idle"
    /\ UNCHANGED <<link, registry, outbound, sender, todo, challenge, redo, users, peer>>

\* resubscribe again, next to the sender and the receiver.
StartRestoringAuthed ==
    /\ ing = "authenticated"
    /\ ing' = "restoring" /\ redo' = Registered
    /\ UNCHANGED <<link, registry, outbound, sender, todo, challenge, users, peer>>

RestoreAuthed(s, refused) ==
    /\ ing = "restoring" /\ s \in redo
    /\ QueueResubscription(s, refused)
    /\ redo' = IF RestorationFails(s, refused) THEN {} ELSE redo \ {s}
    /\ UNCHANGED <<link, sender, todo, challenge, ing, users, peer>>

FinishRestoringAuthed ==
    /\ ing = "restoring" /\ redo = {}
    /\ ing' = "idle"
    /\ UNCHANGED <<link, registry, outbound, sender, todo, challenge, redo, users, peer>>

-----------------------------------------------------------------------------

CallerStep ==
    \/ \E c \in Callers, s \in Subs : AddLongLivedSubscription(c, s)
    \/ \E c \in Callers, refused \in Refusals : QueueReq(c, refused)
    \/ \E c \in Callers : UndoSubscription(c)
    \/ \E s \in Subs, refused \in Refusals : Unsubscribe(s, refused)
    \/ \E refused \in Refusals : UnsubscribeAll(refused)
    \/ \E s \in Subs : ReissueSubscription(s)
    \/ Publish

SessionStep ==
    \/ AcceptConnection \/ Disconnect \/ StartRestoring \/ StartHandlers
    \/ \E s \in Subs, refused \in Refusals : RestoreNext(s, refused)
    \/ SessionEnds \/ ScheduleReconnect
    \/ RecvClientMsg \/ SubscriptionReqStarted \/ SendWsMsg
    \/ HandleRelayMessage
    \/ \E refused \in Refusals : Authenticate(refused)
    \/ AuthFails \/ StartRestoringAuthed \/ FinishRestoringAuthed
    \/ \E s \in Subs, refused \in Refusals : RestoreAuthed(s, refused)

Next ==
    \/ CallerStep
    \/ SessionStep
    \/ \E s \in Subs, reason \in CloseReasons : RelayCloses(s, reason)

(***************************************************************************)
(* Ready tasks are polled, and frames that arrived are read.  Nothing      *)
(* makes a session start or end, or a caller do anything but return from   *)
(* the subscribe it is in.                                                 *)
(***************************************************************************)
Fairness ==
    /\ WF_vars(StartRestoring) /\ WF_vars(StartHandlers)
    /\ WF_vars(\E s \in Subs, refused \in Refusals : RestoreNext(s, refused))
    /\ WF_vars(RecvClientMsg) /\ WF_vars(SubscriptionReqStarted)
    /\ WF_vars(SendWsMsg) /\ WF_vars(HandleRelayMessage)
    /\ WF_vars(\E refused \in Refusals : Authenticate(refused))
    /\ WF_vars(StartRestoringAuthed) /\ WF_vars(FinishRestoringAuthed)
    /\ WF_vars(\E s \in Subs, refused \in Refusals : RestoreAuthed(s, refused))
    /\ \A c \in Callers : WF_vars(\E refused \in Refusals : QueueReq(c, refused))

Spec     == Init /\ [][Next]_vars
FairSpec == Spec /\ Fairness

-----------------------------------------------------------------------------
(* Properties                                                              *)

\* How many messages of a queue carry the counter.
Carrying(q, k) == Cardinality({i \in DOMAIN q : q[i].counter = k})

\* REQs of the registration that are queued or taken by the sender.
Waiting(k) == Carrying(queue, k) + (IF stage = "taken" /\ item.counter = k THEN 1 ELSE 0)

\* A REQ of the registration is being written; it is not counted any more.
Writing(k) == stage = "started" /\ item.counter = k

(* A counter is exactly the number of REQs that still hold a PendingReq,   *)
(* whatever way they go: started, cancelled with the session, refused by a *)
(* full queue, left behind by an unsubscribe.  A leak would exclude the    *)
(* subscription from every later restoration.                              *)
PendingReqsCounted == TypeOK /\ \A k \in Counters : Held(k) => count[k] = Waiting(k)

\* A caller has registered s and not queued its REQ yet.
BeingSubscribed(s) == \E c \in Callers : target[c] = s

\* The relay's answer to s has not been read.
Unread(s) == \E i \in DOMAIN inbox : inbox[i].id = s

(* No subscription falls through the cracks: a registered one has its REQ  *)
(* counted or being written, is open on this session (or about to be told  *)
(* it is not), or the next restoration will take it.                       *)
ServedOrRestorable ==
    \A s \in Registered : ~BeingSubscribed(s) =>
        \/ count[reg[s]] > 0
        \/ Writing(reg[s])
        \/ NeedsRestore(s, IF InSession THEN success ELSE success + 1)
        \/ serve = "running" /\ s \in open
        \/ InSession /\ Unread(s)

(* "Restoration on reconnect doesn't send another REQ while it's queued":  *)
(* neither restoration, in any interleaving with the sender, queues a REQ  *)
(* for a subscription with a REQ queued or taken; for one whose REQ is     *)
(* being written or is known to be open, only if a CLOSED has come since   *)
(* the REQ was started.  An ID that was opened by a REQ queued while it was *)
(* unsubscribed is not known to be open: the REQ carried no counter.       *)
RestorationIsNeeded ==
    [][\A s \in Registered :
          queue' = Append(queue, Req(s, reg[s])) /\ UNCHANGED pc
             => /\ Waiting(reg[s]) = 0
                /\ closed[s] \/ (s \notin open \ stray /\ ~Writing(reg[s]))]_vars

(* Once a session runs, every subscription is opened on it, in spite of    *)
(* reconnects, of REQs left in the queue and of an authentication that has *)
(* to come first, unless the session or the subscription ends.             *)
EverySubscriptionServed ==
    \A s \in Subs :
        (serve = "running" /\ s \in Registered)
           ~> (s \in open \/ s \notin Registered \/ serve # "running" \/ ~connected)

(* "The relay must never receive a REQ for an ID it still has open."       *)
NoDuplicateReq ==
    [][stage = "started" /\ stage' = "idle" /\ serve' = "running" /\ item.type = "REQ"
          => item.id \notin open]_vars

(* "Its REQ is sent again the next time subscriptions are restored, after  *)
(* a reconnection": the restoration leaves no subscription behind.         *)
RestoredAfterReconnect ==
    [][serve = "restoring" /\ serve' = "running"
          => \A s \in Registered : ~BeingSubscribed(s) => ~NeedsRestore(s, success)]_vars

-----------------------------------------------------------------------------
(* What the proofs need to know besides: the parts of the inductive        *)
(* invariant (RelaySubscriptionsProofs).                                   *)

\* Also a counter that nobody holds any more is zero, so it can be reused.
CountsExact == \A k \in Counters : count[k] = Waiting(k)

\* A REQ of s is queued with the counter of its registration.
HasReq(s) == \E j \in DOMAIN queue : queue[j].counter = reg[s]

\* A counter belongs to one ID, also on the REQs that carry it.
CountersAreOwn ==
    \A s \in Registered :
        /\ \A t \in Subs : reg[t] = reg[s] => t = s
        /\ \A i \in DOMAIN queue : queue[i].counter = reg[s] => queue[i].id = s
        /\ stage # "idle" /\ item.counter = reg[s] => item.id = s

\* A CLOSE of a registered ID has a REQ of the registration behind it.
ClosesAreFollowed ==
    \A s \in Registered : ~BeingSubscribed(s) =>
        /\ \A i \in DOMAIN queue : queue[i] = Close(s) =>
              \E j \in DOMAIN queue : j > i /\ queue[j].counter = reg[s]
        /\ stage \in {"taken", "started"} /\ item = Close(s) => HasReq(s)

\* Only who registers while there is no connection counts on the next one,
\* and his REQ stays in the queue until then.
NextSessionIsQueued ==
    \A s \in Registered : conn[s] > success =>
        /\ conn[s] = success + 1 /\ ~connected
        /\ BeingSubscribed(s) \/ HasReq(s)

\* An ID that is known to be open, or about to be, counts as sent.
OpenIsCurrent ==
    \A s \in Registered :
        \/ s \in open \ stray
        \/ Writing(reg[s])
        => conn[s] >= success

SubscriptionsInv ==
    /\ TypeOK
    /\ CountsExact
    /\ CountersAreOwn
    /\ ClosesAreFollowed
    /\ NextSessionIsQueued
    /\ OpenIsCurrent
    /\ ServedOrRestorable
=============================================================================
