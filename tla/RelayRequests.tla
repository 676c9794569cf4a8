----------------------------- MODULE RelayRequests -----------------------------
(* Two requests of a client to one relay, side by side: the negentropy     *)
(* synchronisation (relay/api/sync.rs) and send_event with its wait for OK *)
(* and its resend after NIP-42 (relay/api/send_event.rs).  Both queue      *)
(* messages for the relay and follow the same broadcast of what the relay  *)
(* answers; the ingester of the connection authenticates meanwhile.        *)
(*                                                                         *)
(* The relay (external) answers in order, and may leave things unanswered. *)
(* What negentropy finds is the constant Chunks: what each message of the  *)
(* relay adds to the events one side has and the other needs.              *)
EXTENDS SequencesExt

CONSTANTS
    Chunks,         \* sequence of [have |-> events, need |-> events]
    Vanishing,      \* local events that may be gone when they are uploaded
    SentEvent,      \* the event of send_event
    Blocked,        \* events the relay refuses
    AuthRelay,      \* the relay wants an authentication for EVENT
    HighWater, LowWater, \* NEGENTROPY_HIGH_WATER_UP, NEGENTROPY_LOW_WATER_UP
    BatchSize,      \* NEGENTROPY_BATCH_SIZE_DOWN
    Notifications   \* capacity of the broadcast

ASSUME MarksAssumption ==
    /\ {LowWater, HighWater} \subseteq Nat /\ LowWater < HighWater
    /\ {BatchSize, Notifications} \subseteq Nat \ {0}
Events == {SentEvent} \cup UNION {Chunks[n].have \cup Chunks[n].need : n \in DOMAIN Chunks}
ASSUME ChunksAssumption ==
    /\ Len(Chunks) \in Nat \ {0} /\ DOMAIN Chunks = 1 .. Len(Chunks)
    /\ IsFiniteSet(Events) /\ AuthRelay \in BOOLEAN

VARIABLES
    connected,
    toRelay,    \* the outbound queue and the wire
    fromRelay,  \* the wire back
    inbox,      \* the part of the broadcast a request has not read yet
    lagged,     \* requests whose part has overflowed
    registered, \* download subscriptions in the relay's table
    sync,       \* the state of the future
    cleanup,    \* idle, pending: the task that SyncCleanup spawns
    send,       \* idle, wait_ok, wait_auth, wait_again, or its result
    ingester,   \* idle, authenticating, authenticated, failed
    challenge,  \* a challenge waits for the ingester
    relay       \* external: what the relay knows and has done
client == <<registered, sync, cleanup>>
auth == <<ingester, challenge>>
broadcast == <<inbox, lagged>>
vars == <<connected, toRelay, fromRelay, broadcast, client, send, auth, relay>>

Waiting == {"wait_ok", "wait_auth", "wait_again"}
Receivers == (IF sync.pc \in {"checking", "running"} THEN {"sync"} ELSE {})
             \cup (IF send \in Waiting THEN {"send"} ELSE {})

NewSync == [pc |-> "new", have |-> {}, need |-> {}, up |-> {}, downloading |-> FALSE,
            down |-> {}, down_id |-> 0, done |-> FALSE, local |-> {}, remote |-> {},
            sent |-> {}, failures |-> {}, received |-> {}, gone |-> {}]
NewRelay == [neg |-> 0, open |-> {}, accepted |-> {}, answered |-> {}, authed |-> FALSE, challenged |-> FALSE,
             refused |-> FALSE, silent |-> FALSE]

TypeOK ==
    /\ connected \in BOOLEAN /\ challenge \in BOOLEAN
    /\ \A r \in {"sync", "send"} : Len(inbox[r]) <= Notifications
    /\ lagged \subseteq {"sync", "send"}
    /\ sync.pc \in {"new", "checking", "running", "ok", "error", "closed"}
    /\ sync.have \cup sync.up \cup sync.sent \cup sync.failures \cup sync.gone \subseteq sync.local
    /\ sync.need \cup sync.down \subseteq sync.remote
    /\ Cardinality(sync.up) <= HighWater /\ Cardinality(sync.down) <= BatchSize
    /\ registered \subseteq 0 .. sync.down_id
    /\ send \in Waiting \cup {"idle", "Ack", "Rejected", "Unconfirmed"}
    /\ ingester \in {"idle", "authenticating", "authenticated", "failed"}

Init ==
    /\ connected = TRUE /\ toRelay = <<>> /\ fromRelay = <<>>
    /\ inbox = [r \in {"sync", "send"} |-> <<>>] /\ lagged = {}
    /\ registered = {} /\ sync = NewSync /\ cleanup = "idle"
    /\ send = "idle" /\ ingester = "idle" /\ challenge = FALSE /\ relay = NewRelay

-----------------------------------------------------------------------------
(* Messages *)

Msg(type) == [type |-> type]
EVENT(e) == [type |-> "EVENT", event |-> e]
OK(e, status) == [type |-> "OK", event |-> e, status |-> status]
REQ(id, ids) == [type |-> "REQ", id |-> id, ids |-> ids]
CLOSE(id) == [type |-> "CLOSE", id |-> id]
NEG(n) == [type |-> "NEG-MSG", n |-> n]
EVENTS(id, ids) == LET seq == SetToSeq(ids)
                   IN [n \in DOMAIN seq |-> [type |-> "STORED", id |-> id, event |-> seq[n]]]
EOSE(id) == [type |-> "EOSE", id |-> id]
CLOSED(id, empty) == [type |-> "CLOSED", id |-> id, empty |-> empty]

-----------------------------------------------------------------------------
(* The relay and the connection *)

Answers(msgs, r) ==
    /\ fromRelay' = fromRelay \o msgs /\ relay' = r
    /\ toRelay' = Tail(toRelay)
    /\ UNCHANGED <<connected, broadcast, client, send, auth>>

Silent == Answers(<<>>, [relay EXCEPT !.silent = TRUE])

AnswerNegentropy(m) ==
    /\ m.type \in {"NEG-OPEN", "NEG-MSG"}
    /\ \/ Answers(<<NEG(relay.neg + 1)>>, [relay EXCEPT !.neg = @ + 1])
       \/ Answers(<<Msg("NEG-ERR")>>, [relay EXCEPT !.neg = 0])
       \/ Silent

AnswerEvent(m) ==
    /\ m.type = "EVENT"
    /\ IF AuthRelay /\ ~relay.authed
       THEN Answers((IF relay.challenged THEN <<>> ELSE <<Msg("AUTH")>>)
                        \o <<OK(m.event, "auth-required")>>, [relay EXCEPT !.challenged = TRUE])
       ELSE \/ IF m.event \in Blocked THEN Answers(<<OK(m.event, "false")>>, relay)
               ELSE Answers(<<OK(m.event, "true")>>, [relay EXCEPT !.accepted = @ \cup {m.event}])
            \/ Silent

AnswerAuth(m) ==
    /\ m.type = "AUTH"
    /\ \E status \in {"true", "false"} :
        Answers(<<[type |-> "OK-AUTH", status |-> status]>>,
                [relay EXCEPT !.authed = @ \/ status = "true", !.challenged = status = "true"])

\* Some of the events, then EOSE; the relay may close a subscription of IDs
\* at once, later (an empty CLOSED after EOSE) or refuse it.
AnswerReq(m) ==
    /\ m.type = "REQ"
    /\ \E found \in SUBSET m.ids :
        LET told == [relay EXCEPT !.answered = @ \cup m.ids]
        IN \/ Answers(EVENTS(m.id, found) \o <<EOSE(m.id)>>, [told EXCEPT !.open = @ \cup {m.id}])
           \/ Answers(EVENTS(m.id, found) \o <<EOSE(m.id), CLOSED(m.id, TRUE)>>, told)
           \/ \E empty \in BOOLEAN :
                Answers(EVENTS(m.id, found) \o <<CLOSED(m.id, empty)>>,
                        [relay EXCEPT !.refused = TRUE,
                                      !.answered = @ \cup (IF empty THEN found ELSE {})])
           \/ Silent

AnswerClose(m) ==
    \/ m.type = "CLOSE" /\ Answers(<<>>, [relay EXCEPT !.open = @ \ {m.id}])
    \/ m.type = "NEG-CLOSE" /\ Answers(<<>>, [relay EXCEPT !.neg = 0])

RelayAnswers ==
    /\ connected /\ toRelay # <<>>
    /\ LET m == Head(toRelay)
       IN AnswerNegentropy(m) \/ AnswerEvent(m) \/ AnswerAuth(m) \/ AnswerReq(m) \/ AnswerClose(m)

\* send_notification: a request that does not read loses the oldest.
Broadcast(n) ==
    /\ inbox' = [r \in DOMAIN inbox |->
        IF r \notin Receivers THEN inbox[r]
        ELSE IF Len(inbox[r]) < Notifications THEN Append(inbox[r], n)
        ELSE Append(Tail(inbox[r]), n)]
    /\ lagged' = lagged \cup {r \in Receivers : Len(inbox[r]) >= Notifications}

\* handle_relay_message: a CLOSED removes the subscription, a challenge goes to
\* the ingester, the answer to an AUTH is what the ingester waits for; then the
\* message is broadcast.
handle_relay_message ==
    /\ fromRelay # <<>> /\ fromRelay' = Tail(fromRelay)
    /\ LET m == Head(fromRelay)
       IN /\ registered' = IF m.type = "CLOSED" THEN registered \ {m.id} ELSE registered
          /\ challenge' = (challenge \/ m.type = "AUTH")
          /\ ingester' = IF m.type = "OK-AUTH" /\ ingester = "authenticating"
                         THEN (IF m.status = "true" THEN "authenticated" ELSE "failed")
                         ELSE ingester
          /\ Broadcast(m)
    /\ UNCHANGED <<connected, toRelay, sync, cleanup, send, relay>>

\* The session ends: the queue outlives it, the relay forgets the session.
Disconnect ==
    /\ connected /\ connected' = FALSE
    /\ fromRelay' = <<>> /\ ingester' = "idle" /\ challenge' = FALSE
    /\ relay' = [relay EXCEPT !.neg = 0, !.open = {}, !.authed = FALSE, !.challenged = FALSE]
    /\ Broadcast(Msg("DISCONNECTED"))
    /\ UNCHANGED <<toRelay, client, send>>

\* ingester and auth: one challenge at a time.
IngesterAuth ==
    /\ ingester = "idle" /\ challenge
    /\ ingester' = "authenticating" /\ challenge' = FALSE
    /\ toRelay' = Append(toRelay, Msg("AUTH"))
    /\ UNCHANGED <<connected, fromRelay, broadcast, client, send, relay>>

IngesterDone ==
    /\ ingester \in {"authenticated", "failed"}
    /\ Broadcast(Msg(IF ingester = "failed" THEN "AUTH-FAILED" ELSE "AUTHENTICATED"))
    /\ ingester' = "idle"
    /\ UNCHANGED <<connected, toRelay, fromRelay, client, send, challenge, relay>>

-----------------------------------------------------------------------------
(* Negentropy synchronisation *)

Queue(msgs) == toRelay' = toRelay \o msgs
Read(r) == /\ inbox' = [inbox EXCEPT ![r] = Tail(@)]
           /\ UNCHANGED lagged

\* sync, up to check_negentropy_support.
SyncStart ==
    /\ sync.pc = "new"
    /\ sync' = [sync EXCEPT !.pc = "checking"]
    /\ Queue(<<Msg("NEG-OPEN")>>)
    /\ UNCHANGED <<connected, fromRelay, broadcast, registered, cleanup, send, auth, relay>>

\* The future ends: with an error, or because it is dropped, SyncCleanup runs.
SyncEnds(why) ==
    /\ sync' = [sync EXCEPT !.pc = why] /\ cleanup' = "pending"
    /\ inbox' = [inbox EXCEPT !["sync"] = <<>>] /\ lagged' = lagged \ {"sync"}
    /\ UNCHANGED <<connected, fromRelay, send, auth, relay>>

\* A timeout, a lagged broadcast, a message that cannot be queued, a drop.
SyncFails ==
    /\ sync.pc \in {"checking", "running"}
    /\ SyncEnds("error")
    /\ UNCHANGED <<toRelay, registered>>

\* check_negentropy_support has a receiver of its own, that looks for the first
\* answer; what it has read stays in the other one.
check_negentropy_support ==
    /\ sync.pc = "checking"
    /\ LET types == {inbox["sync"][n].type : n \in DOMAIN inbox["sync"]}
       IN \/ /\ "NEG-MSG" \in types
             /\ sync' = [sync EXCEPT !.pc = "running"]
             /\ UNCHANGED <<connected, toRelay, fromRelay, broadcast, registered, cleanup, send,
                            auth, relay>>
          \/ /\ "NEG-ERR" \in types /\ "NEG-MSG" \notin types
             /\ SyncEnds("error") /\ UNCHANGED <<toRelay, registered>>

\* handle_neg_msg: what was not seen before is to be sent or requested.
handle_neg_msg(y, n) ==
    LET chunk == Chunks[n]
    IN [y EXCEPT !.local = @ \cup chunk.have, !.remote = @ \cup chunk.need,
                 !.have = @ \cup (chunk.have \ y.local), !.need = @ \cup (chunk.need \ y.remote),
                 !.done = @ \/ n = Len(Chunks)]

\* Mutant: an upload that is refused stays in flight.
handle_neg_ok_KeepsRefused(y, m) ==
    IF m.event \notin y.up THEN y
    ELSE IF m.status = "true" THEN [y EXCEPT !.up = @ \ {m.event}, !.sent = @ \cup {m.event}]
    ELSE [y EXCEPT !.failures = @ \cup {m.event}]

handle_neg_ok(y, m) ==
    IF m.event \notin y.up THEN y
    ELSE IF m.status = "true" THEN [y EXCEPT !.up = @ \ {m.event}, !.sent = @ \cup {m.event}]
    ELSE [y EXCEPT !.up = @ \ {m.event}, !.failures = @ \cup {m.event}]

\* What a message changes before uploads and downloads go on.
Told(y, m) ==
    CASE m.type = "NEG-MSG" -> handle_neg_msg(y, m.n)
      [] m.type = "OK" -> handle_neg_ok(y, m)
      [] m.type = "STORED" /\ m.id = y.down_id ->
            [y EXCEPT !.received = @ \cup {m.event}, !.down = @ \ {m.event}]
      [] m.type \in {"EOSE", "CLOSED"} /\ m.id = y.down_id ->
            [y EXCEPT !.downloading = FALSE, !.down = {}]
      [] OTHER -> y

Replies(y, m) ==
    CASE m.type = "NEG-MSG" -> IF m.n = Len(Chunks) THEN <<Msg("NEG-CLOSE")>> ELSE <<NEG(m.n)>>
      [] m.type = "EOSE" /\ m.id = y.down_id -> <<CLOSE(m.id)>>
      [] OTHER -> <<>>

\* Mutant: an empty CLOSED ends the batch whatever has arrived.
BatchRefused_EmptyIsFine(y, m) ==
    m.type = "CLOSED" /\ m.id = y.down_id /\ y.downloading /\ ~m.empty

\* A CLOSED of the batch in flight is an error, unless it is empty and every
\* event has arrived.
BatchRefused(y, m) ==
    m.type = "CLOSED" /\ m.id = y.down_id /\ y.downloading /\ ~(m.empty /\ y.down = {})

\* upload_neg_events: above the low mark nothing is done; otherwise events are
\* taken until none is left or the high mark is reached, the ones that are gone
\* from the database on the way.
Uploaded(y, found, gone) ==
    [y |-> [y EXCEPT !.have = @ \ (found \cup gone), !.up = @ \cup found, !.gone = @ \cup gone],
     msgs |-> [n \in DOMAIN SetToSeq(found) |-> EVENT(SetToSeq(found)[n])]]
Uploads(y) ==
    IF y.have = {} \/ Cardinality(y.up) > LowWater THEN {[y |-> y, msgs |-> <<>>]}
    ELSE {Uploaded(y, p[1], p[2]) :
            p \in {p \in (SUBSET y.have) \X (SUBSET (y.have \cap Vanishing)) :
                  /\ p[1] \cap p[2] = {}
                  /\ LET flying == Cardinality(y.up \cup p[1])
                     IN flying = HighWater \/ (flying < HighWater /\ p[1] \cup p[2] = y.have)}}

\* Mutant: the cleanup keeps the identifier of the first batch.
NextId_Kept(y) == [y EXCEPT !.downloading = TRUE]
NextId(y) == [y EXCEPT !.downloading = TRUE, !.down_id = @ + 1]

\* req_neg_events: one batch at a time, each with an identifier of its own.
Downloads(y) ==
    IF y.need = {} \/ y.downloading THEN {[y |-> y, msgs |-> <<>>, register |-> {}]}
    ELSE {[y |-> [NextId(y) EXCEPT !.need = @ \ ids, !.down = ids],
           msgs |-> <<REQ(y.down_id + 1, ids)>>, register |-> {y.down_id + 1}] :
              ids \in {s \in SUBSET y.need :
                  Cardinality(s) = BatchSize \/ (Cardinality(s) < BatchSize /\ s = y.need)}}

Complete(y) ==
    y.done /\ y.have = {} /\ y.need = {} /\ y.up = {} /\ ~y.downloading

\* One notification of the loop.  The future may be dropped between the
\* registration of a batch and its REQ.
SyncMessage ==
    /\ sync.pc = "running" /\ "sync" \notin lagged /\ inbox["sync"] # <<>>
    /\ LET m == Head(inbox["sync"])
           y == Told(sync, m)
           dropped == IF m.type = "EOSE" /\ m.id = sync.down_id THEN {m.id} ELSE {}
       IN IF m.type \in {"NEG-ERR", "DISCONNECTED"} \/ BatchRefused(sync, m)
          THEN /\ SyncEnds(IF m.type = "CLOSED" THEN "closed" ELSE "error")
               /\ UNCHANGED <<toRelay, registered>>
          ELSE \E u \in Uploads(y) : \E d \in Downloads(u.y) :
            /\ registered' = (registered \ dropped) \cup d.register
            /\ \/ /\ Queue(Replies(sync, m) \o u.msgs \o d.msgs)
                  /\ sync' = [d.y EXCEPT !.pc = IF Complete(d.y) THEN "ok" ELSE @]
                  /\ IF Complete(d.y)
                     THEN inbox' = [inbox EXCEPT !["sync"] = <<>>] /\ UNCHANGED lagged
                     ELSE Read("sync")
                  /\ UNCHANGED <<connected, fromRelay, cleanup, send, auth, relay>>
               \/ /\ d.msgs # <<>>
                  /\ Queue(Replies(sync, m) \o u.msgs)
                  /\ sync' = [d.y EXCEPT !.pc = "error"] /\ cleanup' = "pending"
                  /\ inbox' = [inbox EXCEPT !["sync"] = <<>>] /\ lagged' = lagged \ {"sync"}
                  /\ UNCHANGED <<connected, fromRelay, send, auth, relay>>

\* The task of SyncCleanup's drop.
Cleanup ==
    /\ cleanup = "pending" /\ cleanup' = "idle"
    /\ registered' = registered \ {sync.down_id}
    /\ Queue(<<CLOSE(sync.down_id), Msg("NEG-CLOSE")>>)
    /\ UNCHANGED <<connected, fromRelay, broadcast, sync, send, auth, relay>>

-----------------------------------------------------------------------------
(* send_event *)

SendStart ==
    /\ send = "idle" /\ send' = "wait_ok"
    /\ Queue(<<EVENT(SentEvent)>>)
    /\ UNCHANGED <<connected, fromRelay, broadcast, client, auth, relay>>

SendEnds(result) ==
    /\ send' = result
    /\ inbox' = [inbox EXCEPT !["send"] = <<>>] /\ lagged' = lagged \ {"send"}
    /\ UNCHANGED toRelay

\* A timeout, or a lagged broadcast.
SendTimeout ==
    /\ send \in Waiting /\ SendEnds("Unconfirmed")
    /\ UNCHANGED <<connected, fromRelay, client, auth, relay>>

Skip == Read("send") /\ UNCHANGED <<send, toRelay>>

\* wait_for_authentication, and the event is sent again.
wait_for_authentication(m) ==
    CASE m.type = "AUTHENTICATED" ->
            send' = "wait_again" /\ Read("send") /\ Queue(<<EVENT(SentEvent)>>)
      [] m.type \in {"AUTH-FAILED", "DISCONNECTED"} -> SendEnds("Unconfirmed")
      [] OTHER -> Skip

wait_for_ok(m) ==
    CASE m.type = "OK" /\ m.event = SentEvent ->
            IF m.status = "true" THEN SendEnds("Ack")
            ELSE IF m.status = "auth-required" /\ send = "wait_ok"
            THEN send' = "wait_auth" /\ Read("send") /\ UNCHANGED toRelay
            ELSE SendEnds("Rejected")
      [] m.type = "DISCONNECTED" -> SendEnds("Unconfirmed")
      [] OTHER -> Skip

SendMessage ==
    /\ send \in Waiting /\ "send" \notin lagged /\ inbox["send"] # <<>>
    /\ LET m == Head(inbox["send"])
       IN IF send = "wait_auth" THEN wait_for_authentication(m) ELSE wait_for_ok(m)
    /\ UNCHANGED <<connected, fromRelay, client, auth, relay>>

Next ==
    \/ RelayAnswers \/ handle_relay_message \/ Disconnect
    \/ IngesterAuth \/ IngesterDone
    \/ SyncStart \/ check_negentropy_support \/ SyncMessage \/ SyncFails \/ Cleanup
    \/ SendStart \/ SendMessage \/ SendTimeout
Spec == Init /\ [][Next]_vars

-----------------------------------------------------------------------------
(* Properties *)

\* The results tell the truth: a synchronisation that completes has an answer
\* for every event it found on either side, one that blames a CLOSED was
\* refused by the relay (a late CLOSED of an earlier batch is no refusal), and
\* an acknowledged event is on the relay (sync, req_neg_events, SendEvent).
ResultsAreTrue ==
    /\ TypeOK
    /\ sync.sent \subseteq relay.accepted
    /\ sync.pc = "ok" => /\ sync.local = sync.sent \cup sync.failures \cup sync.gone
                         /\ sync.remote \subseteq relay.answered
    /\ sync.pc = "closed" => relay.refused
    /\ send = "Ack" => SentEvent \in relay.accepted

\* No request depends on its timeout while the relay answers: when nothing is
\* on its way any more, neither waits.  The window of uploads empties, the
\* next batch is asked for, the end is noticed (upload_neg_events,
\* req_neg_events, wait_for_authentication).
Quiet == /\ connected /\ ~relay.silent /\ toRelay = <<>> /\ fromRelay = <<>>
         /\ inbox["sync"] = <<>> /\ inbox["send"] = <<>> /\ lagged = {}
         /\ ingester = "idle" /\ ~challenge
NeverStalls == Quiet => sync.pc \notin {"checking", "running"} /\ send \notin Waiting

\* A synchronisation that has ended, by itself, by an error or because it was
\* dropped, leaves no subscription registered and, once its messages are
\* delivered, nothing open on the relay (SyncCleanup).
NothingLeftBehind ==
    sync.pc \in {"ok", "error", "closed"} /\ cleanup = "idle" =>
        /\ registered = {}
        /\ toRelay = <<>> => relay.open = {} /\ relay.neg = 0

-----------------------------------------------------------------------------
(* What the theorems about these properties rest on: the types of messages *)
(* and states, and what each message on its way says of the two ends.      *)

ToRelay ==
    [type : {"NEG-OPEN", "NEG-CLOSE", "AUTH"}] \cup [type : {"NEG-MSG"}, n : Nat]
    \cup [type : {"EVENT"}, event : Events] \cup [type : {"CLOSE"}, id : Nat]
    \cup [type : {"REQ"}, id : Nat, ids : SUBSET Events]
FromRelay ==
    [type : {"NEG-ERR", "AUTH"}] \cup [type : {"NEG-MSG"}, n : Nat]
    \cup [type : {"OK"}, event : Events, status : {"true", "false", "auth-required"}]
    \cup [type : {"OK-AUTH"}, status : {"true", "false"}]
    \cup [type : {"STORED"}, id : Nat, event : Events] \cup [type : {"EOSE"}, id : Nat]
    \cup [type : {"CLOSED"}, id : Nat, empty : BOOLEAN]
Notice == FromRelay \cup [type : {"DISCONNECTED", "AUTHENTICATED", "AUTH-FAILED"}]
SyncState ==
    [pc : {"new", "checking", "running", "ok", "error", "closed"}, down_id : Nat,
     downloading : BOOLEAN, done : BOOLEAN, have : SUBSET Events, need : SUBSET Events,
     up : SUBSET Events, down : SUBSET Events, local : SUBSET Events, remote : SUBSET Events,
     sent : SUBSET Events, failures : SUBSET Events, received : SUBSET Events, gone : SUBSET Events]
RelayState ==
    [neg : Nat, open : SUBSET Nat, accepted : SUBSET Events, answered : SUBSET Events,
     authed : BOOLEAN, challenged : BOOLEAN, refused : BOOLEAN, silent : BOOLEAN]

Active == sync.pc \in {"checking", "running"}
Ended == sync.pc \in {"ok", "error", "closed"}
Closing == cleanup = "pending"
Fetching == Active /\ sync.downloading

Typed ==
    /\ TypeOK
    /\ toRelay \in Seq(ToRelay) /\ fromRelay \in Seq(FromRelay)
    /\ inbox \in [{"sync", "send"} -> Seq(Notice)]
    /\ sync \in SyncState /\ relay \in RelayState
    /\ cleanup \in {"idle", "pending"} /\ (Closing => Ended)
    /\ ~Active => inbox["sync"] = <<>>
    /\ send \notin Waiting => inbox["send"] = <<>>

\* The messages of a channel, and those a synchronisation has yet to read.
Msgs(w) == {w[n] : n \in DOMAIN w}
Heard == Msgs(inbox["sync"]) \cup Msgs(fromRelay)
Of(type) == {m \in Heard : m.type = type}
Asked(type) == {m \in Msgs(toRelay) : m.type = type}
AtMostOne(w, types) ==
    \A p, q \in DOMAIN w : w[p].type \in types /\ w[q].type \in types => p = q
Has(w, types) == \E m \in Msgs(w) : m.type \in types

\* One negotiation message is on its way, in one direction, until the last.
Turn == {"NEG-OPEN", "NEG-MSG"}
Word == {"NEG-MSG", "NEG-ERR"}
OneTurn ==
    /\ AtMostOne(toRelay, Turn) /\ AtMostOne(fromRelay, Word) /\ AtMostOne(inbox["sync"], Word)
    /\ ~(Has(toRelay, Turn) /\ Has(fromRelay, Word)) /\ ~(Has(toRelay, Turn) /\ Has(inbox["sync"], Word))
    /\ ~(Has(fromRelay, Word) /\ Has(inbox["sync"], Word))
    /\ sync.done \/ sync.pc = "new" =>
        ~Has(toRelay, Turn) /\ ~Has(fromRelay, Word) /\ ~Has(inbox["sync"], Word)
TurnsCount ==
    Active =>
        /\ \A m \in Of("NEG-MSG") : m.n \in 1 .. Len(Chunks) /\ (connected => m.n = relay.neg)
        /\ \A m \in Asked("NEG-MSG") :
              m.n \in 1 .. Len(Chunks) - 1 /\ (connected => m.n = relay.neg)
        /\ connected /\ Asked("NEG-OPEN") # {} => relay.neg = 0
        /\ Asked("NEG-CLOSE") # {} => sync.done

\* A negotiation that is over, or that was given up, is closed on the relay.
Open == sync.pc = "new" \/ (Active /\ ~sync.done) \/ Closing
TurnsClose ==
    /\ relay.neg # 0 => Open \/ Asked("NEG-CLOSE") # {}
    /\ \A p \in DOMAIN toRelay : toRelay[p].type \in Turn =>
          Open \/ \E q \in DOMAIN toRelay : p < q /\ toRelay[q].type = "NEG-CLOSE"
    /\ sync.pc = "new" =>
          /\ relay.neg = 0 /\ relay.open = {} /\ sync = NewSync
          /\ Asked("REQ") = {} /\ Asked("NEG-CLOSE") = {}

\* Batches are asked for one after the other, each under an identifier of its
\* own, and an identifier in the relay's hands will be closed.
Batch(m) == m.type \in {"STORED", "EOSE", "CLOSED"}
Current(id) == id = sync.down_id /\ (Fetching \/ Closing)
IdsAreFresh ==
    /\ \A m \in Heard : Batch(m) => m.id <= sync.down_id
    /\ \A id \in relay.open : id <= sync.down_id
    /\ AtMostOne(toRelay, {"REQ"})
    /\ \A r \in Asked("REQ") :
        /\ r.id \notin relay.open /\ r.id <= sync.down_id
        /\ \A m \in Heard : Batch(m) => m.id # r.id
    /\ \A m \in Of("CLOSED") : m.id \notin relay.open
IdsClose ==
    /\ registered \subseteq {sync.down_id}
    /\ registered # {} => Fetching \/ Closing
    /\ \A n \in DOMAIN inbox["sync"] :
          inbox["sync"][n].type = "CLOSED" => inbox["sync"][n].id \notin registered
    /\ \A id \in relay.open : Current(id) \/ CLOSE(id) \in Msgs(toRelay)
    /\ \A p \in DOMAIN toRelay : toRelay[p].type = "REQ" =>
          \/ Current(toRelay[p].id)
          \/ Ended /\ \E q \in DOMAIN toRelay : p < q /\ toRelay[q] = CLOSE(toRelay[p].id)

\* Each event found is somewhere.
Accepted(w) == \A m \in Msgs(w) : m.type = "OK" /\ m.status = "true" => m.event \in relay.accepted
EventsAreKept ==
    /\ sync.local = sync.have \cup sync.up \cup sync.sent \cup sync.failures \cup sync.gone
    /\ Accepted(fromRelay) /\ Accepted(inbox["sync"]) /\ Accepted(inbox["send"])
    /\ Active /\ ~sync.downloading => sync.remote \subseteq sync.need \cup relay.answered
    /\ Fetching =>
        /\ \A r \in Asked("REQ") :
            r.ids = sync.down /\ sync.remote \subseteq sync.need \cup sync.down \cup relay.answered
        /\ EOSE(sync.down_id) \in Heard => sync.remote \subseteq sync.need \cup relay.answered
        /\ CLOSED(sync.down_id, TRUE) \in Heard =>
            /\ sync.remote \subseteq sync.need \cup sync.down \cup relay.answered
            /\ \A m \in Of("STORED") : m.id = sync.down_id => m.event \in relay.answered

\* A CLOSED that comes before EOSE is a refusal.
Ends(w, n) == \E k \in DOMAIN w : k < n /\ w[k] = EOSE(sync.down_id)
Refusal(m) == m.type = "CLOSED" /\ m.id = sync.down_id
RefusalsAreReal ==
    Fetching /\ "sync" \notin lagged /\ ~relay.refused =>
        /\ \A n \in DOMAIN inbox["sync"] : Refusal(inbox["sync"][n]) => Ends(inbox["sync"], n)
        /\ \A n \in DOMAIN fromRelay : Refusal(fromRelay[n]) =>
              Ends(fromRelay, n) \/ EOSE(sync.down_id) \in Msgs(inbox["sync"])

\* What a synchronisation waits for is on its way.
SyncIsAnswered ==
    /\ sync.pc = "checking" => ~sync.done
    /\ Active =>
        /\ sync.have = {} \/ sync.up # {}
        /\ sync.need = {} \/ sync.downloading
        /\ ~Complete(sync)
    /\ Active /\ connected /\ ~relay.silent /\ "sync" \notin lagged =>
        /\ sync.done \/ Has(toRelay, Turn) \/ Has(fromRelay, Word) \/ Has(inbox["sync"], Word)
        /\ \A e \in sync.up : EVENT(e) \in Msgs(toRelay) \/ \E m \in Of("OK") : m.event = e
        /\ sync.downloading =>
            \/ \E r \in Asked("REQ") : r.id = sync.down_id
            \/ \E m \in Of("EOSE") \cup Of("CLOSED") : m.id = sync.down_id

\* So is what send_event waits for; an EVENT that is refused for want of an
\* authentication has one coming, whichever request caused the challenge.
Refused(m) == m.type = "OK" /\ m.event = SentEvent /\ m.status = "auth-required"
Verdict == {"AUTHENTICATED", "AUTH-FAILED", "DISCONNECTED"}
OneAuth ==
    /\ AtMostOne(toRelay, {"AUTH"}) /\ AtMostOne(fromRelay, {"OK-AUTH"})
    /\ connected =>
        /\ ~(Asked("AUTH") # {} /\ Has(fromRelay, {"OK-AUTH"}))
        /\ ingester # "authenticating" => Asked("AUTH") = {} /\ ~Has(fromRelay, {"OK-AUTH"})
    /\ ~connected => ingester = "idle" /\ ~challenge /\ fromRelay = <<>>
AuthComes ==
    connected =>
        /\ relay.challenged /\ ~relay.authed =>
              Has(fromRelay, {"AUTH"}) \/ challenge \/ Asked("AUTH") # {}
        /\ \A p \in DOMAIN fromRelay : Refused(fromRelay[p]) =>
              \/ challenge \/ Asked("AUTH") # {}
              \/ \E q \in DOMAIN fromRelay : q < p /\ fromRelay[q].type = "AUTH"
              \/ \E q \in DOMAIN fromRelay : p < q /\ fromRelay[q].type = "OK-AUTH"
VerdictComes(p) ==
    \/ challenge \/ ingester # "idle" \/ Has(fromRelay, {"AUTH"})
    \/ \E q \in DOMAIN inbox["send"] : p < q /\ inbox["send"][q].type \in Verdict
SendIsAnswered ==
    connected /\ "send" \notin lagged =>
        /\ send = "wait_auth" => VerdictComes(0)
        /\ send = "wait_ok" =>
              \A p \in DOMAIN inbox["send"] : Refused(inbox["send"][p]) => VerdictComes(p)
        /\ send \in {"wait_ok", "wait_again"} /\ ~relay.silent =>
              \/ EVENT(SentEvent) \in Msgs(toRelay)
              \/ \E m \in Msgs(inbox["send"]) \cup Msgs(fromRelay) : m.type = "OK" /\ m.event = SentEvent

RequestsInv ==
    /\ Typed /\ OneTurn /\ TurnsCount /\ TurnsClose /\ IdsAreFresh /\ IdsClose /\ EventsAreKept
    /\ RefusalsAreReal /\ SyncIsAnswered /\ OneAuth /\ AuthComes /\ SendIsAnswered
    /\ ResultsAreTrue
=============================================================================
