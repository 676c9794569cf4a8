------------------------------ MODULE LocalRelay ------------------------------
(* The local relay: a listener, one task per connection, a database and a  *)
(* broadcast channel that carries every new event to every session.  A     *)
(* session handles one message at a time and reads the channel in between; *)
(* what is broadcast meanwhile waits in its part of the channel, which may *)
(* overflow.  A step is what a task does between two awaits.               *)
(*                                                                         *)
(* What a check of an event finds in the event alone (size, kind, ID, proof*)
(* of work, repost, recipients, signature, owner) is the set Admissible;   *)
(* rate limits and policies may refuse at any time.  Expired events are    *)
(* left out.                                                               *)
EXTENDS NostrEvents, Sequences, Functions

CONSTANTS
    Session,        \* connections made in the life of the relay
    Asks(_),        \* the messages a client may send: records with a "type"
    AppEvent,       \* the events the application adds or notifies of
    Admissible,     \* the events that pass the checks of their own
    Protected,      \* the events with the "-" tag
    Nobody,         \* no public key
    AuthRead, AuthWrite, auth_dm, \* what needs an authentication
    MaxConnections, MaxReqs, MaxSubscriptionBytes, MaxFilterLimit,
    MaxNegs, MaxItems, MaxChallenges,
    Channel,        \* capacity of the broadcast channel
    MaxMessages, MaxApp \* bounds on the messages and the application's calls

ASSUME LimitsAssumption ==
    /\ Channel \in Nat \ {0}
    /\ {MaxConnections, MaxReqs, MaxSubscriptionBytes, MaxFilterLimit, MaxNegs, MaxItems,
        MaxChallenges, MaxMessages, MaxApp} \subseteq Nat
\* A filter also tells which of its lists are there ("given"): one that is there
\* and empty, as in {"kinds":[]}, matches like one that is missing, but the
\* checks of a request tell the two apart.
AskedField == DOMAIN AnyFilter \cup {"given"}
ASSUME AsksAssumption ==
    /\ AppEvent \subseteq Id /\ "listener" \notin Session
    /\ \A s \in Session : \A m \in Asks(s) :
        /\ m.type = "EVENT" => m.event \in Id
        /\ m.type = "REQ" => m.size \in Nat /\ \A f \in m.filters : DOMAIN f = AskedField

VARIABLES
    listener,   \* off, spawned, accepting
    notified,   \* tasks whose wait for the shutdown was ended
    phase,      \* of a session: none, handshake, select, busy, closed
    job,        \* the message a busy session is handling
    subscriptions, subscription_bytes, negentropy,
    public_key, challenges, \* the authentication of a session
    backlog, lagged, \* the unread part of the channel, and its overflow
    stored,     \* the events in the database
    unannounced,\* those the application has saved and not yet notified
    sent,       \* history: the EVENTs of open subscriptions
    proved,     \* history: the keys a session has authenticated
    unguarded,  \* history: the filters it asked with an empty list of kinds
    messages, calls
vars == <<listener, notified, phase, job, subscriptions, subscription_bytes, negentropy,
          public_key, challenges, backlog, lagged, stored, unannounced, sent, proved,
          unguarded, messages, calls>>
limits == <<subscriptions, subscription_bytes, negentropy>>
auth == <<public_key, challenges, proved, unguarded>>
channel == <<backlog, lagged>>
app == <<unannounced, calls>>

Listener == "listener" \* the listener task, next to those of the sessions
Open(s) == phase[s] \in {"select", "busy"}
NoJob == [type |-> "none"]
NoMap == [id \in {} |-> {}]
Without(map, id) == [x \in DOMAIN map \ {id} |-> map[x]]
With(map, id, value) == [x \in DOMAIN map \cup {id} |-> IF x = id THEN value ELSE map[x]]
Total(map, S) == FoldFunctionOnSet(LAMBDA x, y : x + y, 0, map, S)

TypeOK ==
    /\ listener \in {"off", "spawned", "accepting"}
    /\ notified \subseteq Session \cup {Listener}
    /\ phase \in [Session -> {"none", "handshake", "select", "busy", "closed"}]
    /\ \A s \in Session : job[s].type # "none" <=> phase[s] = "busy"
    /\ \A s \in Session : DOMAIN sent[s] = DOMAIN subscriptions[s]
    /\ challenges \in [Session -> 0 .. MaxChallenges + 1]
    /\ stored \subseteq Id /\ unannounced \subseteq stored
    /\ messages \in 0 .. MaxMessages /\ calls \in 0 .. MaxApp

Init ==
    /\ listener = "off" /\ notified = {}
    /\ phase = [s \in Session |-> "none"] /\ job = [s \in Session |-> NoJob]
    /\ subscriptions = [s \in Session |-> NoMap] /\ subscription_bytes = [s \in Session |-> 0]
    /\ negentropy = [s \in Session |-> NoMap]
    /\ public_key = [s \in Session |-> Nobody] /\ challenges = [s \in Session |-> 0]
    /\ backlog = [s \in Session |-> <<>>] /\ lagged = [s \in Session |-> FALSE]
    /\ stored = {} /\ unannounced = {}
    /\ sent = [s \in Session |-> NoMap] /\ proved = [s \in Session |-> {}]
    /\ unguarded = [s \in Session |-> {}]
    /\ messages = 0 /\ calls = 0

-----------------------------------------------------------------------------
(* Listener, connections and shutdown *)

\* run: nothing happens when the flag is set; a second call before the task
\* sets it fails to bind the address.
Run ==
    /\ listener = "off" /\ listener' = "spawned"
    /\ UNCHANGED <<notified, phase, job, limits, auth, channel, stored, app, sent, messages>>

Listen ==
    /\ listener = "spawned" /\ listener' = "accepting"
    /\ UNCHANGED <<notified, phase, job, limits, auth, channel, stored, app, sent, messages>>

\* accept and the task of the connection, up to the handshake.  A notification
\* that was ready at the same time is lost.
Accept(s) ==
    /\ listener = "accepting" /\ phase[s] = "none"
    /\ notified' = notified \ {Listener}
    /\ phase' = [phase EXCEPT ![s] =
        IF Cardinality({x \in Session : phase[x] \notin {"none", "closed"}}) < MaxConnections
        THEN "handshake" ELSE "closed"]
    /\ UNCHANGED <<listener, job, limits, auth, channel, stored, app, sent, messages>>

\* The handshake completes; the session subscribes to the channel first.
Established(s) ==
    /\ phase[s] = "handshake"
    /\ phase' = [phase EXCEPT ![s] = "select"]
    /\ UNCHANGED <<listener, notified, job, limits, auth, channel, stored, app, sent, messages>>

\* The peer goes, a handshake times out, a message exceeds the rate limit, a
\* send or a query fails.  A save is not interrupted: it reports its errors to
\* the client, and the channel takes the event before anything is sent.
SessionFails(s) ==
    \/ phase[s] \in {"handshake", "select"}
    \/ job[s].type \in {"write", "query", "reconcile"}

\* The shutdown reached the session.
StopSession(s) == s \in notified

\* Every state of the session goes with its task.
EndSession(s) ==
    /\ SessionFails(s) \/ StopSession(s)
    /\ phase' = [phase EXCEPT ![s] = "closed"] /\ job' = [job EXCEPT ![s] = NoJob]
    /\ notified' = notified \ {s}
    /\ subscriptions' = [subscriptions EXCEPT ![s] = NoMap]
    /\ subscription_bytes' = [subscription_bytes EXCEPT ![s] = 0]
    /\ negentropy' = [negentropy EXCEPT ![s] = NoMap]
    /\ backlog' = [backlog EXCEPT ![s] = <<>>] /\ lagged' = [lagged EXCEPT ![s] = FALSE]
    /\ public_key' = [public_key EXCEPT ![s] = Nobody] /\ challenges' = [challenges EXCEPT ![s] = 0]
    /\ sent' = [sent EXCEPT ![s] = NoMap] /\ proved' = [proved EXCEPT ![s] = {}]
    /\ unguarded' = [unguarded EXCEPT ![s] = {}]
    /\ UNCHANGED <<listener, stored, app, messages>>

\* notify_waiters reaches the tasks that wait at this moment.
Shutdown ==
    /\ calls < MaxApp /\ calls' = calls + 1
    /\ notified' = notified \cup {s \in Session : phase[s] = "select"}
                            \cup (IF listener = "accepting" THEN {Listener} ELSE {})
    /\ UNCHANGED <<listener, phase, job, limits, auth, channel, stored, unannounced, sent, messages>>

StopListening ==
    /\ Listener \in notified
    /\ listener' = "off" /\ notified' = notified \ {Listener}
    /\ UNCHANGED <<phase, job, limits, auth, channel, stored, app, sent, messages>>

-----------------------------------------------------------------------------
(* The channel *)

\* Every session has subscribed; the oldest event of a full part is lost.
Broadcast(e) ==
    /\ backlog' = [s \in Session |->
        IF ~Open(s) THEN backlog[s]
        ELSE IF Len(backlog[s]) < Channel THEN Append(backlog[s], e)
        ELSE Append(Tail(backlog[s]), e)]
    /\ lagged' = [s \in Session |-> lagged[s] \/ (Open(s) /\ Len(backlog[s]) >= Channel)]

Matches(filters, e) == \E f \in filters : match_event(f, e)

\* One event is read and sent to the subscriptions it matches.
Recv(s) ==
    /\ phase[s] = "select" /\ ~lagged[s] /\ backlog[s] # <<>>
    /\ LET e == Head(backlog[s])
       IN sent' = [sent EXCEPT ![s] = [id \in DOMAIN @ |->
            IF Matches(subscriptions[s][id].filters, e) THEN @[id] \cup {e} ELSE @[id]]]
    /\ backlog' = [backlog EXCEPT ![s] = Tail(@)]
    /\ notified' = notified \ {s}
    /\ UNCHANGED <<listener, phase, job, limits, auth, lagged, stored, app, messages>>

\* Mutant: the lost events are passed over in silence.
RecvLagged_Continues(s) ==
    /\ phase[s] = "select" /\ lagged[s]
    /\ backlog' = [backlog EXCEPT ![s] = <<>>] /\ lagged' = [lagged EXCEPT ![s] = FALSE]
    /\ UNCHANGED <<listener, notified, phase, job, limits, auth, stored, app, sent, messages>>

\* Events were lost: every subscription is closed.
RecvLagged(s) ==
    /\ phase[s] = "select" /\ lagged[s]
    /\ backlog' = [backlog EXCEPT ![s] = <<>>] /\ lagged' = [lagged EXCEPT ![s] = FALSE]
    /\ subscriptions' = [subscriptions EXCEPT ![s] = NoMap]
    /\ subscription_bytes' = [subscription_bytes EXCEPT ![s] = 0]
    /\ sent' = [sent EXCEPT ![s] = NoMap]
    /\ notified' = notified \ {s}
    /\ UNCHANGED <<listener, phase, job, negentropy, auth, stored, app, messages>>

-----------------------------------------------------------------------------
(* Messages of a client *)

\* A message is taken from the WebSocket; "next" is the rest of its handling.
Take(s, next) ==
    /\ phase[s] = "select" /\ messages < MaxMessages
    /\ messages' = messages + 1 /\ notified' = notified \ {s}
    /\ phase' = [phase EXCEPT ![s] = IF next = NoJob THEN "select" ELSE "busy"]
    /\ job' = [job EXCEPT ![s] = next]
    /\ UNCHANGED <<listener, channel, stored, app>>

Done(s) ==
    /\ phase' = [phase EXCEPT ![s] = "select"] /\ job' = [job EXCEPT ![s] = NoJob]
    /\ UNCHANGED <<listener, notified, app, messages>>

Continue(s, next) ==
    /\ job' = [job EXCEPT ![s] = next]
    /\ UNCHANGED <<listener, notified, phase, app, messages>>

generate_challenge(s) ==
    challenges' = [challenges EXCEPT ![s] = IF @ > MaxChallenges THEN 1 ELSE @ + 1]

IsAuthenticated(s) == public_key[s] # Nobody
requires_read_auth(s) == AuthRead /\ ~IsAuthenticated(s)

\* A filter without kinds is taken to select gift wraps; one with an empty list
\* of kinds is not, although it matches every kind.
MaySelectWraps(f) == "kinds" \in f.given => GiftWrap \in f.kinds

\* Mutant: any authentication opens the gift wraps.
gift_wrap_query_access_AnyKey(s, filters) ==
    LET wraps == {f \in filters : MaySelectWraps(f)}
    IN IF ~auth_dm \/ wraps = {} \/ IsAuthenticated(s) THEN "Allowed" ELSE "AuthRequired"

\* Filters that may select gift wraps must name the one who has authenticated
\* as their recipient.
gift_wrap_query_access(s, filters) ==
    LET wraps == {f \in filters : MaySelectWraps(f)}
    IN IF ~auth_dm \/ wraps = {} THEN "Allowed"
       ELSE IF ~IsAuthenticated(s) THEN "AuthRequired"
       ELSE IF \A f \in wraps : "p" \in DOMAIN f.tags /\ f.tags["p"] = {public_key[s]}
            THEN "Allowed" ELSE "Forbidden"

NeedsAuth(s, filters) ==
    requires_read_auth(s) \/ gift_wrap_query_access(s, filters) = "AuthRequired"

\* A message that is refused: at any time by a rate limit or a policy, with a
\* challenge when an authentication is missing.
Refused(s, m) ==
    /\ Take(s, NoJob)
    /\ \/ UNCHANGED challenges
       \/ /\ \/ m.type \in {"REQ", "COUNT", "NEG-OPEN"} /\ NeedsAuth(s, m.filters)
             \/ m.type = "EVENT" /\ ~IsAuthenticated(s) /\ (AuthWrite \/ m.event \in Protected)
          /\ generate_challenge(s)
    /\ UNCHANGED <<limits, public_key, proved, unguarded, sent>>

\* EVENT, up to the first await after its checks.
HandleEvent(s, e) ==
    /\ e \in Admissible
    /\ AuthWrite \/ e \in Protected => IsAuthenticated(s)
    /\ e \in Protected => pubkey(e) = public_key[s]
    /\ Take(s, [type |-> "write", event |-> e])
    /\ UNCHANGED <<limits, auth, sent>>

\* The write policy refuses, or the database has or had the event (it is then
\* acknowledged as a duplicate, or refused); an ephemeral event is broadcast.
CheckId(s) ==
    /\ job[s].type = "write"
    /\ LET e == job[s].event
       IN \/ Done(s) /\ UNCHANGED channel
          \/ e \notin stored /\ is_ephemeral(kind(e)) /\ Broadcast(e) /\ Done(s)
          \/ /\ e \notin stored /\ ~is_ephemeral(kind(e))
             /\ Continue(s, [type |-> "save", event |-> e]) /\ UNCHANGED channel
    /\ UNCHANGED <<limits, auth, stored, sent>>

\* The database takes the event, unless it has it meanwhile, refuses or fails.
SaveEvent(s) ==
    /\ job[s].type = "save"
    /\ LET e == job[s].event
       IN \/ /\ e \notin stored /\ stored' = stored \cup {e}
             /\ Continue(s, [type |-> "saved", event |-> e])
          \/ UNCHANGED stored /\ Done(s)
    /\ UNCHANGED <<limits, auth, channel, sent>>

Announce(s) ==
    /\ job[s].type = "saved"
    /\ Broadcast(job[s].event) /\ Done(s)
    /\ UNCHANGED <<limits, auth, stored, sent>>

Size(s, id) == IF id \in DOMAIN subscriptions[s] THEN subscriptions[s][id].size ELSE 0

\* Mutant: only the new request is weighed.
subscription_fits_Alone(s, id, size) == size <= MaxSubscriptionBytes

subscription_fits(s, id, size) ==
    subscription_bytes[s] - Size(s, id) + size <= MaxSubscriptionBytes

\* The limit a filter is queried with.
Clamped(f) == [f EXCEPT !.limit =
    IF @ # NoLimit THEN (IF @ > MaxFilterLimit THEN MaxFilterLimit ELSE @)
    ELSE IF "ids" \in f.given THEN Cardinality(f.ids) ELSE MaxFilterLimit]

\* It may select gift wraps and gift_wrap_query_access does not look at it.
Unguarded(f) == f.kinds = {} /\ "kinds" \in f.given

HandleReq(s, m) ==
    /\ Cardinality(DOMAIN subscriptions[s]) < MaxReqs \/ m.id \in DOMAIN subscriptions[s]
    /\ subscription_fits(s, m.id, m.size)
    /\ ~requires_read_auth(s) /\ gift_wrap_query_access(s, m.filters) = "Allowed"
    /\ \A f \in m.filters : f.limit = NoLimit => Cardinality(f.ids) <= MaxFilterLimit
    /\ LET filters == {Clamped(f) : f \in m.filters}
       IN Take(s, [type |-> "query", id |-> m.id, size |-> m.size, filters |-> filters,
                   rest |-> filters, found |-> {}, cut |-> {}])
          /\ unguarded' = [unguarded EXCEPT ![s] = @ \cup {f \in filters : Unguarded(f)}]
    /\ UNCHANGED <<limits, public_key, challenges, proved, sent>>

\* One filter is answered by the database; "cut" (history) is what its limit
\* left out.
Query(s) ==
    /\ job[s].type = "query" /\ job[s].rest # {}
    /\ \E f \in job[s].rest :
        LET answer == Answer(stored, f)
        IN Continue(s, [job[s] EXCEPT !.rest = @ \ {f}, !.found = @ \cup answer,
                        !.cut = @ \cup ({e \in stored : match_event(f, e)} \ answer)])
    /\ UNCHANGED <<limits, auth, channel, stored, sent>>

\* Every filter has IDs and as many events were found as IDs were asked for.
AllFound(j) ==
    /\ \A f \in j.filters : "ids" \in f.given
    /\ Cardinality(j.found) = Total([f \in j.filters |-> Cardinality(f.ids)], j.filters)

\* The stored events and EOSE are sent.  A request whose IDs were all found is
\* closed, without touching an earlier subscription of its ID.
FinishReq(s) ==
    /\ job[s].type = "query" /\ job[s].rest = {}
    /\ LET j == job[s]
       IN IF AllFound(j)
          THEN /\ UNCHANGED <<subscriptions, subscription_bytes>>
               /\ sent' = IF j.id \in DOMAIN sent[s]
                          THEN [sent EXCEPT ![s][j.id] = @ \cup j.found] ELSE sent
          ELSE /\ subscriptions' = [subscriptions EXCEPT ![s] =
                    With(@, j.id, [filters |-> j.filters, size |-> j.size, cut |-> j.cut \ j.found])]
               /\ subscription_bytes' = [subscription_bytes EXCEPT ![s] = @ - Size(s, j.id) + j.size]
               /\ sent' = [sent EXCEPT ![s] = With(@, j.id, j.found)]
    /\ Done(s)
    /\ UNCHANGED <<negentropy, auth, channel, stored>>

\* COUNT answers from the database and keeps nothing.
HandleCount(s, m) ==
    /\ ~requires_read_auth(s) /\ gift_wrap_query_access(s, m.filters) = "Allowed"
    /\ Take(s, NoJob)
    /\ UNCHANGED <<limits, auth, sent>>

\* CLOSE
remove_subscription(s, id) ==
    /\ Take(s, NoJob)
    /\ subscriptions' = [subscriptions EXCEPT ![s] = Without(@, id)]
    /\ subscription_bytes' = [subscription_bytes EXCEPT ![s] = @ - Size(s, id)]
    /\ sent' = [sent EXCEPT ![s] = Without(@, id)]
    /\ UNCHANGED <<negentropy, auth>>

\* AUTH with a signature over an outstanding challenge, which it uses up.
check_challenge(s, key) ==
    /\ challenges[s] > 0
    /\ Take(s, NoJob)
    /\ challenges' = [challenges EXCEPT ![s] = @ - 1]
    /\ public_key' = [public_key EXCEPT ![s] = key]
    /\ proved' = [proved EXCEPT ![s] = @ \cup {key}]
    /\ UNCHANGED <<limits, unguarded, sent>>

\* NEG-OPEN: what the other reconciliations retain is subtracted, and one more
\* item than may be kept is asked for.
Retained(s, id) == Total(negentropy[s], DOMAIN negentropy[s] \ {id})

HandleNegOpen(s, m) ==
    /\ Cardinality(DOMAIN negentropy[s]) < MaxNegs \/ m.id \in DOMAIN negentropy[s]
    /\ ~requires_read_auth(s) /\ gift_wrap_query_access(s, m.filters) = "Allowed"
    /\ Take(s, [type |-> "reconcile", id |-> m.id, filters |-> m.filters])
    /\ UNCHANGED <<limits, auth, sent>>

Reconcile(s) ==
    /\ job[s].type = "reconcile"
    /\ LET j == job[s]
           remaining == MaxItems - Retained(s, j.id)
           found == {e \in stored : Matches(j.filters, e)}
           items == IF Cardinality(found) > remaining + 1 THEN remaining + 1 ELSE Cardinality(found)
       IN \/ /\ items <= remaining
             /\ negentropy' = [negentropy EXCEPT ![s] = With(@, j.id, items)]
          \/ UNCHANGED negentropy \* too many items, or the message is no good
    /\ Done(s)
    /\ UNCHANGED <<subscriptions, subscription_bytes, auth, channel, stored, sent>>

\* NEG-MSG that cannot be used, and NEG-CLOSE, end the reconciliation.
EndNeg(s, id) ==
    /\ Take(s, NoJob)
    /\ negentropy' = [negentropy EXCEPT ![s] = Without(@, id)]
    /\ UNCHANGED <<subscriptions, subscription_bytes, auth, sent>>

Handle(s, m) ==
    \/ Refused(s, m)
    \/ m.type = "EVENT" /\ HandleEvent(s, m.event)
    \/ m.type = "REQ" /\ HandleReq(s, m)
    \/ m.type = "COUNT" /\ HandleCount(s, m)
    \/ m.type = "CLOSE" /\ remove_subscription(s, m.id)
    \/ m.type = "AUTH" /\ check_challenge(s, m.key)
    \/ m.type = "NEG-OPEN" /\ HandleNegOpen(s, m)
    \/ m.type \in {"NEG-MSG", "NEG-CLOSE"} /\ EndNeg(s, m.id)

-----------------------------------------------------------------------------
(* The application *)

\* add_event: save, and notify when it was stored.
AppSave(e) ==
    /\ calls < MaxApp /\ e \notin stored
    /\ stored' = stored \cup {e} /\ unannounced' = unannounced \cup {e} /\ calls' = calls + 1
    /\ UNCHANGED <<listener, notified, phase, job, limits, auth, channel, sent, messages>>

AppNotify(e) ==
    /\ e \in unannounced
    /\ Broadcast(e) /\ unannounced' = unannounced \ {e}
    /\ UNCHANGED <<listener, notified, phase, job, limits, auth, stored, sent, messages, calls>>

\* notify_event: an event that is stored elsewhere, or nowhere.
notify_event(e) ==
    /\ calls < MaxApp /\ Broadcast(e) /\ calls' = calls + 1
    /\ UNCHANGED <<listener, notified, phase, job, limits, auth, stored, unannounced, sent, messages>>

SessionStep(s) ==
    \/ Accept(s) \/ Established(s) \/ EndSession(s)
    \/ Recv(s) \/ RecvLagged(s)
    \/ CheckId(s) \/ SaveEvent(s) \/ Announce(s) \/ Query(s) \/ FinishReq(s) \/ Reconcile(s)
    \/ \E m \in Asks(s) : Handle(s, m)

Next ==
    \/ Run \/ Listen \/ Shutdown \/ StopListening
    \/ \E s \in Session : SessionStep(s)
    \/ \E e \in AppEvent : AppSave(e) \/ AppNotify(e) \/ notify_event(e)
Spec == Init /\ [][Next]_vars

-----------------------------------------------------------------------------
(* Properties *)

\* No event falls between the stored answer and the live stream: whatever is
\* stored and matches an open subscription was sent to it, is on its way, or
\* was left out by the limit of the query; a session that lost events is about
\* to close its subscriptions (handle_req, handle_websocket).
OnItsWay(s, e) ==
    \/ \E n \in DOMAIN backlog[s] : backlog[s][n] = e
    \/ e \in unannounced
    \/ \E w \in Session : job[w].type = "saved" /\ job[w].event = e
NothingMissed ==
    \A s \in Session : \A id \in DOMAIN subscriptions[s] : \A e \in stored :
        Matches(subscriptions[s][id].filters, e) =>
            e \in sent[s][id] \cup subscriptions[s][id].cut \/ OnItsWay(s, e) \/ lagged[s]

\* What a session retains stays within the limits of the relay, through
\* replacements, refusals and overflows, and the byte count is the sum of what
\* is registered (subscription_fits, insert_subscription, NEG-OPEN).
WithinLimits ==
    /\ TypeOK
    /\ Cardinality({s \in Session : phase[s] \notin {"none", "closed"}}) <= MaxConnections
    /\ \A s \in Session :
        /\ subscription_bytes[s] =
            Total([id \in DOMAIN subscriptions[s] |-> subscriptions[s][id].size], DOMAIN subscriptions[s])
        /\ subscription_bytes[s] <= MaxSubscriptionBytes
        /\ Cardinality(DOMAIN subscriptions[s]) <= MaxReqs
        /\ Cardinality(DOMAIN negentropy[s]) <= MaxNegs
        /\ Total(negentropy[s], DOMAIN negentropy[s]) <= MaxItems

\* A gift wrap is sent only to a session that has proved to be a recipient of
\* it, as a stored event or a live one, whoever the session is by then
\* (gift_wrap_query_access), or that has asked for it with an empty list of
\* kinds, which the check does not take for a wildcard and match_event does.
MaySee(s, e) ==
    auth_dm /\ kind(e) = GiftWrap =>
        Event[e].tags["p"] \cap proved[s] # {} \/ Matches(unguarded[s], e)
WrapsReachTheirRecipient ==
    \A s \in Session : \A id \in DOMAIN sent[s] : \A e \in sent[s][id] : MaySee(s, e)

-----------------------------------------------------------------------------
(* The inductive invariants behind the theorems of LocalRelayProofs *)

QueryJob == {"type", "id", "size", "filters", "rest", "found", "cut"}
JobOK(j) ==
    /\ j.type \in {"none", "write", "save", "saved", "query", "reconcile"}
    /\ j.type \in {"write", "save", "saved"} => j.event \in Id
    /\ j.type = "query" => DOMAIN j = QueryJob /\ j.rest \subseteq j.filters

Typed ==
    /\ TypeOK
    /\ Session = DOMAIN subscriptions /\ Session = DOMAIN sent /\ Session = DOMAIN job
    /\ Session = DOMAIN public_key /\ Session = DOMAIN proved /\ Session = DOMAIN unguarded
    /\ backlog \in [Session -> Seq(Id)] /\ lagged \in [Session -> BOOLEAN]
    /\ \A s \in Session : JobOK(job[s])

\* Filters that match gift wraps name somebody the session has proved to be,
\* also after it has become somebody else, or are among the unguarded ones.
OwnWraps(s, filters) ==
    \A f \in filters : auth_dm /\ (f.kinds = {} \/ GiftWrap \in f.kinds) =>
        \/ "p" \in DOMAIN f.tags /\ f.tags["p"] \subseteq proved[s]
        \/ f \in unguarded[s]
AccessOf(s) ==
    /\ public_key[s] \in proved[s] \cup {Nobody}
    /\ \A id \in DOMAIN subscriptions[s] : OwnWraps(s, subscriptions[s][id].filters)
    /\ job[s].type = "query" =>
        OwnWraps(s, job[s].filters) /\ \A e \in job[s].found : MaySee(s, e)
    /\ \A id \in DOMAIN sent[s] : \A e \in sent[s][id] : MaySee(s, e)
AccessInv == \A s \in Session : AccessOf(s)

\* While a REQ is answered, what its filters so far have not found is coming.
Accounted(s, filters, seen) ==
    \A e \in stored : Matches(filters, e) => e \in seen \/ OnItsWay(s, e) \/ lagged[s]
PhaseOf(s) ==
    /\ ~Open(s) => DOMAIN subscriptions[s] = {}
    /\ s \in notified => phase[s] = "select"
DeliveryOf(s) ==
    /\ \A id \in DOMAIN subscriptions[s] :
        Accounted(s, subscriptions[s][id].filters, sent[s][id] \cup subscriptions[s][id].cut)
    /\ job[s].type = "query" =>
        Accounted(s, job[s].filters \ job[s].rest, job[s].found \cup job[s].cut)
DeliveryInv == \A s \in Session : PhaseOf(s) /\ DeliveryOf(s)

\* What a session retains is finite and of the sizes the relay has added up;
\* a request that was let through still fits when it has been answered, since
\* a busy session takes no other.
Counts(map) == IsFiniteSet(DOMAIN map) /\ \A id \in DOMAIN map : map[id] \in Nat
Sizes(s) == [id \in DOMAIN subscriptions[s] |-> subscriptions[s][id].size]
LimitsOf(s) ==
    /\ Counts(Sizes(s)) /\ Counts(negentropy[s])
    /\ subscription_bytes[s] = Total(Sizes(s), DOMAIN Sizes(s))
    /\ subscription_bytes[s] <= MaxSubscriptionBytes
    /\ Cardinality(DOMAIN Sizes(s)) <= MaxReqs
    /\ Cardinality(DOMAIN negentropy[s]) <= MaxNegs
    /\ Total(negentropy[s], DOMAIN negentropy[s]) <= MaxItems
    /\ job[s].type = "query" =>
        /\ Cardinality(DOMAIN subscriptions[s]) < MaxReqs \/ job[s].id \in DOMAIN subscriptions[s]
        /\ job[s].size \in Nat /\ subscription_fits(s, job[s].id, job[s].size)
    /\ job[s].type = "reconcile" =>
        Cardinality(DOMAIN negentropy[s]) < MaxNegs \/ job[s].id \in DOMAIN negentropy[s]
Connected == {s \in Session : phase[s] \notin {"none", "closed"}}
LimitsInv ==
    /\ IsFiniteSet(stored)
    /\ IsFiniteSet(Connected) /\ Cardinality(Connected) <= MaxConnections
    /\ Session = DOMAIN subscription_bytes /\ Session = DOMAIN negentropy
    /\ \A s \in Session : LimitsOf(s)
=============================================================================
