--------------------------- MODULE LocalRelayProofs ---------------------------
(***************************************************************************)
(* What the local relay owes to its sessions, for any number of them and   *)
(* any capacity of the channel: a gift wrap reaches only its recipients,   *)
(* no event falls between the stored answer and the live stream, and what  *)
(* a session retains stays within the limits of the relay.  The last part  *)
(* is about the SQLite store, as one that a relay may keep its events in:  *)
(* its tables go together, and its queries answer rightly.                 *)
(***************************************************************************)
EXTENDS LocalRelay, SqliteStore, FiniteSetTheorems, WellFoundedInduction, TLAPS

-----------------------------------------------------------------------------
(* Types                                                                   *)

\* The limits one by one
LEMMA LimitsAreNumbers ==
    MaxMessages \in Nat /\ MaxApp \in Nat /\ MaxChallenges \in Nat /\ Channel \in Nat \ {0}
BY LimitsAssumption

\* The types of the initial state
LEMMA InitTyped == Init => Typed
<1> SUFFICES ASSUME Init PROVE Typed
  OBVIOUS
<1>1. TypeOK
  BY LimitsAssumption DEF Init, TypeOK, NoJob, NoMap
<1>2. backlog \in [Session -> Seq(Id)] /\ lagged \in [Session -> BOOLEAN]
  BY DEF Init
<1> QED BY <1>1, <1>2 DEF Init, Typed, JobOK, NoJob

\* One more call of the application
LEMMA CallsAreCounted ==
    ASSUME Typed, calls < MaxApp, calls' = calls + 1
    PROVE  calls' \in 0 .. MaxApp
BY LimitsAreNumbers DEF Typed, TypeOK

\* What the steps of the relay itself keep
LEMMA RelayKeepsTypes ==
    ASSUME Typed, Run \/ Listen \/ Shutdown \/ StopListening
    PROVE  Typed'
<1>1. CASE Run
  BY <1>1 DEF Run, Typed, TypeOK, limits, auth, channel, app, Listener
<1>2. CASE Listen
  BY <1>2 DEF Listen, Typed, TypeOK, limits, auth, channel, app, Listener
<1>3. CASE Shutdown
  BY <1>3, CallsAreCounted DEF Shutdown, Typed, TypeOK, limits, auth, channel, app, Listener
<1>4. CASE StopListening
  BY <1>4 DEF StopListening, Typed, TypeOK, limits, auth, channel, app, Listener
<1> QED BY <1>1, <1>2, <1>3, <1>4

\* A broadcast keeps the channel typed.
LEMMA BroadcastKeepsTypes ==
    ASSUME Typed, NEW e \in Id, Broadcast(e)
    PROVE  backlog' \in [Session -> Seq(Id)] /\ lagged' \in [Session -> BOOLEAN]
<1>1. \A s \in Session : backlog[s] \in Seq(Id)
  BY DEF Typed
<1>2. ASSUME NEW s \in Session PROVE backlog'[s] \in Seq(Id)
  <2>1. CASE backlog[s] = <<>>
    BY <2>1, <1>1, <1>2, LimitsAssumption DEF Broadcast
  <2>2. CASE backlog[s] # <<>>
    <3>1. Append(backlog[s], e) \in Seq(Id) /\ Tail(backlog[s]) \in Seq(Id)
      BY <2>2, <1>1
    <3> QED BY <3>1, <1>1 DEF Broadcast
  <2> QED BY <2>1, <2>2
<1>3. ASSUME NEW s \in Session PROVE lagged'[s] \in BOOLEAN
  BY <1>3 DEF Broadcast, Typed
<1> QED BY <1>2, <1>3 DEF Broadcast

\* What the application keeps
LEMMA ApplicationKeepsTypes ==
    ASSUME Typed, NEW e \in AppEvent, AppSave(e) \/ AppNotify(e) \/ notify_event(e)
    PROVE  Typed'
<1>1. e \in Id
  BY AsksAssumption
<1>2. CASE AppSave(e)
  BY <1>1, <1>2, CallsAreCounted DEF AppSave, Typed, TypeOK, limits, auth, channel
<1>3. CASE AppNotify(e)
  <2>1. backlog' \in [Session -> Seq(Id)] /\ lagged' \in [Session -> BOOLEAN]
    BY <1>1, <1>3, BroadcastKeepsTypes DEF AppNotify
  <2> QED BY <2>1, <1>3 DEF AppNotify, Typed, TypeOK, limits, auth
<1>4. CASE notify_event(e)
  <2>1. backlog' \in [Session -> Seq(Id)] /\ lagged' \in [Session -> BOOLEAN]
    BY <1>1, <1>4, BroadcastKeepsTypes DEF notify_event
  <2> QED BY <2>1, <1>4, CallsAreCounted DEF notify_event, Typed, TypeOK, limits, auth
<1> QED BY <1>2, <1>3, <1>4

\* What the task of a session keeps between two messages
LEMMA SessionKeepsTypes ==
    ASSUME Typed, NEW s \in Session,
           Accept(s) \/ Established(s) \/ EndSession(s) \/ Recv(s) \/ RecvLagged(s)
    PROVE  Typed'
<1>1. CASE Accept(s)
  BY <1>1 DEF Accept, Typed, TypeOK, limits, auth, channel, app, Listener
<1>2. CASE Established(s)
  BY <1>2 DEF Established, Typed, TypeOK, limits, auth, channel, app, Listener
<1>3. CASE EndSession(s)
  <2>1. phase' \in [Session -> {"none", "handshake", "select", "busy", "closed"}]
    BY <1>3 DEF EndSession, Typed, TypeOK
  <2>2. \A t \in Session : job'[t].type # "none" <=> phase'[t] = "busy"
    BY <1>3 DEF EndSession, Typed, TypeOK, NoJob
  <2>3. \A t \in Session : DOMAIN sent'[t] = DOMAIN subscriptions'[t]
    BY <1>3 DEF EndSession, Typed, TypeOK, NoMap
  <2>4. challenges' \in [Session -> 0 .. MaxChallenges + 1]
    BY <1>3, LimitsAreNumbers DEF EndSession, Typed, TypeOK
  <2>5. TypeOK'
    BY <1>3, <2>1, <2>2, <2>3, <2>4 DEF EndSession, Typed, TypeOK, app
  <2>6. backlog' \in [Session -> Seq(Id)] /\ lagged' \in [Session -> BOOLEAN]
    BY <1>3 DEF EndSession, Typed
  <2> QED BY <1>3, <2>5, <2>6 DEF EndSession, Typed, JobOK, NoJob
<1>4. CASE Recv(s)
  <2>1. \A t \in Session : DOMAIN sent'[t] = DOMAIN subscriptions'[t]
    BY <1>4 DEF Recv, Typed, TypeOK, limits
  <2>2. backlog' \in [Session -> Seq(Id)]
    BY <1>4 DEF Recv, Typed
  <2>3. TypeOK'
    BY <1>4, <2>1 DEF Recv, Typed, TypeOK, limits, auth, app
  <2> QED BY <1>4, <2>2, <2>3 DEF Recv, Typed, limits, auth
<1>5. CASE RecvLagged(s)
  <2>1. \A t \in Session : DOMAIN sent'[t] = DOMAIN subscriptions'[t]
    BY <1>5 DEF RecvLagged, Typed, TypeOK, NoMap
  <2>2. backlog' \in [Session -> Seq(Id)] /\ lagged' \in [Session -> BOOLEAN]
    BY <1>5 DEF RecvLagged, Typed
  <2>3. TypeOK'
    BY <1>5, <2>1 DEF RecvLagged, Typed, TypeOK, auth, app
  <2> QED BY <1>5, <2>2, <2>3 DEF RecvLagged, Typed, auth
<1> QED BY <1>1, <1>2, <1>3, <1>4, <1>5

\* A session turns to another job, or to none, and the rest stays typed.
TurnsTo(s, j) ==
    /\ job' = [job EXCEPT ![s] = j]
    /\ phase' = [phase EXCEPT ![s] = IF j.type = "none" THEN "select" ELSE "busy"]
    /\ notified' \subseteq notified
    /\ messages' \in 0 .. MaxMessages
    /\ UNCHANGED <<listener, app>>
RestTyped ==
    /\ Session = DOMAIN subscriptions' /\ Session = DOMAIN sent'
    /\ Session = DOMAIN public_key' /\ Session = DOMAIN proved' /\ Session = DOMAIN unguarded'
    /\ \A t \in Session : DOMAIN sent'[t] = DOMAIN subscriptions'[t]
    /\ challenges' \in [Session -> 0 .. MaxChallenges + 1]
    /\ stored \subseteq stored' /\ stored' \subseteq Id
    /\ backlog' \in [Session -> Seq(Id)] /\ lagged' \in [Session -> BOOLEAN]

LEMMA TurningKeepsTypes ==
    ASSUME Typed, NEW s \in Session, NEW j, JobOK(j), TurnsTo(s, j), RestTyped
    PROVE  Typed'
<1>1. \A t \in Session : JobOK(job'[t])
  BY DEF Typed, TurnsTo
<1>2. phase' \in [Session -> {"none", "handshake", "select", "busy", "closed"}]
  BY DEF TurnsTo, Typed, TypeOK
<1>3. \A t \in Session : job'[t].type # "none" <=> phase'[t] = "busy"
  BY DEF TurnsTo, Typed, TypeOK
<1>4. TypeOK'
  BY <1>2, <1>3 DEF TurnsTo, RestTyped, Typed, TypeOK, app
<1> QED BY <1>1, <1>4 DEF TurnsTo, RestTyped, Typed

\* What leaves the registrations and the rest as they are
LEMMA UnchangedIsTyped ==
    ASSUME Typed,
           UNCHANGED <<subscriptions, sent, public_key, proved, challenges, stored, backlog, lagged>>,
           Session = DOMAIN unguarded'
    PROVE  RestTyped
BY DEF Typed, TypeOK, RestTyped

\* A message is taken.
LEMMA TakingTurns ==
    ASSUME Typed, NEW s \in Session, NEW j, JobOK(j), j = NoJob <=> j.type = "none", Take(s, j)
    PROVE  TurnsTo(s, j) /\ UNCHANGED <<channel, stored>>
<1>1. messages' \in 0 .. MaxMessages
  BY LimitsAreNumbers DEF Take, Typed, TypeOK
<1> QED BY <1>1 DEF Take, TurnsTo

LEMMA NoJobIsOK == JobOK(NoJob)
BY DEF JobOK, NoJob

\* A challenge more is one of those kept, or the first.
LEMMA ChallengesAreCounted ==
    ASSUME Typed, NEW s \in Session, generate_challenge(s)
    PROVE  challenges' \in [Session -> 0 .. MaxChallenges + 1]
<1>1. challenges[s] \in 0 .. MaxChallenges + 1
  BY DEF Typed, TypeOK
<1>2. (IF challenges[s] > MaxChallenges THEN 1 ELSE challenges[s] + 1) \in 0 .. MaxChallenges + 1
  BY <1>1, LimitsAreNumbers
<1> QED BY <1>2 DEF generate_challenge, Typed, TypeOK

\* A message that is refused, answered at once or that ends something
LEMMA AnswersKeepTypes ==
    ASSUME Typed, NEW s \in Session, NEW m,
           \/ Refused(s, m) \/ HandleCount(s, m) \/ check_challenge(s, m.key)
           \/ remove_subscription(s, m.id) \/ EndNeg(s, m.id)
    PROVE  Typed'
<1>1. Take(s, NoJob)
  BY DEF Refused, HandleCount, check_challenge, remove_subscription, EndNeg
<1>2. NoJob.type = "none"
  BY DEF NoJob
<1>3. TurnsTo(s, NoJob) /\ UNCHANGED <<channel, stored>>
  BY <1>1, <1>2, NoJobIsOK, TakingTurns
<1>4. CASE Refused(s, m)
  <2>1. UNCHANGED <<subscriptions, sent, public_key, proved, unguarded>>
    BY <1>4 DEF Refused, limits
  <2>2. challenges' \in [Session -> 0 .. MaxChallenges + 1]
    <3>1. CASE UNCHANGED challenges
      BY <3>1 DEF Typed, TypeOK
    <3>2. CASE generate_challenge(s)
      BY <3>2, ChallengesAreCounted
    <3> QED BY <3>1, <3>2, <1>4 DEF Refused
  <2>3. RestTyped
    BY <1>3, <2>1, <2>2 DEF Typed, TypeOK, RestTyped, channel
  <2> QED BY <1>3, <2>3, NoJobIsOK, TurningKeepsTypes
<1>5. CASE HandleCount(s, m)
  <2>1. RestTyped
    BY <1>3, <1>5, UnchangedIsTyped DEF HandleCount, limits, auth, channel, Typed
  <2> QED BY <1>3, <2>1, NoJobIsOK, TurningKeepsTypes
<1>6. CASE check_challenge(s, m.key)
  <2>1. challenges' \in [Session -> 0 .. MaxChallenges + 1]
    <3>1. challenges[s] \in 0 .. MaxChallenges + 1
      BY DEF Typed, TypeOK
    <3>2. challenges[s] - 1 \in 0 .. MaxChallenges + 1
      BY <1>6, <3>1, LimitsAreNumbers DEF check_challenge
    <3> QED BY <1>6, <3>2 DEF check_challenge, Typed, TypeOK
  <2>2. RestTyped
    BY <1>3, <1>6, <2>1 DEF check_challenge, Typed, TypeOK, RestTyped, channel, limits
  <2> QED BY <1>3, <2>2, NoJobIsOK, TurningKeepsTypes
<1>7. CASE remove_subscription(s, m.id)
  <2>1. \A t \in Session : DOMAIN sent'[t] = DOMAIN subscriptions'[t]
    BY <1>7 DEF remove_subscription, Typed, TypeOK, Without
  <2>2. RestTyped
    BY <1>3, <1>7, <2>1 DEF remove_subscription, Typed, TypeOK, RestTyped, channel, auth
  <2> QED BY <1>3, <2>2, NoJobIsOK, TurningKeepsTypes
<1>8. CASE EndNeg(s, m.id)
  <2>1. RestTyped
    BY <1>3, <1>8, UnchangedIsTyped DEF EndNeg, auth, channel, Typed
  <2> QED BY <1>3, <2>1, NoJobIsOK, TurningKeepsTypes
<1> QED BY <1>4, <1>5, <1>6, <1>7, <1>8

\* The jobs that messages start
Starts(s, j) ==
    /\ Take(s, j) /\ JobOK(j) /\ j.type # "none"
    /\ UNCHANGED <<limits, public_key, challenges, proved, sent>>
    /\ Session = DOMAIN unguarded'
    /\ \A t \in Session : unguarded[t] \subseteq unguarded'[t] /\ (t # s => unguarded'[t] = unguarded[t])

LEMMA StartsKeepTypes ==
    ASSUME Typed, NEW s \in Session, NEW j, Starts(s, j)
    PROVE  Typed'
<1>1. j # NoJob
  BY DEF Starts, NoJob
<1>2. TurnsTo(s, j) /\ UNCHANGED <<channel, stored>>
  BY <1>1, TakingTurns DEF Starts
<1>3. RestTyped
  BY <1>2, UnchangedIsTyped DEF Starts, limits, channel, Typed
<1> QED BY <1>2, <1>3, TurningKeepsTypes DEF Starts

\* The jobs of HandleEvent, HandleReq and HandleNegOpen
Write(e) == [type |-> "write", event |-> e]
QueryOf(m) ==
    LET filters == {Clamped(f) : f \in m.filters}
    IN [type |-> "query", id |-> m.id, size |-> m.size, filters |-> filters,
        rest |-> filters, found |-> {}, cut |-> {}]
ReconcileOf(m) == [type |-> "reconcile", id |-> m.id, filters |-> m.filters]

LEMMA HandlersStart ==
    ASSUME Typed, NEW s \in Session, NEW m \in Asks(s)
    PROVE  /\ m.type = "EVENT" /\ HandleEvent(s, m.event) => Starts(s, Write(m.event))
           /\ HandleReq(s, m) => Starts(s, QueryOf(m))
           /\ HandleNegOpen(s, m) => Starts(s, ReconcileOf(m))
<1>1. m.type = "EVENT" => JobOK(Write(m.event)) /\ Write(m.event).type # "none"
  BY AsksAssumption DEF JobOK, Write
<1>2. JobOK(QueryOf(m)) /\ QueryOf(m).type # "none"
  BY DEF JobOK, QueryOf, QueryJob
<1>3. JobOK(ReconcileOf(m)) /\ ReconcileOf(m).type # "none"
  BY DEF JobOK, ReconcileOf
<1>7. unguarded' = unguarded => Session = DOMAIN unguarded'
  BY DEF Typed
<1>4. m.type = "EVENT" /\ HandleEvent(s, m.event) => Starts(s, Write(m.event))
  BY <1>1, <1>7 DEF HandleEvent, Starts, Write, auth
<1>5. HandleReq(s, m) => Starts(s, QueryOf(m))
  BY <1>2 DEF HandleReq, Starts, QueryOf, Typed
<1>6. HandleNegOpen(s, m) => Starts(s, ReconcileOf(m))
  BY <1>3, <1>7 DEF HandleNegOpen, Starts, ReconcileOf, auth
<1> QED BY <1>4, <1>5, <1>6

\* Each message
LEMMA HandlingKeepsTypes ==
    ASSUME Typed, NEW s \in Session, NEW m \in Asks(s), Handle(s, m)
    PROVE  Typed'
<1>1. CASE \/ Refused(s, m) \/ HandleCount(s, m) \/ check_challenge(s, m.key)
           \/ remove_subscription(s, m.id) \/ EndNeg(s, m.id)
  BY <1>1, AnswersKeepTypes
<1>2. CASE m.type = "EVENT" /\ HandleEvent(s, m.event)
  BY <1>2, HandlersStart, StartsKeepTypes
<1>3. CASE HandleReq(s, m)
  BY <1>3, HandlersStart, StartsKeepTypes
<1>4. CASE HandleNegOpen(s, m)
  BY <1>4, HandlersStart, StartsKeepTypes
<1> QED BY <1>1, <1>2, <1>3, <1>4 DEF Handle

\* The job of a session goes on, or is over.
LEMMA GoingOnTurns ==
    ASSUME Typed, NEW s \in Session, job[s].type # "none",
           NEW j, Continue(s, j), JobOK(j), j.type # "none"
    PROVE  TurnsTo(s, j)
<1>1. phase' = [phase EXCEPT ![s] = "busy"]
  BY DEF Continue, Typed, TypeOK
<1>2. messages \in 0 .. MaxMessages
  BY DEF Typed, TypeOK
<1> QED BY <1>1, <1>2 DEF Continue, TurnsTo, app

LEMMA DoneTurns ==
    ASSUME Typed, NEW s \in Session, Done(s)
    PROVE  TurnsTo(s, NoJob)
<1>1. messages \in 0 .. MaxMessages
  BY DEF Typed, TypeOK
<1> QED BY <1>1 DEF Done, TurnsTo, NoJob, app

\* The event of a client is checked, saved and announced.
LEMMA SavingKeepsTypes ==
    ASSUME Typed, NEW s \in Session, CheckId(s) \/ SaveEvent(s) \/ Announce(s)
    PROVE  Typed'
<1> DEFINE e == job[s].event
           save == [type |-> "save", event |-> e]
           saved == [type |-> "saved", event |-> e]
<1>1. job[s].type # "none" /\ e \in Id
  BY DEF CheckId, SaveEvent, Announce, Typed, JobOK
<1>2. JobOK(save) /\ JobOK(saved) /\ save.type # "none" /\ saved.type # "none"
  BY <1>1 DEF JobOK
<1>3. Done(s) => TurnsTo(s, NoJob)
  BY DoneTurns
<1>4. /\ Continue(s, save) => TurnsTo(s, save)
      /\ Continue(s, saved) => TurnsTo(s, saved)
  BY <1>1, <1>2, GoingOnTurns
<1>5. Broadcast(e) => backlog' \in [Session -> Seq(Id)] /\ lagged' \in [Session -> BOOLEAN]
  BY <1>1, BroadcastKeepsTypes
<1>6. UNCHANGED channel => backlog' \in [Session -> Seq(Id)] /\ lagged' \in [Session -> BOOLEAN]
  BY DEF Typed, channel
<1> HIDE DEF e, save, saved
<1>7. CASE CheckId(s)
  <2>1. RestTyped
    BY <1>5, <1>6, <1>7 DEF CheckId, e, Typed, TypeOK, RestTyped, limits, auth
  <2>2. Done(s) \/ Continue(s, save)
    BY <1>7 DEF CheckId, e, save
  <2> QED BY <2>1, <2>2, <1>2, <1>3, <1>4, NoJobIsOK, TurningKeepsTypes
<1>8. CASE SaveEvent(s)
  <2>1. RestTyped
    BY <1>1, <1>6, <1>8 DEF SaveEvent, e, Typed, TypeOK, RestTyped, limits, auth
  <2>2. Done(s) \/ Continue(s, saved)
    BY <1>8 DEF SaveEvent, e, saved
  <2> QED BY <2>1, <2>2, <1>2, <1>3, <1>4, NoJobIsOK, TurningKeepsTypes
<1>9. CASE Announce(s)
  <2>1. RestTyped
    BY <1>5, <1>9 DEF Announce, e, Typed, TypeOK, RestTyped, limits, auth
  <2>2. Done(s)
    BY <1>9 DEF Announce
  <2> QED BY <2>1, <2>2, <1>3, NoJobIsOK, TurningKeepsTypes
<1> QED BY <1>7, <1>8, <1>9

\* A REQ and a NEG-OPEN are answered from the database.
LEMMA AnsweringKeepsTypes ==
    ASSUME Typed, NEW s \in Session, Query(s) \/ FinishReq(s) \/ Reconcile(s)
    PROVE  Typed'
<1>1. CASE Query(s)
  <2> DEFINE next(f) == [job[s] EXCEPT !.rest = @ \ {f}, !.found = @ \cup Answer(stored, f),
                          !.cut = @ \cup ({e \in stored : match_event(f, e)} \ Answer(stored, f))]
  <2>1. PICK f \in job[s].rest : Continue(s, next(f))
    BY <1>1 DEF Query
  <2>2. JobOK(job[s]) /\ job[s].type = "query"
    BY <1>1 DEF Query, Typed
  <2>3. next(f).type = "query" /\ DOMAIN next(f) = QueryJob
    BY <2>2 DEF JobOK, QueryJob
  <2>4. next(f).rest = job[s].rest \ {f} /\ next(f).filters = job[s].filters
    BY <2>2 DEF JobOK, QueryJob
  <2> HIDE DEF next
  <2>5. JobOK(next(f))
    BY <2>2, <2>3, <2>4 DEF JobOK
  <2>6. TurnsTo(s, next(f))
    BY <2>1, <2>2, <2>3, <2>5, GoingOnTurns
  <2>7. RestTyped
    BY <1>1, UnchangedIsTyped DEF Query, limits, auth, channel, Typed
  <2> QED BY <2>5, <2>6, <2>7, TurningKeepsTypes
<1>2. CASE FinishReq(s)
  <2>1. TurnsTo(s, NoJob)
    BY <1>2, DoneTurns DEF FinishReq
  <2>2. /\ Session = DOMAIN subscriptions' /\ Session = DOMAIN sent'
        /\ \A t \in Session : DOMAIN sent'[t] = DOMAIN subscriptions'[t]
    <3>1. CASE AllFound(job[s])
      BY <1>2, <3>1 DEF FinishReq, Typed, TypeOK
    <3>2. CASE ~AllFound(job[s])
      <4>1. PICK v, w : /\ subscriptions' = [subscriptions EXCEPT ![s] = With(@, job[s].id, v)]
                        /\ sent' = [sent EXCEPT ![s] = With(@, job[s].id, w)]
        BY <1>2, <3>2 DEF FinishReq
      <4>2. /\ subscriptions'[s] = With(subscriptions[s], job[s].id, v)
            /\ sent'[s] = With(sent[s], job[s].id, w)
        BY <4>1 DEF Typed
      <4>3. DOMAIN sent'[s] = DOMAIN subscriptions'[s]
        <5>1. DOMAIN With(subscriptions[s], job[s].id, v) = DOMAIN subscriptions[s] \cup {job[s].id}
          BY DEF With
        <5>2. DOMAIN With(sent[s], job[s].id, w) = DOMAIN sent[s] \cup {job[s].id}
          BY DEF With
        <5> QED BY <4>2, <5>1, <5>2 DEF Typed, TypeOK
      <4> QED BY <4>1, <4>3 DEF Typed, TypeOK
    <3> QED BY <3>1, <3>2
  <2>3. RestTyped
    BY <1>2, <2>2 DEF FinishReq, Typed, TypeOK, RestTyped, auth, channel
  <2> QED BY <2>1, <2>3, NoJobIsOK, TurningKeepsTypes
<1>3. CASE Reconcile(s)
  <2>1. TurnsTo(s, NoJob)
    BY <1>3, DoneTurns DEF Reconcile
  <2>2. RestTyped
    BY <1>3, UnchangedIsTyped DEF Reconcile, auth, channel, Typed
  <2> QED BY <2>1, <2>2, NoJobIsOK, TurningKeepsTypes
<1> QED BY <1>1, <1>2, <1>3

\* Types are kept by every step.
LEMMA NextTyped == Typed /\ [Next]_vars => Typed'
<1> SUFFICES ASSUME Typed, [Next]_vars PROVE Typed'
  OBVIOUS
<1>1. CASE Run \/ Listen \/ Shutdown \/ StopListening
  BY <1>1, RelayKeepsTypes
<1>2. ASSUME NEW e \in AppEvent, AppSave(e) \/ AppNotify(e) \/ notify_event(e) PROVE Typed'
  BY <1>2, ApplicationKeepsTypes
<1>3. ASSUME NEW s \in Session, SessionStep(s) PROVE Typed'
  <2>1. ASSUME NEW m \in Asks(s), Handle(s, m) PROVE Typed'
    BY <2>1, HandlingKeepsTypes
  <2> QED BY <1>3, <2>1, SessionKeepsTypes, SavingKeepsTypes, AnsweringKeepsTypes DEF SessionStep
<1>4. CASE UNCHANGED vars
  BY <1>4 DEF vars, Typed, TypeOK
<1> QED BY <1>1, <1>2, <1>3, <1>4 DEF Next

\* The sessions, their jobs, their registrations and their parts of the channel
\* have their types in every state of the local relay (Session of inner.rs).
THEOREM TypesCorrect == Spec => []Typed
BY InitTyped, NextTyped, PTL DEF Spec

-----------------------------------------------------------------------------
(* Gift wraps                                                              *)

\* A filter that names only keys of the session matches only what it may see.
LEMMA OwnWrapsAreSeen ==
    ASSUME NEW s \in Session, NEW filters, OwnWraps(s, filters),
           NEW f \in filters, NEW e, match_event(f, e)
    PROVE  MaySee(s, e)
BY DEF OwnWraps, MaySee, Matches, match_event, tag_match

\* The answer of the database matches, and what is stored and matches is in the
\* answer or cut off.
LEMMA AnswersMatch ==
    ASSUME NEW S, NEW f
    PROVE  \A e \in Answer(S, f) : e \in S /\ match_event(f, e)
BY DEF Answer, Newest, NewestN, FirstN

\* A request that passes the check asks for the session's own gift wraps, or
\* with an empty list of kinds.
LEMMA AllowedAreOwn ==
    ASSUME NEW s \in Session, AccessOf(s), NEW m \in Asks(s), m.type = "REQ",
           gift_wrap_query_access(s, m.filters) = "Allowed",
           NEW f \in m.filters, auth_dm, ~Unguarded(Clamped(f)),
           Clamped(f).kinds = {} \/ GiftWrap \in Clamped(f).kinds
    PROVE  "p" \in DOMAIN Clamped(f).tags /\ Clamped(f).tags["p"] \subseteq proved[s]
<1>1. /\ Clamped(f).kinds = f.kinds /\ Clamped(f).tags = f.tags
      /\ Clamped(f).given = f.given
  BY AsksAssumption DEF Clamped, AskedField, AnyFilter
<1>2. f \in {g \in m.filters : MaySelectWraps(g)}
  BY <1>1 DEF MaySelectWraps, Unguarded
<1>3. IsAuthenticated(s) /\ "p" \in DOMAIN f.tags /\ f.tags["p"] = {public_key[s]}
  BY <1>2 DEF gift_wrap_query_access
<1>4. public_key[s] \in proved[s]
  BY <1>3 DEF AccessOf, IsAuthenticated
<1> QED BY <1>1, <1>3, <1>4

\* Nothing of the session that the invariant is about changes.
LEMMA SameAccess ==
    ASSUME NEW t \in Session, AccessOf(t),
           subscriptions'[t] = subscriptions[t], sent'[t] = sent[t], job'[t] = job[t],
           public_key'[t] = public_key[t], proved'[t] = proved[t], unguarded'[t] = unguarded[t]
    PROVE  AccessOf(t)'
BY DEF AccessOf, OwnWraps, MaySee, Matches

\* Keys are added, subscriptions are dropped, the session may see what is sent.
LEMMA AccessGrows ==
    ASSUME NEW s \in Session, AccessOf(s),
           proved[s] \subseteq proved'[s], unguarded[s] \subseteq unguarded'[s], public_key'[s] \in proved'[s] \cup {Nobody},
           \A id \in DOMAIN subscriptions'[s] :
              id \in DOMAIN subscriptions[s] /\ subscriptions'[s][id] = subscriptions[s][id],
           \A id \in DOMAIN sent'[s] : \A e \in sent'[s][id] :
              (id \in DOMAIN sent[s] /\ e \in sent[s][id]) \/ MaySee(s, e),
           job'[s].type # "query"
    PROVE  AccessOf(s)'
<1>1. \A e : MaySee(s, e) => MaySee(s, e)'
  BY DEF MaySee, Matches
<1>3. \A id \in DOMAIN subscriptions'[s] : OwnWraps(s, subscriptions[s][id].filters)'
  <2> SUFFICES ASSUME NEW id \in DOMAIN subscriptions'[s]
               PROVE  OwnWraps(s, subscriptions[s][id].filters)'
    OBVIOUS
  <2>1. OwnWraps(s, subscriptions[s][id].filters) /\ subscriptions'[s][id] = subscriptions[s][id]
    BY DEF AccessOf
  <2> QED BY <2>1 DEF OwnWraps
<1>4. \A id \in DOMAIN sent'[s] : \A e \in sent'[s][id] : MaySee(s, e)'
  BY <1>1 DEF AccessOf
<1> QED BY <1>3, <1>4 DEF AccessOf

\* What a step of one session leaves of the others
LEMMA OtherSessions ==
    ASSUME Typed, NEW s \in Session, SessionStep(s), NEW t \in Session \ {s}
    PROVE  /\ subscriptions'[t] = subscriptions[t] /\ sent'[t] = sent[t] /\ job'[t] = job[t]
           /\ public_key'[t] = public_key[t] /\ proved'[t] = proved[t]
           /\ unguarded'[t] = unguarded[t]
<1>1. CASE Accept(s) \/ Established(s)
  BY <1>1 DEF Accept, Established, limits, auth
<1>2. CASE EndSession(s)
  BY <1>2 DEF EndSession, Typed
<1>3. CASE Recv(s) \/ RecvLagged(s)
  BY <1>3 DEF Recv, RecvLagged, Typed, limits, auth
<1>4. CASE CheckId(s) \/ SaveEvent(s) \/ Announce(s) \/ Query(s) \/ Reconcile(s)
  BY <1>4 DEF CheckId, SaveEvent, Announce, Query, Reconcile, Done, Continue, Typed, limits, auth
<1>5. CASE FinishReq(s)
  BY <1>5 DEF FinishReq, Done, Typed, auth
<1>6. ASSUME NEW m \in Asks(s), Handle(s, m)
      PROVE  /\ subscriptions'[t] = subscriptions[t] /\ sent'[t] = sent[t] /\ job'[t] = job[t]
             /\ public_key'[t] = public_key[t] /\ proved'[t] = proved[t]
             /\ unguarded'[t] = unguarded[t]
  <2>1. CASE Refused(s, m) \/ HandleCount(s, m) \/ EndNeg(s, m.id)
    BY <2>1 DEF Refused, HandleCount, EndNeg, Take, Typed, limits, auth
  <2>2. CASE remove_subscription(s, m.id) \/ check_challenge(s, m.key)
    BY <2>2 DEF remove_subscription, check_challenge, Take, Typed, limits, auth
  <2>3. CASE HandleEvent(s, m.event) \/ HandleReq(s, m) \/ HandleNegOpen(s, m)
    BY <2>3 DEF HandleEvent, HandleReq, HandleNegOpen, Take, Typed, limits, auth
  <2> QED BY <1>6, <2>1, <2>2, <2>3 DEF Handle
<1> QED BY <1>1, <1>2, <1>3, <1>4, <1>5, <1>6 DEF SessionStep

\* The wait for a message
LEMMA SessionKeepsAccess ==
    ASSUME Typed, NEW s \in Session, AccessOf(s),
           Accept(s) \/ Established(s) \/ EndSession(s) \/ Recv(s) \/ RecvLagged(s)
    PROVE  AccessOf(s)'
<1>1. CASE Accept(s) \/ Established(s)
  BY <1>1, SameAccess DEF Accept, Established, limits, auth
<1>2. CASE EndSession(s)
  BY <1>2 DEF EndSession, Typed, AccessOf, NoMap, NoJob
<1>3. CASE Recv(s)
  <2>1. /\ subscriptions'[s] = subscriptions[s] /\ public_key'[s] = public_key[s]
        /\ proved'[s] = proved[s] /\ unguarded'[s] = unguarded[s] /\ job'[s].type # "query"
    BY <1>3 DEF Recv, Typed, TypeOK, limits, auth
  <2>2. \A id \in DOMAIN sent'[s] : \A e \in sent'[s][id] :
          (id \in DOMAIN sent[s] /\ e \in sent[s][id])
          \/ (id \in DOMAIN subscriptions[s] /\ Matches(subscriptions[s][id].filters, e))
    BY <1>3 DEF Recv, Typed, TypeOK
  <2>3. \A id \in DOMAIN subscriptions[s] : \A e :
          Matches(subscriptions[s][id].filters, e) => MaySee(s, e)
    BY OwnWrapsAreSeen DEF AccessOf, Matches
  <2> QED BY <2>1, <2>2, <2>3, AccessGrows DEF AccessOf
<1>4. CASE RecvLagged(s)
  <2>1. /\ DOMAIN subscriptions'[s] = {} /\ DOMAIN sent'[s] = {}
        /\ public_key'[s] = public_key[s] /\ proved'[s] = proved[s] /\ unguarded'[s] = unguarded[s]
        /\ job'[s].type # "query"
    BY <1>4 DEF RecvLagged, Typed, TypeOK, NoMap, auth
  <2> QED BY <2>1 DEF AccessOf
<1> QED BY <1>1, <1>2, <1>3, <1>4

\* The messages
LEMMA HandlingKeepsAccess ==
    ASSUME Typed, NEW s \in Session, AccessOf(s), NEW m \in Asks(s), Handle(s, m)
    PROVE  AccessOf(s)'
<1>1. CASE Refused(s, m) \/ HandleCount(s, m) \/ EndNeg(s, m.id)
  <2>1. /\ subscriptions'[s] = subscriptions[s] /\ sent'[s] = sent[s]
        /\ public_key'[s] = public_key[s] /\ proved'[s] = proved[s] /\ unguarded'[s] = unguarded[s]
    BY <1>1 DEF Refused, HandleCount, EndNeg, limits, auth
  <2>2. job'[s].type # "query"
    <3>1. Take(s, NoJob)
      BY <1>1 DEF Refused, HandleCount, EndNeg
    <3> QED BY <3>1 DEF Take, Typed, NoJob
  <2> QED BY <2>1, <2>2, AccessGrows DEF AccessOf
<1>2. CASE remove_subscription(s, m.id)
  <2>1. /\ subscriptions'[s] = Without(subscriptions[s], m.id) /\ sent'[s] = Without(sent[s], m.id)
        /\ public_key'[s] = public_key[s] /\ proved'[s] = proved[s] /\ unguarded'[s] = unguarded[s]
    BY <1>2 DEF remove_subscription, Typed, auth
  <2>2. job'[s].type # "query"
    BY <1>2 DEF remove_subscription, Take, Typed, NoJob
  <2>3. \A id \in DOMAIN subscriptions'[s] :
          id \in DOMAIN subscriptions[s] /\ subscriptions'[s][id] = subscriptions[s][id]
    BY <2>1 DEF Without
  <2>4. \A id \in DOMAIN sent'[s] : id \in DOMAIN sent[s] /\ sent'[s][id] = sent[s][id]
    BY <2>1 DEF Without
  <2> QED BY <2>1, <2>2, <2>3, <2>4, AccessGrows DEF AccessOf
<1>3. CASE check_challenge(s, m.key)
  <2>1. /\ subscriptions'[s] = subscriptions[s] /\ sent'[s] = sent[s]
        /\ public_key'[s] = m.key /\ proved'[s] = proved[s] \cup {m.key}
        /\ unguarded'[s] = unguarded[s]
    BY <1>3 DEF check_challenge, Typed, limits
  <2>2. job'[s].type # "query"
    BY <1>3 DEF check_challenge, Take, Typed, NoJob
  <2> QED BY <2>1, <2>2, AccessGrows
<1>4. ASSUME NEW j, Starts(s, j), j.type # "query" PROVE AccessOf(s)'
  <2>1. job'[s] = j /\ unguarded[s] \subseteq unguarded'[s]
    BY <1>4 DEF Starts, Take, Typed
  <2> QED BY <1>4, <2>1, AccessGrows DEF Starts, limits, AccessOf
<1>5. CASE m.type = "EVENT" /\ HandleEvent(s, m.event)
  BY <1>4, <1>5, HandlersStart DEF Write
<1>6. CASE HandleNegOpen(s, m)
  BY <1>4, <1>6, HandlersStart DEF ReconcileOf
<1>7. CASE m.type = "REQ" /\ HandleReq(s, m)
  <2>1. job'[s] = QueryOf(m) /\ UNCHANGED <<limits, public_key, proved, sent>>
    <3>1. Starts(s, QueryOf(m))
      BY <1>7, HandlersStart
    <3> QED BY <3>1 DEF Starts, Take, Typed
  <2>2. unguarded'[s] = unguarded[s] \cup {f \in QueryOf(m).filters : Unguarded(f)}
    <3>1. unguarded' = [unguarded EXCEPT ![s] = @ \cup {f \in QueryOf(m).filters : Unguarded(f)}]
      BY <1>7 DEF HandleReq, QueryOf
    <3> QED BY <3>1 DEF Typed
  <2>3. OwnWraps(s, QueryOf(m).filters)'
    <3> SUFFICES ASSUME NEW g \in QueryOf(m).filters, auth_dm,
                        g.kinds = {} \/ GiftWrap \in g.kinds, ~Unguarded(g)
                 PROVE  "p" \in DOMAIN g.tags /\ g.tags["p"] \subseteq proved[s]
      BY <2>1, <2>2 DEF OwnWraps, QueryOf, Unguarded
    <3>1. PICK f \in m.filters : g = Clamped(f)
      BY DEF QueryOf
    <3> QED BY <1>7, <3>1, AllowedAreOwn DEF HandleReq
  <2>4. QueryOf(m).found = {}
    BY DEF QueryOf
  <2>5. \A e : MaySee(s, e) => MaySee(s, e)'
    BY <2>1, <2>2 DEF MaySee, Matches
  <2>6. \A filters : OwnWraps(s, filters) => OwnWraps(s, filters)'
    BY <2>1, <2>2 DEF OwnWraps
  <2>7. ASSUME NEW id \in DOMAIN subscriptions[s] PROVE OwnWraps(s, subscriptions[s][id].filters)'
    <3> PICK filters : filters = subscriptions[s][id].filters
      OBVIOUS
    <3>1. filters = subscriptions'[s][id].filters
      BY <2>1 DEF limits
    <3>2. OwnWraps(s, filters)'
      BY <2>6 DEF AccessOf
    <3> HIDE DEF OwnWraps
    <3> QED BY <3>1, <3>2
  <2> QED BY <2>1, <2>3, <2>4, <2>5, <2>7 DEF AccessOf, limits
<1> QED BY <1>1, <1>2, <1>3, <1>5, <1>6, <1>7 DEF Handle

\* The jobs
LEMMA WorkingKeepsAccess ==
    ASSUME Typed, NEW s \in Session, AccessOf(s),
           \/ CheckId(s) \/ SaveEvent(s) \/ Announce(s)
           \/ Query(s) \/ FinishReq(s) \/ Reconcile(s)
    PROVE  AccessOf(s)'
<1>1. CASE CheckId(s) \/ SaveEvent(s) \/ Announce(s) \/ Reconcile(s)
  <2>1. /\ subscriptions'[s] = subscriptions[s] /\ sent'[s] = sent[s]
        /\ public_key'[s] = public_key[s] /\ proved'[s] = proved[s] /\ unguarded'[s] = unguarded[s]
    BY <1>1 DEF CheckId, SaveEvent, Announce, Reconcile, limits, auth
  <2>2. job'[s].type # "query"
    <3>1. Done(s) => job'[s].type # "query"
      <4>1. Done(s) => job'[s] = NoJob
        BY DEF Done, Typed
      <4> QED BY <4>1 DEF NoJob
    <3>2. \A j : Continue(s, j) => job'[s] = j
      BY DEF Continue, Typed
    <3>3. \/ Done(s)
          \/ Continue(s, [type |-> "save", event |-> job[s].event])
          \/ Continue(s, [type |-> "saved", event |-> job[s].event])
      BY <1>1 DEF CheckId, SaveEvent, Announce, Reconcile
    <3> QED BY <3>1, <3>2, <3>3
  <2> QED BY <2>1, <2>2, AccessGrows DEF AccessOf
<1>2. CASE Query(s)
  <2> DEFINE next(f) == [job[s] EXCEPT !.rest = @ \ {f}, !.found = @ \cup Answer(stored, f),
                          !.cut = @ \cup ({e \in stored : match_event(f, e)} \ Answer(stored, f))]
  <2>1. PICK f \in job[s].rest : job'[s] = next(f)
    BY <1>2 DEF Query, Continue, Typed
  <2>2. JobOK(job[s]) /\ job[s].type = "query"
    BY <1>2 DEF Query, Typed
  <2>3. job'[s].filters = job[s].filters /\ job'[s].found = job[s].found \cup Answer(stored, f)
    BY <2>1, <2>2 DEF JobOK, QueryJob
  <2>4. f \in job[s].filters /\ OwnWraps(s, job[s].filters)
    BY <2>1, <2>2 DEF JobOK, AccessOf
  <2>5. \A e \in Answer(stored, f) : MaySee(s, e)
    BY <2>4, AnswersMatch, OwnWrapsAreSeen
  <2> HIDE DEF next
  <2>6. UNCHANGED <<subscriptions, sent, public_key, proved, unguarded>>
    BY <1>2 DEF Query, limits, auth
  <2> QED BY <2>2, <2>3, <2>5, <2>6 DEF AccessOf, OwnWraps, MaySee, Matches
<1>3. CASE FinishReq(s)
  <2> DEFINE j == job[s]
  <2>1. j.type = "query" /\ job'[s].type # "query" /\ UNCHANGED <<public_key, proved, unguarded>>
    BY <1>3 DEF FinishReq, Done, Typed, NoJob, auth
  <2>2. OwnWraps(s, j.filters) /\ \A e \in j.found : MaySee(s, e)
    BY <2>1 DEF AccessOf
  <2>3. \A id \in DOMAIN subscriptions'[s] :
          \/ id \in DOMAIN subscriptions[s] /\ subscriptions'[s][id] = subscriptions[s][id]
          \/ subscriptions'[s][id].filters = j.filters
    <3>1. CASE AllFound(j)
      BY <1>3, <3>1 DEF FinishReq
    <3>2. CASE ~AllFound(j)
      <4>1. PICK v : subscriptions' = [subscriptions EXCEPT ![s] = With(@, j.id, v)]
                     /\ v.filters = j.filters
        BY <1>3, <3>2 DEF FinishReq
      <4>2. subscriptions'[s] = With(subscriptions[s], j.id, v)
        BY <4>1 DEF Typed
      <4> QED BY <4>1, <4>2 DEF With
    <3> QED BY <3>1, <3>2
  <2>4. \A id \in DOMAIN sent'[s] : \A e \in sent'[s][id] :
          (id \in DOMAIN sent[s] /\ e \in sent[s][id]) \/ e \in j.found
    <3>1. CASE AllFound(j)
      <4>1. CASE j.id \in DOMAIN sent[s]
        <5>1. sent'[s] = [sent[s] EXCEPT ![j.id] = @ \cup j.found]
          BY <1>3, <3>1, <4>1 DEF FinishReq, Typed
        <5> HIDE DEF j
        <5> QED BY <4>1, <5>1
      <4>2. CASE j.id \notin DOMAIN sent[s]
        BY <1>3, <3>1, <4>2 DEF FinishReq
      <4> QED BY <4>1, <4>2
    <3>2. CASE ~AllFound(j)
      <4>1. sent'[s] = With(sent[s], j.id, j.found)
        BY <1>3, <3>2 DEF FinishReq, Typed
      <4> QED BY <4>1 DEF With
    <3> QED BY <3>1, <3>2
  <2> HIDE DEF j
  <2>5. \A id \in DOMAIN subscriptions'[s] : OwnWraps(s, subscriptions'[s][id].filters)
    BY <2>2, <2>3 DEF AccessOf
  <2>6. \A id \in DOMAIN sent'[s] : \A e \in sent'[s][id] : MaySee(s, e)
    BY <2>2, <2>4 DEF AccessOf
  <2> QED BY <2>1, <2>5, <2>6 DEF AccessOf, OwnWraps, MaySee, Matches
<1> QED BY <1>1, <1>2, <1>3

LEMMA NextAccess == Typed /\ AccessInv /\ [Next]_vars => AccessInv'
<1> SUFFICES ASSUME Typed, AccessInv, [Next]_vars, NEW t \in Session
             PROVE  AccessOf(t)'
  BY DEF AccessInv
<1>1. AccessOf(t)
  BY DEF AccessInv
<1>2. CASE Run \/ Listen \/ Shutdown \/ StopListening
  BY <1>1, <1>2, SameAccess DEF Run, Listen, Shutdown, StopListening, limits, auth
<1>3. ASSUME NEW e \in AppEvent, AppSave(e) \/ AppNotify(e) \/ notify_event(e)
      PROVE  AccessOf(t)'
  BY <1>1, <1>3, SameAccess DEF AppSave, AppNotify, notify_event, limits, auth
<1>4. ASSUME NEW s \in Session, SessionStep(s)
      PROVE  AccessOf(t)'
  <2>1. CASE t # s
    BY <1>1, <1>4, <2>1, OtherSessions, SameAccess
  <2>2. CASE t = s
    <3>1. ASSUME NEW m \in Asks(s), Handle(s, m) PROVE AccessOf(s)'
      BY <1>1, <2>2, <3>1, HandlingKeepsAccess
    <3> QED
      BY <1>1, <1>4, <2>2, <3>1, SessionKeepsAccess, WorkingKeepsAccess DEF SessionStep
  <2> QED BY <2>1, <2>2
<1>5. CASE UNCHANGED vars
  BY <1>1, <1>5, SameAccess DEF vars
<1> QED BY <1>2, <1>3, <1>4, <1>5 DEF Next

\* Whatever the sessions ask and whoever they become, a gift wrap is sent only
\* to a session that has proved to be a recipient of it, or in answer to a
\* filter with an empty list of kinds (gift_wrap_query_access
\* and the broadcast of handle_websocket).
THEOREM GiftWrapsAreDelivered == Spec => []WrapsReachTheirRecipient
<1>1. Init => AccessInv
  BY DEF Init, AccessInv, AccessOf, NoMap, NoJob
<1>2. AccessInv => WrapsReachTheirRecipient
  BY DEF AccessInv, AccessOf, WrapsReachTheirRecipient
<1> QED BY <1>1, <1>2, TypesCorrect, NextAccess, PTL DEF Spec

-----------------------------------------------------------------------------
(* Phases                                                                  *)

\* Only an open session has subscriptions, and only a waiting one is notified.
LEMMA NextPhase ==
    ASSUME Typed, NEW t \in Session, PhaseOf(t), [Next]_vars
    PROVE  PhaseOf(t)'
<1>1. CASE Run \/ Listen \/ StopListening
  BY <1>1, AsksAssumption DEF Run, Listen, StopListening, PhaseOf, Open, limits
<1>2. CASE Shutdown
  <2>1. t \in notified' => t \in notified \/ phase[t] = "select"
    BY <1>2, AsksAssumption DEF Shutdown, Listener
  <2> QED BY <1>2, <2>1 DEF Shutdown, PhaseOf, Open, limits
<1>3. ASSUME NEW e \in AppEvent, AppSave(e) \/ AppNotify(e) \/ notify_event(e)
      PROVE  PhaseOf(t)'
  BY <1>3 DEF AppSave, AppNotify, notify_event, PhaseOf, Open, limits
<1>4. ASSUME NEW s \in Session, SessionStep(s)
      PROVE  PhaseOf(t)'
  <2>1. CASE Accept(s)
    <3>1. notified' \subseteq notified /\ subscriptions' = subscriptions
      BY <2>1 DEF Accept, limits
    <3>2. CASE t = s
      BY <2>1, <3>1, <3>2 DEF Accept, PhaseOf, Open, Typed, TypeOK
    <3>3. CASE t # s
      BY <2>1, <3>1, <3>3 DEF Accept, PhaseOf, Open, Typed, TypeOK
    <3> QED BY <3>2, <3>3
  <2>2. CASE Established(s)
    <3>1. CASE t = s
      BY <2>2, <3>1 DEF Established, PhaseOf, Open, Typed, TypeOK, limits
    <3>2. CASE t # s
      BY <2>2, <3>2 DEF Established, PhaseOf, Open, Typed, TypeOK, limits
    <3> QED BY <3>1, <3>2
  <2>3. CASE EndSession(s)
    <3>1. CASE t = s
      BY <2>3, <3>1 DEF EndSession, PhaseOf, Open, Typed, TypeOK, NoMap
    <3>2. CASE t # s
      BY <2>3, <3>2 DEF EndSession, PhaseOf, Open, Typed, TypeOK
    <3> QED BY <3>1, <3>2
  <2>4. CASE Recv(s)
    BY <2>4 DEF Recv, PhaseOf, Open, limits
  <2>5. CASE RecvLagged(s)
    <3>1. CASE t = s
      BY <2>5, <3>1 DEF RecvLagged, PhaseOf, Open
    <3>2. CASE t # s
      BY <2>5, <3>2 DEF RecvLagged, PhaseOf, Open, Typed
    <3> QED BY <3>1, <3>2
  <2>6. ASSUME NEW m \in Asks(s), Handle(s, m) PROVE PhaseOf(t)'
    <3>1. PICK j : Take(s, j)
      BY <2>6 DEF Handle, Refused, HandleEvent, HandleReq, HandleCount, remove_subscription,
                  check_challenge, HandleNegOpen, EndNeg
    <3>2. CASE t = s
      BY <3>1, <3>2 DEF Take, PhaseOf, Open, Typed, TypeOK
    <3>3. CASE t # s
      BY <2>6, <3>1, <3>3, OtherSessions DEF Take, PhaseOf, Open, Typed, TypeOK, SessionStep
    <3> QED BY <3>2, <3>3
  <2>7. CASE CheckId(s) \/ SaveEvent(s) \/ Announce(s) \/ Query(s) \/ FinishReq(s) \/ Reconcile(s)
    <3>1. Done(s) \/ (\E j : Continue(s, j))
      BY <2>7 DEF CheckId, SaveEvent, Announce, Query, FinishReq, Reconcile
    <3>2. job[s].type # "none"
      BY <2>7 DEF CheckId, SaveEvent, Announce, Query, FinishReq, Reconcile
    <3>3. phase[s] = "busy" /\ notified' = notified
      BY <3>1, <3>2 DEF Typed, TypeOK, Done, Continue
    <3>4. CASE t = s
      BY <3>1, <3>3, <3>4 DEF Done, Continue, PhaseOf, Open, Typed, TypeOK
    <3>5. CASE t # s
      BY <2>7, <3>1, <3>3, <3>5, OtherSessions DEF Done, Continue, PhaseOf, Open, Typed, TypeOK, SessionStep
    <3> QED BY <3>4, <3>5
  <2> QED BY <1>4, <2>1, <2>2, <2>3, <2>4, <2>5, <2>6, <2>7 DEF SessionStep
<1>5. CASE UNCHANGED vars
  BY <1>5 DEF vars, PhaseOf, Open
<1> QED BY <1>1, <1>2, <1>3, <1>4, <1>5 DEF Next

-----------------------------------------------------------------------------
(* Delivery                                                                *)

LEMMA AppendHas ==
    ASSUME NEW S, NEW q \in Seq(S), NEW e \in S
    PROVE  /\ \E n \in DOMAIN Append(q, e) : Append(q, e)[n] = e
           /\ \A n \in DOMAIN q : n \in DOMAIN Append(q, e) /\ Append(q, e)[n] = q[n]
<1>1. Len(q) + 1 \in DOMAIN Append(q, e) /\ Append(q, e)[Len(q) + 1] = e
  OBVIOUS
<1> QED BY <1>1

LEMMA TailHas ==
    ASSUME NEW S, NEW q \in Seq(S), q # <<>>
    PROVE  \A n \in DOMAIN q : q[n] = Head(q) \/ \E k \in DOMAIN Tail(q) : Tail(q)[k] = q[n]
<1> SUFFICES ASSUME NEW n \in DOMAIN q, n # 1
             PROVE  \E k \in DOMAIN Tail(q) : Tail(q)[k] = q[n]
  OBVIOUS
<1>1. n - 1 \in DOMAIN Tail(q) /\ Tail(q)[n - 1] = q[n]
  OBVIOUS
<1> QED BY <1>1

\* The three ways an event is on its way
Unread(s, e) == \E n \in DOMAIN backlog[s] : backlog[s][n] = e
Saved(e) == \E w \in Session : job[w].type = "saved" /\ job[w].event = e

\* A broadcast reaches every open session, and what it pushes out is noticed.
LEMMA BroadcastArrives ==
    ASSUME Typed, NEW t \in Session, Open(t), NEW e \in Id, Broadcast(e)
    PROVE  /\ Unread(t, e)'
           /\ lagged[t] => lagged'[t]
           /\ \A x : Unread(t, x) => Unread(t, x)' \/ lagged'[t]
<1>1. backlog[t] \in Seq(Id)
  BY DEF Typed
<1>2. lagged'[t] = (lagged[t] \/ Len(backlog[t]) >= Channel)
  BY DEF Broadcast
<1>3. CASE Len(backlog[t]) < Channel
  <2>1. backlog'[t] = Append(backlog[t], e)
    BY <1>3 DEF Broadcast
  <2>2. /\ \E n \in DOMAIN backlog'[t] : backlog'[t][n] = e
        /\ \A n \in DOMAIN backlog[t] : n \in DOMAIN backlog'[t] /\ backlog'[t][n] = backlog[t][n]
    BY <1>1, <2>1, AppendHas
  <2>3. Unread(t, e)' /\ \A x : Unread(t, x) => Unread(t, x)'
    BY <2>2 DEF Unread
  <2> QED BY <1>2, <2>3
<1>4. CASE ~(Len(backlog[t]) < Channel)
  <2>1. Len(backlog[t]) >= Channel /\ Len(backlog[t]) # 0
    BY <1>1, <1>4, LimitsAreNumbers
  <2>2. backlog'[t] = Append(Tail(backlog[t]), e)
    BY <1>4 DEF Broadcast
  <2>3. Tail(backlog[t]) \in Seq(Id)
    BY <1>1, <2>1
  <2>4. Unread(t, e)'
    BY <2>2, <2>3, AppendHas DEF Unread
  <2> QED BY <1>2, <2>1, <2>4
<1> QED BY <1>3, <1>4

\* What is on its way to a session still is, or the session will notice.
Carried(t) ==
    /\ lagged[t] => lagged'[t]
    /\ \A e \in stored : OnItsWay(t, e) => OnItsWay(t, e)' \/ lagged'[t]
    /\ \A e \in stored' \ stored : OnItsWay(t, e)'

\* A session that has not saved anything turns to something else.
LEMMA SavedStays ==
    ASSUME Typed, NEW s \in Session, NEW j, job[s].type # "saved", job' = [job EXCEPT ![s] = j]
    PROVE  \A e : Saved(e) => Saved(e)'
BY DEF Saved, Typed

LEMMA SameIsCarried ==
    ASSUME NEW t \in Session, UNCHANGED <<channel, stored, unannounced>>,
           \A e : Saved(e) => Saved(e)'
    PROVE  Carried(t)
<1>1. \A e : Unread(t, e) => Unread(t, e)'
  BY DEF Unread, channel
<1>2. \A e : Saved(e) => Saved(e)'
  OBVIOUS
<1>3. \A e : OnItsWay(t, e) <=> Unread(t, e) \/ e \in unannounced \/ Saved(e)
  BY DEF OnItsWay, Unread, Saved
<1>4. \A e : OnItsWay(t, e)' <=> Unread(t, e)' \/ e \in unannounced' \/ Saved(e)'
  BY DEF OnItsWay, Unread, Saved
<1> QED BY <1>1, <1>2, <1>3, <1>4 DEF Carried, channel

LEMMA BroadcastIsCarried ==
    ASSUME Typed, NEW t \in Session, Open(t), NEW e \in Id, Broadcast(e), UNCHANGED stored,
           \A x : Saved(x) \/ x \in unannounced => Saved(x)' \/ x \in unannounced' \/ x = e
    PROVE  Carried(t)
<1>1. \A x : OnItsWay(t, x) <=> Unread(t, x) \/ x \in unannounced \/ Saved(x)
  BY DEF OnItsWay, Unread, Saved
<1>2. \A x : OnItsWay(t, x)' <=> Unread(t, x)' \/ x \in unannounced' \/ Saved(x)'
  BY DEF OnItsWay, Unread, Saved
<1>3. /\ Unread(t, e)'
      /\ lagged[t] => lagged'[t]
      /\ \A x : Unread(t, x) => Unread(t, x)' \/ lagged'[t]
  BY BroadcastArrives
<1> QED BY <1>1, <1>2, <1>3 DEF Carried

\* The relay and the application
LEMMA OthersCarry ==
    ASSUME Typed, NEW t \in Session, Open(t),
           \/ Run \/ Listen \/ Shutdown \/ StopListening \/ UNCHANGED vars
           \/ \E e \in AppEvent : AppSave(e) \/ AppNotify(e) \/ notify_event(e)
    PROVE  Carried(t)
<1>1. CASE Run \/ Listen \/ Shutdown \/ StopListening \/ UNCHANGED vars
  <2>1. UNCHANGED <<channel, stored, unannounced, job>>
    BY <1>1 DEF Run, Listen, Shutdown, StopListening, vars, app, channel
  <2>2. \A e : Saved(e) => Saved(e)'
    BY <2>1 DEF Saved
  <2> QED BY <2>1, <2>2, SameIsCarried
<1>2. ASSUME NEW e \in AppEvent, AppSave(e) PROVE Carried(t)
  <2>1. \A x : OnItsWay(t, x) <=> Unread(t, x) \/ x \in unannounced \/ Saved(x)
    BY DEF OnItsWay, Unread, Saved
  <2>2. \A x : OnItsWay(t, x)' <=> Unread(t, x)' \/ x \in unannounced' \/ Saved(x)'
    BY DEF OnItsWay, Unread, Saved
  <2>3. \A x : (Unread(t, x) => Unread(t, x)') /\ (Saved(x) => Saved(x)')
    BY <1>2 DEF AppSave, Unread, Saved, channel
  <2>4. /\ lagged' = lagged /\ unannounced' = unannounced \cup {e}
        /\ stored' = stored \cup {e}
    BY <1>2 DEF AppSave, channel
  <2> QED BY <2>1, <2>2, <2>3, <2>4 DEF Carried
<1>3. ASSUME NEW e \in AppEvent, AppNotify(e) \/ notify_event(e) PROVE Carried(t)
  <2>1. e \in Id /\ Broadcast(e) /\ UNCHANGED stored
    BY <1>3, AsksAssumption DEF AppNotify, notify_event
  <2>2. \A x : Saved(x) => Saved(x)'
    BY <1>3 DEF AppNotify, notify_event, Saved
  <2>3. \A x : x \in unannounced => x \in unannounced' \/ x = e
    BY <1>3 DEF AppNotify, notify_event
  <2> QED BY <2>1, <2>2, <2>3, BroadcastIsCarried
<1> QED BY <1>1, <1>2, <1>3

\* The sessions
LEMMA SessionsCarry ==
    ASSUME Typed, NEW t \in Session, Open(t), NEW s \in Session, PhaseOf(s), SessionStep(s),
           s # t \/ ~(Recv(s) \/ RecvLagged(s) \/ EndSession(s))
    PROVE  Carried(t)
<1>1. CASE Accept(s) \/ Established(s)
  <2>1. UNCHANGED <<channel, stored, unannounced, job>>
    BY <1>1 DEF Accept, Established, app, channel
  <2> QED BY <2>1, SameIsCarried DEF Saved
<1>2. CASE s # t /\ (Recv(s) \/ RecvLagged(s))
  <2>1. UNCHANGED <<stored, unannounced, job>> /\ lagged'[t] = lagged[t] /\ backlog'[t] = backlog[t]
    BY <1>2 DEF Recv, RecvLagged, Typed, app
  <2> QED BY <2>1 DEF Carried, OnItsWay
<1>3. CASE s # t /\ EndSession(s)
  <2>1. job[s].type # "saved"
    BY <1>3 DEF EndSession, SessionFails, StopSession, PhaseOf, Typed, TypeOK
  <2>2. \A e : Saved(e) => Saved(e)'
    BY <1>3, <2>1, SavedStays DEF EndSession
  <2>3. UNCHANGED <<stored, unannounced>> /\ lagged'[t] = lagged[t] /\ backlog'[t] = backlog[t]
    BY <1>3 DEF EndSession, Typed, app
  <2>4. \A e : Unread(t, e) => Unread(t, e)'
    BY <2>3 DEF Unread
  <2>5. \A e : OnItsWay(t, e) <=> Unread(t, e) \/ e \in unannounced \/ Saved(e)
    BY DEF OnItsWay, Unread, Saved
  <2>6. \A e : OnItsWay(t, e)' <=> Unread(t, e)' \/ e \in unannounced' \/ Saved(e)'
    BY DEF OnItsWay, Unread, Saved
  <2> QED BY <2>2, <2>3, <2>4, <2>5, <2>6 DEF Carried
<1>4. ASSUME NEW m \in Asks(s), Handle(s, m) PROVE Carried(t)
  <2>1. PICK j : Take(s, j)
    BY <1>4 DEF Handle, Refused, HandleEvent, HandleReq, HandleCount, remove_subscription,
                check_challenge, HandleNegOpen, EndNeg
  <2>2. job[s].type # "saved"
    BY <2>1 DEF Take, Typed, TypeOK
  <2> QED BY <2>1, <2>2, SavedStays, SameIsCarried DEF Take, app
<1>5. CASE Query(s) \/ FinishReq(s) \/ Reconcile(s)
  <2>1. job[s].type # "saved" /\ UNCHANGED <<channel, stored, unannounced>>
    BY <1>5 DEF Query, FinishReq, Reconcile, Done, Continue, app
  <2>2. \E j : job' = [job EXCEPT ![s] = j]
    BY <1>5 DEF Query, FinishReq, Reconcile, Done, Continue
  <2> QED BY <2>1, <2>2, SavedStays, SameIsCarried
<1>6. CASE CheckId(s)
  <2>1. job[s].type # "saved" /\ job[s].event \in Id /\ UNCHANGED <<stored, unannounced>>
    BY <1>6 DEF CheckId, Done, Continue, app, Typed, JobOK
  <2>2. \E j : job' = [job EXCEPT ![s] = j]
    BY <1>6 DEF CheckId, Done, Continue
  <2>3. UNCHANGED channel \/ Broadcast(job[s].event)
    BY <1>6 DEF CheckId
  <2> QED BY <2>1, <2>2, <2>3, SavedStays, SameIsCarried, BroadcastIsCarried
<1>7. CASE SaveEvent(s)
  <2> PICK e : e = job[s].event
    OBVIOUS
  <2>1. job[s].type # "saved" /\ UNCHANGED <<channel, unannounced>>
    BY <1>7 DEF SaveEvent, Done, Continue, app
  <2>2. CASE UNCHANGED stored /\ Done(s)
    BY <2>1, <2>2, SavedStays, SameIsCarried DEF Done
  <2>3. CASE stored' = stored \cup {e} /\ Continue(s, [type |-> "saved", event |-> e])
    <3>1. \A x : Saved(x) => Saved(x)'
      BY <2>1, <2>3, SavedStays DEF Continue
    <3>2. job'[s].type = "saved" /\ job'[s].event = e
      BY <2>3 DEF Continue, Typed
    <3>3. \A x : Unread(t, x) => Unread(t, x)'
      BY <2>1 DEF Unread, channel
    <3>4. \A x : OnItsWay(t, x) <=> Unread(t, x) \/ x \in unannounced \/ Saved(x)
      BY DEF OnItsWay, Unread, Saved
    <3>5. \A x : OnItsWay(t, x)' <=> Unread(t, x)' \/ x \in unannounced' \/ Saved(x)'
      BY DEF OnItsWay, Unread, Saved
    <3>6. Saved(e)'
      BY <3>2 DEF Saved
    <3>7. lagged' = lagged /\ unannounced' = unannounced
      BY <2>1 DEF channel
    <3>8. \A x : OnItsWay(t, x) => OnItsWay(t, x)'
      BY <3>1, <3>3, <3>4, <3>5, <3>7
    <3>9. \A x \in stored' \ stored : x = e
      BY <2>3
    <3>10. OnItsWay(t, e)'
      BY <3>5, <3>6
    <3> QED BY <3>7, <3>8, <3>9, <3>10 DEF Carried
  <2> QED BY <1>7, <2>2, <2>3 DEF SaveEvent
<1>8. CASE Announce(s)
  <2>1. job[s].event \in Id /\ Broadcast(job[s].event) /\ UNCHANGED <<stored, unannounced>>
    BY <1>8 DEF Announce, Done, app, Typed, JobOK
  <2>2. \A x : Saved(x) => Saved(x)' \/ x = job[s].event
    BY <1>8 DEF Announce, Done, Saved, Typed
  <2> QED BY <2>1, <2>2, BroadcastIsCarried
<1> QED BY <1>1, <1>2, <1>3, <1>4, <1>5, <1>6, <1>7, <1>8 DEF SessionStep

\* What is accounted for stays so, and events that are seen do not matter.
LEMMA AccountsStay ==
    ASSUME NEW t \in Session, Carried(t), NEW filters, NEW seen, Accounted(t, filters, seen)
    PROVE  Accounted(t, filters, seen)'
<1> SUFFICES ASSUME NEW e \in stored', Matches(filters, e)
             PROVE  e \in seen \/ OnItsWay(t, e)' \/ lagged'[t]
  BY DEF Accounted, Matches
<1>1. CASE e \in stored
  BY <1>1 DEF Carried, Accounted
<1>2. CASE e \notin stored
  BY <1>2 DEF Carried
<1> QED BY <1>1, <1>2

\* A session that keeps its registrations and its job
LEMMA SameDelivery ==
    ASSUME NEW t \in Session, Carried(t), DeliveryOf(t),
           subscriptions'[t] = subscriptions[t], sent'[t] = sent[t],
           job'[t] = job[t] \/ job'[t].type # "query"
    PROVE  DeliveryOf(t)'
<1>1. ASSUME NEW id \in DOMAIN subscriptions'[t]
      PROVE  Accounted(t, subscriptions[t][id].filters, sent[t][id] \cup subscriptions[t][id].cut)'
  <2>1. PICK F, S : F = subscriptions[t][id].filters /\ S = sent[t][id] \cup subscriptions[t][id].cut
    OBVIOUS
  <2>2. Accounted(t, F, S)'
    BY <2>1, AccountsStay DEF DeliveryOf
  <2>3. F = subscriptions'[t][id].filters /\ S = sent'[t][id] \cup subscriptions'[t][id].cut
    BY <2>1
  <2> QED BY <2>2, <2>3 DEF Accounted
<1>2. CASE job'[t] = job[t] /\ job[t].type = "query"
  <2>1. PICK F, S : F = job[t].filters \ job[t].rest /\ S = job[t].found \cup job[t].cut
    OBVIOUS
  <2>2. Accounted(t, F, S)'
    BY <1>2, <2>1, AccountsStay DEF DeliveryOf
  <2>3. F = job'[t].filters \ job'[t].rest /\ S = job'[t].found \cup job'[t].cut
    BY <1>2, <2>1
  <2>4. Accounted(t, job[t].filters \ job[t].rest, job[t].found \cup job[t].cut)'
    BY <2>2, <2>3 DEF Accounted
  <2> QED BY <1>1, <2>4 DEF DeliveryOf
<1> QED BY <1>1, <1>2 DEF DeliveryOf

\* Reading the channel: the event read has been sent wherever it matches.
LEMMA ReadingDelivers ==
    ASSUME Typed, NEW s \in Session, DeliveryOf(s), Recv(s)
    PROVE  DeliveryOf(s)'
<1>1. backlog[s] \in Seq(Id) /\ backlog[s] # <<>> /\ ~lagged[s]
  BY DEF Recv, Typed
<1>2. PICK e : e = Head(backlog[s])
  OBVIOUS
<1>3. backlog'[s] = Tail(backlog[s]) /\ UNCHANGED <<subscriptions, job, stored, unannounced>>
  BY DEF Recv, Typed, limits, app
<1>4. \A x : Unread(s, x) => x = e \/ Unread(s, x)'
  BY <1>1, <1>2, <1>3, TailHas DEF Unread
<1>5. \A x : Saved(x) => Saved(x)'
  BY <1>3 DEF Saved
<1>6. \A x : OnItsWay(s, x) <=> Unread(s, x) \/ x \in unannounced \/ Saved(x)
  BY DEF OnItsWay, Unread, Saved
<1>7. \A x : OnItsWay(s, x)' <=> Unread(s, x)' \/ x \in unannounced' \/ Saved(x)'
  BY DEF OnItsWay, Unread, Saved
<1>8. \A x : OnItsWay(s, x) => x = e \/ OnItsWay(s, x)'
  BY <1>3, <1>4, <1>5, <1>6, <1>7
<1>9. ASSUME NEW id \in DOMAIN subscriptions'[s]
      PROVE  Accounted(s, subscriptions[s][id].filters, sent[s][id] \cup subscriptions[s][id].cut)'
  <2>1. sent'[s][id] = IF Matches(subscriptions[s][id].filters, e) THEN sent[s][id] \cup {e}
                       ELSE sent[s][id]
    BY <1>2, <1>3 DEF Recv, Typed, TypeOK
  <2> SUFFICES ASSUME NEW x \in stored, Matches(subscriptions[s][id].filters, x)
               PROVE  x \in sent'[s][id] \cup subscriptions[s][id].cut \/ OnItsWay(s, x)'
    BY <1>3 DEF Accounted
  <2>2. x \in sent[s][id] \cup subscriptions[s][id].cut \/ OnItsWay(s, x)
    BY <1>1, <1>3 DEF DeliveryOf, Accounted
  <2> QED BY <1>8, <2>1, <2>2
<1>10. job'[s].type # "query"
  BY <1>3 DEF Recv, Typed, TypeOK
<1> QED BY <1>9, <1>10 DEF DeliveryOf

\* A message leaves subscriptions alone or drops them.
LEMMA HandlingDelivers ==
    ASSUME Typed, NEW s \in Session, PhaseOf(s), DeliveryOf(s), NEW m \in Asks(s), Handle(s, m), Carried(s)
    PROVE  DeliveryOf(s)'
<1>1. CASE \/ Refused(s, m) \/ HandleCount(s, m) \/ check_challenge(s, m.key) \/ EndNeg(s, m.id)
  <2>1. subscriptions' = subscriptions /\ sent' = sent /\ Take(s, NoJob)
    BY <1>1 DEF Refused, HandleCount, check_challenge, EndNeg, limits
  <2>2. job'[s].type # "query"
    BY <2>1 DEF Take, Typed, NoJob
  <2> QED BY <2>1, <2>2, SameDelivery
<1>2. CASE remove_subscription(s, m.id)
  <2>1. /\ subscriptions'[s] = Without(subscriptions[s], m.id)
        /\ sent'[s] = Without(sent[s], m.id) /\ Take(s, NoJob)
    BY <1>2 DEF remove_subscription, Typed
  <2>2. job'[s].type # "query"
    BY <2>1 DEF Take, Typed, NoJob
  <2>3. ASSUME NEW id \in DOMAIN subscriptions'[s]
        PROVE  Accounted(s, subscriptions[s][id].filters, sent[s][id] \cup subscriptions[s][id].cut)'
    <3>1. id \in DOMAIN subscriptions[s] /\ subscriptions'[s][id] = subscriptions[s][id]
      BY <2>1 DEF Without
    <3>2. sent'[s][id] = sent[s][id]
      BY <2>1, <3>1 DEF Without, Typed, TypeOK
    <3>3. PICK F, S : F = subscriptions[s][id].filters /\ S = sent[s][id] \cup subscriptions[s][id].cut
      OBVIOUS
    <3>4. Accounted(s, F, S)'
      BY <3>1, <3>3, AccountsStay DEF DeliveryOf
    <3>5. F = subscriptions'[s][id].filters /\ S = sent'[s][id] \cup subscriptions'[s][id].cut
      BY <3>1, <3>2, <3>3
    <3> QED BY <3>4, <3>5 DEF Accounted
  <2> QED BY <2>2, <2>3 DEF DeliveryOf
<1>3. ASSUME NEW j, Starts(s, j) PROVE subscriptions' = subscriptions /\ sent' = sent /\ job'[s] = j
  BY <1>3 DEF Starts, Take, Typed, limits
<1>4. CASE m.type = "EVENT" /\ HandleEvent(s, m.event)
  <2>1. subscriptions' = subscriptions /\ sent' = sent /\ job'[s] = Write(m.event)
    BY <1>3, <1>4, HandlersStart
  <2>2. job'[s].type # "query"
    BY <2>1 DEF Write
  <2> QED BY <2>1, <2>2, SameDelivery
<1>5. CASE HandleNegOpen(s, m)
  <2>1. subscriptions' = subscriptions /\ sent' = sent /\ job'[s] = ReconcileOf(m)
    BY <1>3, <1>5, HandlersStart
  <2>2. job'[s].type # "query"
    BY <2>1 DEF ReconcileOf
  <2> QED BY <2>1, <2>2, SameDelivery
<1>6. CASE HandleReq(s, m)
  <2>1. subscriptions' = subscriptions /\ sent' = sent /\ job'[s] = QueryOf(m)
    BY <1>3, <1>6, HandlersStart
  <2>2. ASSUME NEW id \in DOMAIN subscriptions'[s]
        PROVE  Accounted(s, subscriptions[s][id].filters, sent[s][id] \cup subscriptions[s][id].cut)'
    <3>1. PICK F, S : F = subscriptions[s][id].filters /\ S = sent[s][id] \cup subscriptions[s][id].cut
      OBVIOUS
    <3>2. Accounted(s, F, S)'
      BY <2>1, <3>1, AccountsStay DEF DeliveryOf
    <3> QED BY <2>1, <3>1, <3>2 DEF Accounted
  <2>3. job'[s].filters \ job'[s].rest = {}
    BY <2>1 DEF QueryOf
  <2>4. Accounted(s, job[s].filters \ job[s].rest, job[s].found \cup job[s].cut)'
    BY <2>3 DEF Accounted, Matches
  <2> QED BY <2>2, <2>4 DEF DeliveryOf
<1> QED BY <1>1, <1>2, <1>4, <1>5, <1>6 DEF Handle

\* The jobs: a filter that was answered is accounted for, and a request that
\* is answered leaves the account to its subscription.
LEMMA WorkingDelivers ==
    ASSUME Typed, NEW s \in Session, DeliveryOf(s), Carried(s),
           \/ CheckId(s) \/ SaveEvent(s) \/ Announce(s)
           \/ Query(s) \/ FinishReq(s) \/ Reconcile(s)
    PROVE  DeliveryOf(s)'
<1>1. CASE CheckId(s) \/ SaveEvent(s) \/ Announce(s) \/ Reconcile(s)
  <2>1. subscriptions' = subscriptions /\ sent' = sent
    BY <1>1 DEF CheckId, SaveEvent, Announce, Reconcile, limits
  <2>2. job'[s].type # "query"
    <3>1. Done(s) => job'[s].type # "query"
      <4>1. Done(s) => job'[s] = NoJob
        BY DEF Done, Typed
      <4> QED BY <4>1 DEF NoJob
    <3>2. \A j : Continue(s, j) => job'[s] = j
      BY DEF Continue, Typed
    <3>3. \/ Done(s)
          \/ Continue(s, [type |-> "save", event |-> job[s].event])
          \/ Continue(s, [type |-> "saved", event |-> job[s].event])
      BY <1>1 DEF CheckId, SaveEvent, Announce, Reconcile
    <3> QED BY <3>1, <3>2, <3>3
  <2> QED BY <2>1, <2>2, SameDelivery
<1>2. CASE Query(s)
  <2> DEFINE next(f) == [job[s] EXCEPT !.rest = @ \ {f}, !.found = @ \cup Answer(stored, f),
                          !.cut = @ \cup ({e \in stored : match_event(f, e)} \ Answer(stored, f))]
  <2>1. PICK f \in job[s].rest : job'[s] = next(f)
    BY <1>2 DEF Query, Continue, Typed
  <2>2. JobOK(job[s]) /\ job[s].type = "query"
    BY <1>2 DEF Query, Typed
  <2>3. PICK rest, found, cut :
          /\ job[s].rest = rest /\ job[s].found = found /\ job[s].cut = cut
          /\ job'[s].filters = job[s].filters /\ job'[s].rest = rest \ {f}
          /\ job'[s].found = found \cup Answer(stored, f)
          /\ job'[s].cut = cut \cup ({e \in stored : match_event(f, e)} \ Answer(stored, f))
    BY <2>1, <2>2 DEF JobOK, QueryJob
  <2> HIDE DEF next
  <2>4. UNCHANGED <<stored, subscriptions, sent>>
    BY <1>2 DEF Query, limits
  <2>5. PICK F, S : F = job[s].filters \ rest /\ S = found \cup cut
    OBVIOUS
  <2>6. Accounted(s, F, S)'
    BY <2>2, <2>3, <2>5, AccountsStay DEF DeliveryOf
  <2>7. Accounted(s, job[s].filters \ job[s].rest, job[s].found \cup job[s].cut)'
    <3> SUFFICES ASSUME NEW x \in stored', NEW g \in job'[s].filters \ job'[s].rest, match_event(g, x)
                 PROVE  x \in job'[s].found \cup job'[s].cut \/ OnItsWay(s, x)' \/ lagged'[s]
      BY DEF Accounted, Matches
    <3>1. CASE g = f
      BY <2>3, <2>4, <3>1
    <3>2. CASE g # f
      <4>1. g \in F
        BY <2>3, <2>5, <3>2
      <4>2. x \in S \/ OnItsWay(s, x)' \/ lagged'[s]
        BY <2>6, <4>1 DEF Accounted, Matches
      <4> QED BY <2>3, <2>5, <4>2
    <3> QED BY <3>1, <3>2
  <2>8. ASSUME NEW id \in DOMAIN subscriptions'[s]
        PROVE  Accounted(s, subscriptions[s][id].filters, sent[s][id] \cup subscriptions[s][id].cut)'
    <3>1. PICK G, T : G = subscriptions[s][id].filters /\ T = sent[s][id] \cup subscriptions[s][id].cut
      OBVIOUS
    <3>2. Accounted(s, G, T)'
      BY <2>4, <3>1, AccountsStay DEF DeliveryOf
    <3> QED BY <2>4, <3>1, <3>2 DEF Accounted
  <2> QED BY <2>7, <2>8 DEF DeliveryOf
<1>3. CASE FinishReq(s)
  <2> PICK j : j = job[s]
    OBVIOUS
  <2>1. j.type = "query" /\ j.rest = {} /\ job'[s].type # "query"
    <3>1. job'[s] = NoJob
      BY <1>3 DEF FinishReq, Done, Typed
    <3> QED BY <1>3, <3>1 DEF FinishReq, NoJob
  <2>2. PICK S : S = j.found \cup j.cut
    OBVIOUS
  <2>3. Accounted(s, j.filters, S)'
    <3>1. Accounted(s, j.filters \ j.rest, j.found \cup j.cut)
      BY <2>1 DEF DeliveryOf
    <3>2. j.filters \ j.rest = j.filters
      BY <2>1
    <3> QED BY <2>2, <3>1, <3>2, AccountsStay
  <2>4. ASSUME NEW id \in DOMAIN subscriptions'[s]
        PROVE  Accounted(s, subscriptions[s][id].filters, sent[s][id] \cup subscriptions[s][id].cut)'
    <3>1. CASE /\ id \in DOMAIN subscriptions[s] /\ subscriptions'[s][id] = subscriptions[s][id]
               /\ sent[s][id] \subseteq sent'[s][id]
      <4>1. PICK G, T : G = subscriptions[s][id].filters /\ T = sent[s][id] \cup subscriptions[s][id].cut
        OBVIOUS
      <4>2. Accounted(s, G, T)'
        BY <3>1, <4>1, AccountsStay DEF DeliveryOf
      <4>3. G = subscriptions'[s][id].filters /\ T \subseteq sent'[s][id] \cup subscriptions'[s][id].cut
        BY <3>1, <4>1
      <4> QED BY <4>2, <4>3 DEF Accounted
    <3>2. CASE /\ subscriptions'[s][id].filters = j.filters
               /\ subscriptions'[s][id].cut = j.cut \ j.found /\ sent'[s][id] = j.found
      <4>1. S = sent'[s][id] \cup subscriptions'[s][id].cut
        BY <2>2, <3>2
      <4> QED BY <2>3, <3>2, <4>1 DEF Accounted
    <3>3. CASE AllFound(j)
      <4>1. subscriptions' = subscriptions
        BY <1>3, <3>3 DEF FinishReq
      <4>2. sent[s][id] \subseteq sent'[s][id]
        <5>1. CASE j.id \in DOMAIN sent[s]
          <6>1. sent'[s] = [sent[s] EXCEPT ![j.id] = @ \cup j.found]
            BY <1>3, <3>3, <5>1 DEF FinishReq, Typed
          <6>2. id \in DOMAIN sent[s]
            BY <4>1 DEF Typed, TypeOK
          <6> QED BY <5>1, <6>1, <6>2
        <5>2. CASE j.id \notin DOMAIN sent[s]
          BY <1>3, <3>3, <5>2 DEF FinishReq
        <5> QED BY <5>1, <5>2
      <4> QED BY <3>1, <4>1, <4>2
    <3>4. CASE ~AllFound(j)
      <4>1. PICK v : /\ subscriptions' = [subscriptions EXCEPT ![s] = With(@, j.id, v)]
                     /\ v.filters = j.filters /\ v.cut = j.cut \ j.found
        BY <1>3, <3>4 DEF FinishReq
      <4>2. subscriptions'[s] = With(subscriptions[s], j.id, v)
        BY <4>1 DEF Typed
      <4>3. sent'[s] = With(sent[s], j.id, j.found)
        BY <1>3, <3>4 DEF FinishReq, Typed
      <4>4. CASE id = j.id
        <5>1. subscriptions'[s][id] = v
          BY <4>2, <4>4 DEF With
        <5>2. sent'[s][id] = j.found
          BY <4>3, <4>4 DEF With
        <5> QED BY <3>2, <4>1, <5>1, <5>2
      <4>5. CASE id # j.id
        <5>1. id \in DOMAIN subscriptions[s] /\ subscriptions'[s][id] = subscriptions[s][id]
          BY <4>2, <4>5 DEF With
        <5>2. id \in DOMAIN sent[s]
          BY <5>1 DEF Typed, TypeOK
        <5>3. sent'[s][id] = sent[s][id]
          BY <4>3, <4>5, <5>2 DEF With
        <5> QED BY <3>1, <5>1, <5>3
      <4> QED BY <4>4, <4>5
    <3> QED BY <3>3, <3>4
  <2> QED BY <2>1, <2>4 DEF DeliveryOf
<1> QED BY <1>1, <1>2, <1>3

LEMMA NextDelivery == Typed /\ DeliveryInv /\ [Next]_vars => DeliveryInv'
<1> SUFFICES ASSUME Typed, DeliveryInv, [Next]_vars, NEW t \in Session
             PROVE  PhaseOf(t)' /\ DeliveryOf(t)'
  BY DEF DeliveryInv
<1>1. PhaseOf(t)' /\ Typed'
  BY NextPhase, NextTyped DEF DeliveryInv
<1>2. \A s \in Session : PhaseOf(s) /\ DeliveryOf(s)
  BY DEF DeliveryInv
<1>3. CASE ~Open(t)'
  <2>1. DOMAIN subscriptions'[t] = {}
    BY <1>1, <1>3 DEF PhaseOf
  <2>2. job'[t].type # "query"
    BY <1>1, <1>3 DEF Open, Typed, TypeOK
  <2> QED BY <1>1, <2>1, <2>2 DEF DeliveryOf
<1>4. CASE Open(t)' /\ Open(t)
  <2>1. ASSUME \/ Run \/ Listen \/ Shutdown \/ StopListening \/ UNCHANGED vars
               \/ \E e \in AppEvent : AppSave(e) \/ AppNotify(e) \/ notify_event(e)
        PROVE  DeliveryOf(t)'
    <3>1. Carried(t)
      BY <1>4, <2>1, OthersCarry
    <3>2. UNCHANGED <<subscriptions, sent, job>>
      BY <2>1 DEF Run, Listen, Shutdown, StopListening, vars, AppSave, AppNotify, notify_event, limits
    <3> QED BY <1>2, <3>1, <3>2, SameDelivery
  <2>2. ASSUME NEW s \in Session, SessionStep(s)
        PROVE  DeliveryOf(t)'
    <3>1. CASE s # t
      <4>1. Carried(t)
        BY <1>2, <1>4, <2>2, <3>1, SessionsCarry
      <4> QED BY <1>2, <2>2, <3>1, <4>1, OtherSessions, SameDelivery
    <3>2. CASE s = t /\ Recv(s)
      BY <1>2, <3>2, ReadingDelivers
    <3>3. CASE s = t /\ (RecvLagged(s) \/ EndSession(s))
      <4>1. DOMAIN subscriptions'[t] = {}
        <5>1. subscriptions'[t] = NoMap
          BY <3>3 DEF RecvLagged, EndSession, Typed
        <5> QED BY <5>1 DEF NoMap
      <4>2. job'[t].type # "query"
        <5>1. CASE RecvLagged(s)
          BY <3>3, <5>1 DEF RecvLagged, Typed, TypeOK
        <5>2. CASE EndSession(s)
          BY <3>3, <5>2 DEF EndSession, Typed, NoJob
        <5> QED BY <3>3, <5>1, <5>2
      <4> QED BY <4>1, <4>2 DEF DeliveryOf
    <3>4. CASE s = t /\ ~(Recv(s) \/ RecvLagged(s) \/ EndSession(s))
      <4>1. Carried(t)
        BY <1>2, <1>4, <2>2, <3>4, SessionsCarry
      <4>2. CASE Accept(s) \/ Established(s)
        BY <1>2, <4>1, <4>2, SameDelivery DEF Accept, Established, limits
      <4>3. ASSUME NEW m \in Asks(s), Handle(s, m) PROVE DeliveryOf(t)'
        BY <1>2, <3>4, <4>1, <4>3, HandlingDelivers
      <4> QED BY <1>2, <2>2, <3>4, <4>1, <4>2, <4>3, WorkingDelivers DEF SessionStep
    <3> QED BY <3>1, <3>2, <3>3, <3>4
  <2> QED BY <1>1, <2>1, <2>2 DEF Next
<1>5. CASE Open(t)' /\ ~Open(t)
  <2>1. phase'[t] # phase[t] /\ phase'[t] \in {"select", "busy"} /\ phase[t] \notin {"select", "busy"}
    BY <1>5 DEF Open
  <2>2. DOMAIN subscriptions[t] = {} /\ job[t].type = "none"
    BY <1>2, <1>5 DEF PhaseOf, Open, Typed, TypeOK
  <2>3. Established(t)
    <3>1. PICK s \in Session : SessionStep(s)
      BY <2>1 DEF Next, Run, Listen, Shutdown, StopListening, AppSave, AppNotify, notify_event, vars
    <3>2. CASE Accept(s) \/ EndSession(s) \/ Recv(s) \/ RecvLagged(s)
      BY <2>1, <3>2 DEF Accept, EndSession, Recv, RecvLagged, Typed, TypeOK
    <3>3. CASE CheckId(s) \/ SaveEvent(s) \/ Announce(s) \/ Query(s) \/ FinishReq(s) \/ Reconcile(s)
      <4>1. job[s].type # "none" /\ (Done(s) \/ UNCHANGED phase)
        BY <3>3 DEF CheckId, SaveEvent, Announce, Query, FinishReq, Reconcile, Continue
      <4> QED BY <2>1, <2>2, <4>1 DEF Done, Typed, TypeOK
    <3>4. ASSUME NEW m \in Asks(s), Handle(s, m) PROVE FALSE
      <4>1. PICK j : Take(s, j)
        BY <3>4 DEF Handle, Refused, HandleEvent, HandleReq, HandleCount, remove_subscription,
                    check_challenge, HandleNegOpen, EndNeg
      <4> QED BY <2>1, <4>1 DEF Take, Typed, TypeOK
    <3>5. CASE Established(s)
      BY <2>1, <3>5 DEF Established, Typed, TypeOK
    <3> QED BY <3>1, <3>2, <3>3, <3>4, <3>5 DEF SessionStep
  <2>4. subscriptions' = subscriptions /\ job' = job
    BY <2>3 DEF Established, limits
  <2>5. DOMAIN subscriptions'[t] = {} /\ job'[t].type # "query"
    BY <2>2, <2>4
  <2>6. DeliveryOf(t)'
    BY <2>5 DEF DeliveryOf
  <2> QED BY <1>1, <2>6
<1> QED BY <1>1, <1>3, <1>4, <1>5

\* Between the stored answer and the live stream nothing is lost in silence:
\* what is stored and matches an open subscription was sent to it, is on its
\* way, was cut by the limit, or the session is about to close it
\* (handle_req, handle_websocket, EventSession::add_event).
THEOREM NothingIsMissed == Spec => []NothingMissed
<1>1. Init => DeliveryInv
  BY DEF Init, DeliveryInv, PhaseOf, DeliveryOf, NoMap, NoJob
<1>2. Typed /\ DeliveryInv => NothingMissed
  BY DEF DeliveryInv, DeliveryOf, Accounted, NothingMissed
<1> QED BY <1>1, <1>2, TypesCorrect, NextDelivery, PTL DEF Spec

-----------------------------------------------------------------------------
(* Sums                                                                    *)

\* A set of naturals has a least element: the smallest of the intervals from
\* 1, which are well founded by inclusion.
LEMMA LeastOfNaturals ==
    ASSUME NEW T \in SUBSET Nat, T # {}
    PROVE  \E n \in T : \A m \in T : n <= m
<1>1. PICK top \in T : TRUE
  OBVIOUS
<1> DEFINE S == 1 .. top
           F == {1 .. k : k \in {k \in T : k <= top}}
<1>2. IsFiniteSet(S) /\ FiniteSubsetsOf(S) = SUBSET S
  BY FS_Interval, FS_FiniteSubsetsOfFinite
<1>3. IsWellFoundedOn(StrictSubsetOrdering(S), SUBSET S)
  BY <1>2, FS_StrictSubsetOrderingWellFounded
<1>4. F \subseteq SUBSET S /\ F # {}
  OBVIOUS
<1>5. PICK x \in F : \A y \in F : ~(<<y, x>> \in StrictSubsetOrdering(S))
  <2> HIDE DEF F, S
  <2> QED BY <1>3, <1>4, WFMin
<1>6. PICK n \in T : x = 1 .. n /\ n <= top
  OBVIOUS
<1>7. ASSUME NEW m \in T, ~(n <= m) PROVE FALSE
  <2>1. m < n /\ m <= top /\ 1 .. m \in F
    BY <1>6, <1>7
  <2>2. 1 .. m \subseteq 1 .. n /\ n \in 1 .. n /\ n \notin 1 .. m
    BY <2>1
  <2>3. <<1 .. m, x>> \in StrictSubsetOrdering(S)
    BY <1>4, <1>6, <2>1, <2>2 DEF StrictSubsetOrdering
  <2> QED BY <1>5, <2>1, <2>3
<1> QED BY <1>7

\* Induction over a set of naturals.
LEMMA NaturalsByInduction ==
    ASSUME NEW P \in SUBSET Nat, 0 \in P, \A n \in P : n + 1 \in P
    PROVE  P = Nat
<1> SUFFICES ASSUME Nat \ P # {} PROVE FALSE
  OBVIOUS
<1>1. PICK n \in Nat \ P : \A m \in Nat \ P : n <= m
  BY LeastOfNaturals
<1>2. n # 0 /\ n - 1 \in Nat /\ ~(n <= n - 1)
  BY <1>1
<1>3. n - 1 \in P /\ (n - 1) + 1 = n
  BY <1>1, <1>2
<1> QED BY <1>3

\* The function that Total unfolds to: its value at a set is that of a member,
\* which is chosen, and of the rest.
Pick(s) == CHOOSE x \in s : TRUE
Sums(map, S, g) ==
    g = [s \in SUBSET S |-> IF s = {} THEN 0 ELSE map[Pick(s)] + g[s \ {Pick(s)}]]
Summed(map, S) == IsFiniteSet(S) /\ \A x \in S : map[x] \in Nat

LEMMA TotalUnfolds ==
    ASSUME NEW map, NEW S
    PROVE  Total(map, S) = (CHOOSE g : Sums(map, S, g))[S]
BY DEF Total, FoldFunctionOnSet, MapThenFoldSet, Sums, Pick

LEMMA PickOne ==
    ASSUME NEW S, IsFiniteSet(S), NEW s \in SUBSET S, s # {}
    PROVE  /\ Pick(s) \in s /\ IsFiniteSet(s) /\ Cardinality(s) \in Nat /\ Cardinality(s) # 0
           /\ \A x \in s : Cardinality(s \ {x}) = Cardinality(s) - 1
<1>1. IsFiniteSet(s)
  BY FS_Subset
<1> QED BY <1>1, FS_CardinalityType, FS_EmptySet, FS_RemoveElement DEF Pick

\* There is such a function, by induction over the sizes of the sets.
LEMMA SumsExist ==
    ASSUME NEW map, NEW S, Summed(map, S)
    PROVE  \E g : Sums(map, S, g)
<1> DEFINE Step(g, s) == IF s = {} THEN 0 ELSE map[Pick(s)] + g[s \ {Pick(s)}]
           Upto(n, g) == \A s \in SUBSET S : Cardinality(s) <= n => g[s] = Step(g, s)
           P == {n \in Nat : \E g \in [SUBSET S -> Nat] : Upto(n, g)}
<1>1. IsFiniteSet(S) /\ \A x \in S : map[x] \in Nat
  BY DEF Summed
<1>2. \A s \in SUBSET S : IsFiniteSet(s) /\ Cardinality(s) \in Nat /\ (Cardinality(s) = 0 <=> s = {})
  BY <1>1, FS_Subset, FS_CardinalityType, FS_EmptySet
<1>3. 0 \in P
  <2> DEFINE g == [s \in SUBSET S |-> 0]
  <2>1. g \in [SUBSET S -> Nat] /\ Upto(0, g)
    BY <1>2
  <2> QED BY <2>1
<1>4. ASSUME NEW n \in P PROVE n + 1 \in P
  <2>1. n \in Nat
    OBVIOUS
  <2>2. PICK g \in [SUBSET S -> Nat] : Upto(n, g)
    OBVIOUS
  <2> DEFINE f == [s \in SUBSET S |-> Step(g, s)]
  <2>3. f \in [SUBSET S -> Nat]
    <3> SUFFICES ASSUME NEW s \in SUBSET S PROVE Step(g, s) \in Nat
      OBVIOUS
    <3>1. CASE s = {}
      BY <3>1
    <3>2. CASE s # {}
      <4>1. Pick(s) \in s /\ s \ {Pick(s)} \in SUBSET S
        BY <1>1, <3>2, PickOne
      <4>2. map[Pick(s)] \in Nat /\ g[s \ {Pick(s)}] \in Nat
        BY <1>1, <4>1
      <4> QED BY <3>2, <4>2
    <3> QED BY <3>1, <3>2
  <2>4. ASSUME NEW s \in SUBSET S, Cardinality(s) <= n + 1 PROVE f[s] = Step(f, s)
    <3>1. CASE s = {}
      BY <3>1
    <3>2. CASE s # {}
      <4>1. /\ s \ {Pick(s)} \in SUBSET S /\ Cardinality(s) \in Nat
            /\ Cardinality(s \ {Pick(s)}) = Cardinality(s) - 1
        BY <1>1, <3>2, PickOne
      <4>2. Cardinality(s \ {Pick(s)}) <= n
        BY <2>1, <2>4, <4>1
      <4>3. f[s \ {Pick(s)}] = g[s \ {Pick(s)}]
        BY <2>2, <4>1, <4>2
      <4> QED BY <3>2, <4>3
    <3> QED BY <3>1, <3>2
  <2>5. Upto(n + 1, f)
    BY <2>4
  <2> HIDE DEF f, Upto
  <2> QED BY <2>1, <2>3, <2>5
<1>5. P = Nat
  <2> HIDE DEF P
  <2>1. P \in SUBSET Nat
    BY DEF P
  <2> QED BY <1>3, <1>4, <2>1, NaturalsByInduction
<1>6. PICK g \in [SUBSET S -> Nat] : Upto(Cardinality(S), g)
  BY <1>1, <1>5, FS_CardinalityType
<1>7. \A s \in SUBSET S : g[s] = Step(g, s)
  <2>1. \A s \in SUBSET S : Cardinality(s) <= Cardinality(S)
    BY <1>1, FS_Subset
  <2> QED BY <1>6, <2>1
<1>8. g = [s \in SUBSET S |-> g[s]]
  OBVIOUS
<1>9. Sums(map, S, g)
  BY <1>7, <1>8 DEF Sums
<1> QED BY <1>9

\* What it says of the sets, for two maps that agree where they are summed.
LEMMA SumsUnfold ==
    ASSUME NEW map, NEW S, NEW g, Sums(map, S, g), NEW s \in SUBSET S
    PROVE  g[s] = IF s = {} THEN 0 ELSE map[Pick(s)] + g[s \ {Pick(s)}]
BY DEF Sums

LEMMA SumsAgree ==
    ASSUME NEW map, NEW S, Summed(map, S), NEW g, Sums(map, S, g),
           NEW map2, NEW S2, NEW g2, Sums(map2, S2, g2),
           S \subseteq S2, \A x \in S : map[x] = map2[x]
    PROVE  \A s \in SUBSET S : g[s] = g2[s]
<1> DEFINE P == {n \in Nat : \A s \in SUBSET S : Cardinality(s) <= n => g[s] = g2[s]}
<1>1. IsFiniteSet(S) /\ \A x \in S : map[x] \in Nat
  BY DEF Summed
<1>2. \A s \in SUBSET S : IsFiniteSet(s) /\ Cardinality(s) \in Nat /\ (Cardinality(s) = 0 <=> s = {})
  BY <1>1, FS_Subset, FS_CardinalityType, FS_EmptySet
<1>3. 0 \in P
  <2>1. g[{}] = 0 /\ g2[{}] = 0
    BY SumsUnfold
  <2> QED BY <1>2, <2>1
<1>4. ASSUME NEW n \in P PROVE n + 1 \in P
  <2>1. n \in Nat
    OBVIOUS
  <2>2. ASSUME NEW s \in SUBSET S, Cardinality(s) <= n + 1 PROVE g[s] = g2[s]
    <3>1. CASE s = {}
      BY <3>1, SumsUnfold
    <3>2. CASE s # {}
      <4>1. /\ s \ {Pick(s)} \in SUBSET S /\ Cardinality(s) \in Nat /\ Pick(s) \in S
            /\ Cardinality(s \ {Pick(s)}) = Cardinality(s) - 1
        BY <1>1, <3>2, PickOne
      <4>2. Cardinality(s \ {Pick(s)}) <= n
        BY <2>1, <2>2, <4>1
      <4>3. g[s \ {Pick(s)}] = g2[s \ {Pick(s)}]
        BY <4>1, <4>2
      <4>4. g[s] = map[Pick(s)] + g[s \ {Pick(s)}]
        BY <3>2 DEF Sums
      <4>5. g2[s] = map2[Pick(s)] + g2[s \ {Pick(s)}]
        <5>1. s \in SUBSET S2
          OBVIOUS
        <5> QED BY <3>2, <5>1 DEF Sums
      <4> QED BY <4>1, <4>3, <4>4, <4>5
    <3> QED BY <3>1, <3>2
  <2> QED BY <2>1, <2>2
<1>5. P = Nat
  <2> HIDE DEF P
  <2>1. P \in SUBSET Nat
    BY DEF P
  <2> QED BY <1>3, <1>4, <2>1, NaturalsByInduction
<1>6. ASSUME NEW s \in SUBSET S PROVE g[s] = g2[s]
  <2>1. Cardinality(s) \in Nat
    BY <1>2
  <2> QED BY <1>5, <2>1
<1> QED BY <1>6

\* Whichever member is taken first.
LEMMA SumsCommute ==
    ASSUME NEW map, NEW S, Summed(map, S), NEW g, Sums(map, S, g)
    PROVE  \A s \in SUBSET S : g[s] \in Nat /\ \A x \in s : g[s] = map[x] + g[s \ {x}]
<1> DEFINE Good(s) == g[s] \in Nat /\ \A x \in s : g[s] = map[x] + g[s \ {x}]
           P == {n \in Nat : \A s \in SUBSET S : Cardinality(s) <= n => Good(s)}
<1>1. IsFiniteSet(S) /\ \A x \in S : map[x] \in Nat
  BY DEF Summed
<1>2. \A s \in SUBSET S : IsFiniteSet(s) /\ Cardinality(s) \in Nat /\ (Cardinality(s) = 0 <=> s = {})
  BY <1>1, FS_Subset, FS_CardinalityType, FS_EmptySet
<1>3. Good({})
  <2>1. {} \in SUBSET S
    OBVIOUS
  <2>2. g[{}] = 0
    BY <2>1, SumsUnfold
  <2> QED BY <2>2
<1>4. 0 \in P
  BY <1>2, <1>3
<1>5. ASSUME NEW n \in P PROVE n + 1 \in P
  <2>1. n \in Nat
    OBVIOUS
  <2>2. ASSUME NEW s \in SUBSET S, Cardinality(s) <= n + 1, s # {} PROVE Good(s)
    <3> DEFINE y == Pick(s)
    <3>1. /\ y \in s /\ Cardinality(s) \in Nat
          /\ \A x \in s : Cardinality(s \ {x}) = Cardinality(s) - 1
      BY <1>1, <2>2, PickOne
    <3> HIDE DEF y
    <3>2. ASSUME NEW x \in s PROVE Good(s \ {x}) /\ map[x] \in Nat
      <4>1. Cardinality(s \ {x}) <= n /\ s \ {x} \in SUBSET S
        BY <2>1, <2>2, <3>1
      <4> QED BY <1>1, <4>1
    <3>3. g[s] = map[y] + g[s \ {y}]
      BY <2>2, SumsUnfold DEF y
    <3>4. ASSUME NEW x \in s PROVE g[s] = map[x] + g[s \ {x}]
      <4>1. CASE x = y
        BY <3>3, <4>1
      <4>2. CASE x # y
        <5> DEFINE r == s \ {x, y}
        <5>1. (s \ {x}) \ {y} = r /\ (s \ {y}) \ {x} = r
          OBVIOUS
        <5>2. g[s \ {y}] = map[x] + g[r]
          <6>1. x \in s \ {y}
            BY <4>2
          <6>2. Good(s \ {y})
            BY <3>1, <3>2
          <6>3. g[s \ {y}] = map[x] + g[(s \ {y}) \ {x}]
            BY <6>1, <6>2
          <6> QED BY <5>1, <6>3
        <5>3. g[s \ {x}] = map[y] + g[r]
          <6>1. y \in s \ {x}
            BY <3>1, <4>2
          <6>2. Good(s \ {x})
            BY <3>2
          <6>3. g[s \ {x}] = map[y] + g[(s \ {x}) \ {y}]
            BY <6>1, <6>2
          <6> QED BY <5>1, <6>3
        <5>4. g[r] \in Nat
          <6>1. r \in SUBSET S /\ r = (s \ {x}) \ {y}
            OBVIOUS
          <6>2. IsFiniteSet(s \ {x}) /\ y \in s \ {x} /\ Cardinality(s \ {x}) \in Nat
            BY <1>2, <3>1, <4>2
          <6>3. Cardinality((s \ {x}) \ {y}) = Cardinality(s \ {x}) - 1
            BY <6>2, FS_RemoveElement
          <6>4. Cardinality(s \ {x}) = Cardinality(s) - 1
            BY <3>1
          <6>5. Cardinality((s \ {x}) \ {y}) <= n
            BY <2>1, <2>2, <3>1, <6>2, <6>3, <6>4
          <6>6. (s \ {x}) \ {y} \in SUBSET S
            OBVIOUS
          <6> QED BY <5>1, <6>5, <6>6
        <5>5. map[x] \in Nat /\ map[y] \in Nat
          BY <3>1, <3>2
        <5> HIDE DEF r
        <5> QED BY <3>3, <5>2, <5>3, <5>4, <5>5
      <4> QED BY <4>1, <4>2
    <3>5. g[s] \in Nat
      <4>1. map[y] \in Nat /\ g[s \ {y}] \in Nat
        BY <3>1, <3>2
      <4> QED BY <3>3, <4>1
    <3> QED BY <3>4, <3>5
  <2>3. \A s \in SUBSET S : Cardinality(s) <= n + 1 => Good(s)
    BY <1>3, <2>2
  <2> HIDE DEF Good
  <2> QED BY <2>1, <2>3
<1>6. P = Nat
  <2> HIDE DEF P
  <2>1. P \in SUBSET Nat
    BY DEF P
  <2> QED BY <1>4, <1>5, <2>1, NaturalsByInduction
<1>7. ASSUME NEW s \in SUBSET S PROVE Good(s)
  <2>1. Cardinality(s) \in Nat
    BY <1>2
  <2> HIDE DEF Good
  <2> QED BY <1>6, <2>1
<1> QED BY <1>7

\* What a total is: nothing for nothing, and one more for one member more.
LEMMA TotalIsSum ==
    ASSUME NEW map, NEW S, Summed(map, S)
    PROVE  /\ Total(map, S) \in Nat
           /\ Total(map, {}) = 0
           /\ \A x \in S : Total(map, S) = map[x] + Total(map, S \ {x})
<1> DEFINE G(T) == CHOOSE g : Sums(map, T, g)
<1>1. ASSUME NEW T \in SUBSET S PROVE Sums(map, T, G(T)) /\ Summed(map, T)
  <2>1. Summed(map, T)
    BY FS_Subset DEF Summed
  <2> QED BY <2>1, SumsExist
<1>2. ASSUME NEW T \in SUBSET S PROVE Total(map, T) = G(T)[T] /\ G(T)[T] = G(S)[T]
  <2>1. Total(map, T) = G(T)[T]
    BY TotalUnfolds
  <2>2. Sums(map, T, G(T)) /\ Summed(map, T) /\ Sums(map, S, G(S))
    BY <1>1
  <2> HIDE DEF G
  <2>3. \A s \in SUBSET T : G(T)[s] = G(S)[s]
    BY <2>2, SumsAgree
  <2> QED BY <2>1, <2>3
<1>3. Sums(map, S, G(S))
  BY <1>1
<1> HIDE DEF G
<1>4. G(S)[S] \in Nat /\ \A x \in S : G(S)[S] = map[x] + G(S)[S \ {x}]
  BY <1>3, SumsCommute
<1>5. G(S)[{}] = 0
  BY <1>3, SumsUnfold
<1> QED BY <1>2, <1>4, <1>5

\* Maps that agree have the same total.
LEMMA TotalAgrees ==
    ASSUME NEW map, NEW map2, NEW S, Summed(map, S), \A x \in S : map[x] = map2[x]
    PROVE  Total(map, S) = Total(map2, S)
<1>1. Summed(map2, S)
  BY DEF Summed
<1>2. PICK g : g = CHOOSE f : Sums(map, S, f)
  OBVIOUS
<1>3. PICK g2 : g2 = CHOOSE f : Sums(map2, S, f)
  OBVIOUS
<1>4. Sums(map, S, g) /\ Sums(map2, S, g2)
  BY <1>1, <1>2, <1>3, SumsExist
<1>5. g[S] = g2[S]
  BY <1>4, SumsAgree
<1> QED BY <1>2, <1>3, <1>5, TotalUnfolds

-----------------------------------------------------------------------------
(* The limits                                                              *)

\* Entries of a map are taken away, and put, one by one.
LEMMA RestCounts ==
    ASSUME NEW map, Counts(map), NEW id
    PROVE  /\ Total(map, DOMAIN map) \in Nat /\ Total(map, DOMAIN map \ {id}) \in Nat
           /\ Total(map, DOMAIN map) =
                (IF id \in DOMAIN map THEN map[id] ELSE 0) + Total(map, DOMAIN map \ {id})
           /\ Cardinality(DOMAIN map) \in Nat
           /\ Summed(map, DOMAIN map) /\ Summed(map, DOMAIN map \ {id})
<1>1. Summed(map, DOMAIN map) /\ Summed(map, DOMAIN map \ {id})
  BY FS_RemoveElement DEF Counts, Summed
<1>2. Total(map, DOMAIN map) \in Nat /\ Total(map, DOMAIN map \ {id}) \in Nat
  BY <1>1, TotalIsSum
<1>3. CASE id \in DOMAIN map
  <2>1. Total(map, DOMAIN map) = map[id] + Total(map, DOMAIN map \ {id})
    BY <1>1, <1>3, TotalIsSum
  <2> QED BY <1>1, <1>2, <1>3, <2>1, FS_CardinalityType DEF Counts
<1>4. CASE id \notin DOMAIN map
  <2>1. DOMAIN map \ {id} = DOMAIN map
    BY <1>4
  <2> QED BY <1>1, <1>2, <1>4, <2>1, FS_CardinalityType DEF Counts
<1> QED BY <1>3, <1>4

LEMMA WithoutCounts ==
    ASSUME NEW map, Counts(map), NEW id
    PROVE  /\ Counts(Without(map, id))
           /\ Total(Without(map, id), DOMAIN Without(map, id)) = Total(map, DOMAIN map \ {id})
           /\ Cardinality(DOMAIN Without(map, id)) \in Nat
           /\ Cardinality(DOMAIN Without(map, id)) <= Cardinality(DOMAIN map)
<1>1. /\ DOMAIN Without(map, id) = DOMAIN map \ {id}
      /\ \A x \in DOMAIN map \ {id} : Without(map, id)[x] = map[x]
  BY DEF Without
<1>2. IsFiniteSet(DOMAIN map)
  BY DEF Counts
<1>3. IsFiniteSet(DOMAIN map \ {id}) /\ Cardinality(DOMAIN map \ {id}) <= Cardinality(DOMAIN map)
  BY <1>2, FS_Subset
<1>4. Total(map, DOMAIN map \ {id}) = Total(Without(map, id), DOMAIN map \ {id})
  BY <1>1, RestCounts, TotalAgrees
<1>5. Counts(Without(map, id))
  BY <1>1, <1>3 DEF Counts
<1> QED BY <1>1, <1>3, <1>4, <1>5, FS_CardinalityType

LEMMA WithCounts ==
    ASSUME NEW map, Counts(map), NEW id, NEW value \in Nat, NEW most \in Nat,
           Cardinality(DOMAIN map) <= most,
           Cardinality(DOMAIN map) < most \/ id \in DOMAIN map
    PROVE  /\ Counts(With(map, id, value))
           /\ Total(With(map, id, value), DOMAIN With(map, id, value))
                = value + Total(map, DOMAIN map \ {id})
           /\ Cardinality(DOMAIN With(map, id, value)) <= most
<1> DEFINE w == With(map, id, value)
<1>1. /\ DOMAIN w = DOMAIN map \cup {id} /\ w[id] = value
      /\ \A x \in DOMAIN map \ {id} : w[x] = map[x]
  BY DEF With
<1> HIDE DEF w
<1>2. IsFiniteSet(DOMAIN map) /\ Cardinality(DOMAIN map) \in Nat
  BY FS_CardinalityType DEF Counts
<1>3. /\ IsFiniteSet(DOMAIN map \cup {id})
      /\ Cardinality(DOMAIN map \cup {id}) =
            IF id \in DOMAIN map THEN Cardinality(DOMAIN map) ELSE Cardinality(DOMAIN map) + 1
  BY <1>2, FS_AddElement
<1>4. Counts(w)
  BY <1>1, <1>3 DEF Counts
<1>5. DOMAIN w \ {id} = DOMAIN map \ {id}
  BY <1>1
<1>6. Total(w, DOMAIN w) = value + Total(w, DOMAIN map \ {id})
  BY <1>1, <1>4, <1>5, RestCounts
<1>7. Total(map, DOMAIN map \ {id}) = Total(w, DOMAIN map \ {id})
  BY <1>1, RestCounts, TotalAgrees
<1>8. Cardinality(DOMAIN w) <= most
  BY <1>1, <1>2, <1>3
<1> QED BY <1>4, <1>6, <1>7, <1>8 DEF w

LEMMA NothingCounts ==
    /\ Counts(NoMap) /\ DOMAIN NoMap = {} /\ Cardinality({}) = 0
    /\ Total(NoMap, DOMAIN NoMap) = 0
<1>1. Counts(NoMap) /\ DOMAIN NoMap = {} /\ Cardinality({}) = 0
  BY FS_EmptySet DEF Counts, NoMap
<1>2. Summed(NoMap, {})
  BY FS_EmptySet DEF Summed
<1> QED BY <1>1, <1>2, TotalIsSum

LEMMA LimitsAreNatural ==
    /\ MaxConnections \in Nat /\ MaxReqs \in Nat /\ MaxSubscriptionBytes \in Nat
    /\ MaxNegs \in Nat /\ MaxItems \in Nat
BY LimitsAssumption

\* What a session retains, and what its job has been let through for
SubscribedOf(s) ==
    /\ Counts(Sizes(s))
    /\ subscription_bytes[s] = Total(Sizes(s), DOMAIN Sizes(s))
    /\ subscription_bytes[s] <= MaxSubscriptionBytes
    /\ Cardinality(DOMAIN Sizes(s)) <= MaxReqs
ReconcilingOf(s) ==
    /\ Counts(negentropy[s])
    /\ Cardinality(DOMAIN negentropy[s]) <= MaxNegs
    /\ Total(negentropy[s], DOMAIN negentropy[s]) <= MaxItems
LetThrough(s) ==
    /\ job[s].type = "query" =>
        /\ Cardinality(DOMAIN subscriptions[s]) < MaxReqs \/ job[s].id \in DOMAIN subscriptions[s]
        /\ job[s].size \in Nat /\ subscription_fits(s, job[s].id, job[s].size)
    /\ job[s].type = "reconcile" =>
        Cardinality(DOMAIN negentropy[s]) < MaxNegs \/ job[s].id \in DOMAIN negentropy[s]
LEMMA LimitsParts ==
    ASSUME NEW s
    PROVE  LimitsOf(s) <=> SubscribedOf(s) /\ ReconcilingOf(s) /\ LetThrough(s)
BY DEF LimitsOf, SubscribedOf, ReconcilingOf, LetThrough

LEMMA SameSubscribed ==
    ASSUME NEW s, SubscribedOf(s), subscriptions'[s] = subscriptions[s],
           subscription_bytes'[s] = subscription_bytes[s]
    PROVE  SubscribedOf(s)'
BY DEF SubscribedOf, Sizes
LEMMA SameReconciling ==
    ASSUME NEW s, ReconcilingOf(s), negentropy'[s] = negentropy[s]
    PROVE  ReconcilingOf(s)'
BY DEF ReconcilingOf
LEMMA SameLetThrough ==
    ASSUME NEW s, LetThrough(s), subscriptions'[s] = subscriptions[s],
           subscription_bytes'[s] = subscription_bytes[s], negentropy'[s] = negentropy[s],
           job'[s] = job[s] \/ job'[s].type \notin {"query", "reconcile"}
    PROVE  LetThrough(s)'
BY DEF LetThrough, subscription_fits, Size
LEMMA SameLimits ==
    ASSUME NEW s, LimitsOf(s), subscriptions'[s] = subscriptions[s],
           subscription_bytes'[s] = subscription_bytes[s], negentropy'[s] = negentropy[s],
           job'[s] = job[s] \/ job'[s].type \notin {"query", "reconcile"}
    PROVE  LimitsOf(s)'
<1>1. SubscribedOf(s) /\ ReconcilingOf(s) /\ LetThrough(s)
  BY LimitsParts
<1>2. SubscribedOf(s)' /\ ReconcilingOf(s)' /\ LetThrough(s)'
  BY <1>1, SameSubscribed, SameReconciling, SameLetThrough
<1>3. LimitsOf(s)' <=> SubscribedOf(s)' /\ ReconcilingOf(s)' /\ LetThrough(s)'
  BY DEF LimitsOf, SubscribedOf, ReconcilingOf, LetThrough
<1> QED BY <1>2, <1>3

\* Without a job there is nothing to let through.
LEMMA IdleLimits ==
    ASSUME NEW s, SubscribedOf(s)', ReconcilingOf(s)', job'[s].type \notin {"query", "reconcile"}
    PROVE  LimitsOf(s)'
BY DEF LimitsOf, SubscribedOf, ReconcilingOf

\* The registrations of a session end with it, or when it has lost events.
LEMMA NothingSubscribed ==
    ASSUME NEW s, subscriptions'[s] = NoMap, subscription_bytes'[s] = 0
    PROVE  SubscribedOf(s)'
<1>1. Sizes(s)' = NoMap
  BY DEF Sizes, NoMap
<1> QED BY <1>1, NothingCounts, LimitsAreNatural DEF SubscribedOf
LEMMA NothingReconciling ==
    ASSUME NEW s, negentropy'[s] = NoMap
    PROVE  ReconcilingOf(s)'
BY NothingCounts, LimitsAreNatural DEF ReconcilingOf

\* CLOSE gives back the bytes of the request.
LEMMA ClosingSubscribed ==
    ASSUME NEW s, NEW id, SubscribedOf(s), subscriptions'[s] = Without(subscriptions[s], id),
           subscription_bytes'[s] = subscription_bytes[s] - Size(s, id)
    PROVE  SubscribedOf(s)'
<1>1. Sizes(s)' = Without(Sizes(s), id)
  BY DEF Sizes, Without
<1>2. Counts(Sizes(s)) /\ DOMAIN Sizes(s) = DOMAIN subscriptions[s]
  BY DEF SubscribedOf, Sizes
<1>3. Size(s, id) = IF id \in DOMAIN Sizes(s) THEN Sizes(s)[id] ELSE 0
  BY <1>2 DEF Size, Sizes
<1>4. Size(s, id) \in Nat
  BY <1>2, <1>3 DEF Counts
<1>5. /\ Total(Sizes(s), DOMAIN Sizes(s)) = Size(s, id) + Total(Sizes(s), DOMAIN Sizes(s) \ {id})
      /\ Total(Sizes(s), DOMAIN Sizes(s) \ {id}) \in Nat
      /\ Cardinality(DOMAIN Sizes(s)) \in Nat
  BY <1>2, <1>3, RestCounts
<1>6. /\ Counts(Sizes(s)')
      /\ Total(Sizes(s)', DOMAIN Sizes(s)') = Total(Sizes(s), DOMAIN Sizes(s) \ {id})
      /\ Cardinality(DOMAIN Sizes(s)') \in Nat
      /\ Cardinality(DOMAIN Sizes(s)') <= Cardinality(DOMAIN Sizes(s))
  BY <1>1, <1>2, WithoutCounts
<1>7. subscription_bytes'[s] = Total(Sizes(s), DOMAIN Sizes(s) \ {id})
  BY <1>4, <1>5 DEF SubscribedOf
<1>8. subscription_bytes'[s] <= MaxSubscriptionBytes
  BY <1>4, <1>5, <1>7, LimitsAreNatural DEF SubscribedOf
<1>9. Cardinality(DOMAIN Sizes(s)') <= MaxReqs
  BY <1>5, <1>6, LimitsAreNatural DEF SubscribedOf
<1> QED BY <1>6, <1>7, <1>8, <1>9 DEF SubscribedOf

\* A request is registered at the price it was let through for.
LEMMA RegisteringSubscribed ==
    ASSUME NEW s, NEW id, NEW r, r.size \in Nat, SubscribedOf(s),
           Cardinality(DOMAIN subscriptions[s]) < MaxReqs \/ id \in DOMAIN subscriptions[s],
           subscription_fits(s, id, r.size),
           subscriptions'[s] = With(subscriptions[s], id, r),
           subscription_bytes'[s] = subscription_bytes[s] - Size(s, id) + r.size
    PROVE  SubscribedOf(s)'
<1>1. Sizes(s)' = With(Sizes(s), id, r.size)
  BY DEF Sizes, With
<1>2. Counts(Sizes(s)) /\ DOMAIN Sizes(s) = DOMAIN subscriptions[s]
  BY DEF SubscribedOf, Sizes
<1>3. Size(s, id) = IF id \in DOMAIN Sizes(s) THEN Sizes(s)[id] ELSE 0
  BY <1>2 DEF Size, Sizes
<1>4. Size(s, id) \in Nat
  BY <1>2, <1>3 DEF Counts
<1>5. /\ Total(Sizes(s), DOMAIN Sizes(s)) = Size(s, id) + Total(Sizes(s), DOMAIN Sizes(s) \ {id})
      /\ Total(Sizes(s), DOMAIN Sizes(s) \ {id}) \in Nat
  BY <1>2, <1>3, RestCounts
<1>6. Cardinality(DOMAIN Sizes(s)) <= MaxReqs /\ MaxReqs \in Nat
  BY LimitsAreNatural DEF SubscribedOf
<1>7. /\ Counts(Sizes(s)')
      /\ Total(Sizes(s)', DOMAIN Sizes(s)') = r.size + Total(Sizes(s), DOMAIN Sizes(s) \ {id})
      /\ Cardinality(DOMAIN Sizes(s)') <= MaxReqs
  <2>1. Cardinality(DOMAIN Sizes(s)) < MaxReqs \/ id \in DOMAIN Sizes(s)
    BY <1>2
  <2> QED BY <1>1, <1>2, <1>6, <2>1, WithCounts
<1>8. subscription_bytes'[s] = r.size + Total(Sizes(s), DOMAIN Sizes(s) \ {id})
  BY <1>4, <1>5 DEF SubscribedOf
<1>9. subscription_bytes'[s] <= MaxSubscriptionBytes
  BY DEF subscription_fits
<1> QED BY <1>7, <1>8, <1>9 DEF SubscribedOf

\* A reconciliation ends, or retains what the others leave.
LEMMA EndingReconciling ==
    ASSUME NEW s, NEW id, ReconcilingOf(s), negentropy'[s] = Without(negentropy[s], id)
    PROVE  ReconcilingOf(s)'
<1> DEFINE map == negentropy[s]
           kept == Without(map, id)
<1>1. Counts(map) /\ Cardinality(DOMAIN map) <= MaxNegs /\ Total(map, DOMAIN map) <= MaxItems
  BY DEF ReconcilingOf
<1>2. PICK n : n = IF id \in DOMAIN map THEN map[id] ELSE 0
  OBVIOUS
<1>3. n \in Nat
  BY <1>1, <1>2 DEF Counts
<1> HIDE DEF map
<1>4. /\ Total(map, DOMAIN map) = n + Total(map, DOMAIN map \ {id})
      /\ Total(map, DOMAIN map \ {id}) \in Nat /\ Cardinality(DOMAIN map) \in Nat
  BY <1>1, <1>2, RestCounts
<1>5. /\ Counts(kept) /\ Total(kept, DOMAIN kept) = Total(map, DOMAIN map \ {id})
      /\ Cardinality(DOMAIN kept) \in Nat /\ Cardinality(DOMAIN kept) <= Cardinality(DOMAIN map)
  BY <1>1, WithoutCounts
<1> HIDE DEF kept
<1>6. Cardinality(DOMAIN kept) <= MaxNegs /\ Total(kept, DOMAIN kept) <= MaxItems
  BY <1>1, <1>3, <1>4, <1>5, LimitsAreNatural
<1>7. negentropy'[s] = kept
  BY DEF kept, map
<1> QED BY <1>5, <1>6, <1>7 DEF ReconcilingOf
LEMMA KeepingReconciling ==
    ASSUME NEW s, NEW id, NEW items \in Nat, ReconcilingOf(s),
           Cardinality(DOMAIN negentropy[s]) < MaxNegs \/ id \in DOMAIN negentropy[s],
           items <= MaxItems - Retained(s, id),
           negentropy'[s] = With(negentropy[s], id, items)
    PROVE  ReconcilingOf(s)'
<1> DEFINE map == negentropy[s]
           kept == With(map, id, items)
<1>1. Counts(map) /\ Cardinality(DOMAIN map) <= MaxNegs /\ MaxNegs \in Nat /\ MaxItems \in Nat
  BY LimitsAreNatural DEF ReconcilingOf
<1>2. Retained(s, id) = Total(map, DOMAIN map \ {id})
  BY DEF Retained
<1>3. Cardinality(DOMAIN map) < MaxNegs \/ id \in DOMAIN map
  OBVIOUS
<1> HIDE DEF map
<1>4. Retained(s, id) \in Nat
  <2>1. Total(map, DOMAIN map \ {id}) \in Nat
    BY <1>1, RestCounts
  <2> QED BY <1>2, <2>1
<1>5. /\ Counts(kept) /\ Total(kept, DOMAIN kept) = items + Retained(s, id)
      /\ Cardinality(DOMAIN kept) <= MaxNegs
  <2>1. /\ Counts(kept) /\ Total(kept, DOMAIN kept) = items + Total(map, DOMAIN map \ {id})
        /\ Cardinality(DOMAIN kept) <= MaxNegs
    BY <1>1, <1>3, WithCounts
  <2> HIDE DEF kept
  <2> QED BY <1>2, <2>1
<1> HIDE DEF kept
<1>6. Total(kept, DOMAIN kept) <= MaxItems
  BY <1>1, <1>4, <1>5
<1>7. negentropy'[s] = kept
  BY DEF kept, map
<1> QED BY <1>5, <1>6, <1>7 DEF ReconcilingOf

\* What the steps of a session do to its own limits.
Counted == Session = DOMAIN subscription_bytes /\ Session = DOMAIN negentropy

LEMMA SessionKeepsLimits ==
    ASSUME Typed, Counted, NEW s \in Session, LimitsOf(s),
           Accept(s) \/ Established(s) \/ EndSession(s) \/ Recv(s) \/ RecvLagged(s)
    PROVE  LimitsOf(s)'
<1>1. CASE Accept(s) \/ Established(s) \/ Recv(s)
  BY <1>1, SameLimits DEF Accept, Established, Recv, limits
<1>2. CASE EndSession(s)
  <2>1. /\ subscriptions'[s] = NoMap /\ subscription_bytes'[s] = 0 /\ negentropy'[s] = NoMap
        /\ job'[s].type = "none"
    BY <1>2 DEF EndSession, Typed, Counted, NoJob
  <2> QED BY <2>1, NothingSubscribed, NothingReconciling, IdleLimits
<1>3. CASE RecvLagged(s)
  <2>1. /\ subscriptions'[s] = NoMap /\ subscription_bytes'[s] = 0 /\ negentropy'[s] = negentropy[s]
        /\ job'[s].type = "none"
    BY <1>3 DEF RecvLagged, Typed, TypeOK, Counted
  <2> QED BY <2>1, NothingSubscribed, SameReconciling, IdleLimits, LimitsParts
<1> QED BY <1>1, <1>2, <1>3

LEMMA HandlingKeepsLimits ==
    ASSUME Typed, Counted, NEW s \in Session, LimitsOf(s), NEW m \in Asks(s), Handle(s, m)
    PROVE  LimitsOf(s)'
<1>1. SubscribedOf(s) /\ ReconcilingOf(s)
  BY LimitsParts
<1>2. ASSUME Take(s, NoJob) PROVE job'[s].type = "none"
  BY <1>2 DEF Take, Typed, NoJob
<1>3. CASE Refused(s, m) \/ HandleCount(s, m) \/ check_challenge(s, m.key)
  <2>1. UNCHANGED limits /\ Take(s, NoJob)
    BY <1>3 DEF Refused, HandleCount, check_challenge
  <2> QED BY <1>2, <2>1, SameLimits DEF limits
<1>4. CASE remove_subscription(s, m.id)
  <2>1. /\ subscriptions'[s] = Without(subscriptions[s], m.id)
        /\ subscription_bytes'[s] = subscription_bytes[s] - Size(s, m.id)
        /\ negentropy'[s] = negentropy[s]
    BY <1>4 DEF remove_subscription, Typed, Counted
  <2>2. job'[s].type = "none"
    BY <1>2, <1>4 DEF remove_subscription
  <2>3. SubscribedOf(s)'
    BY <1>1, <2>1, ClosingSubscribed
  <2>4. ReconcilingOf(s)'
    BY <1>1, <2>1, SameReconciling
  <2> QED BY <2>2, <2>3, <2>4, IdleLimits
<1>5. CASE EndNeg(s, m.id)
  <2>1. /\ negentropy'[s] = Without(negentropy[s], m.id)
        /\ subscriptions'[s] = subscriptions[s] /\ subscription_bytes'[s] = subscription_bytes[s]
    BY <1>5 DEF EndNeg, Counted
  <2>2. job'[s].type = "none"
    BY <1>2, <1>5 DEF EndNeg
  <2>3. SubscribedOf(s)'
    BY <1>1, <2>1, SameSubscribed
  <2>4. ReconcilingOf(s)'
    BY <1>1, <2>1, EndingReconciling
  <2> QED BY <2>2, <2>3, <2>4, IdleLimits
<1>6. ASSUME NEW j, Starts(s, j) PROVE job'[s] = j /\ UNCHANGED limits
  BY <1>6 DEF Starts, Take, Typed
<1>7. CASE m.type = "EVENT" /\ HandleEvent(s, m.event)
  <2>1. job'[s] = Write(m.event) /\ UNCHANGED limits
    BY <1>6, <1>7, HandlersStart
  <2> QED BY <2>1, SameLimits DEF limits, Write
<1>8. CASE m.type = "REQ" /\ HandleReq(s, m)
  <2>1. job'[s] = QueryOf(m) /\ UNCHANGED limits
    BY <1>6, <1>8, HandlersStart
  <2>2. /\ QueryOf(m).type = "query" /\ QueryOf(m).id = m.id /\ QueryOf(m).size = m.size
    BY DEF QueryOf
  <2>3. /\ Cardinality(DOMAIN subscriptions[s]) < MaxReqs \/ m.id \in DOMAIN subscriptions[s]
        /\ m.size \in Nat /\ subscription_fits(s, m.id, m.size)
    BY <1>8, AsksAssumption DEF HandleReq
  <2>4. LetThrough(s)'
    BY <2>1, <2>2, <2>3 DEF LetThrough, limits, subscription_fits, Size
  <2>5. SubscribedOf(s)' /\ ReconcilingOf(s)'
    BY <1>1, <2>1, SameSubscribed, SameReconciling DEF limits
  <2> QED BY <2>4, <2>5 DEF LimitsOf, SubscribedOf, ReconcilingOf, LetThrough
<1>9. CASE HandleNegOpen(s, m)
  <2>1. job'[s] = ReconcileOf(m) /\ UNCHANGED limits
    BY <1>6, <1>9, HandlersStart
  <2>2. LetThrough(s)'
    BY <1>9, <2>1 DEF HandleNegOpen, ReconcileOf, LetThrough, limits
  <2>3. SubscribedOf(s)' /\ ReconcilingOf(s)'
    BY <1>1, <2>1, SameSubscribed, SameReconciling DEF limits
  <2> QED BY <2>2, <2>3 DEF LimitsOf, SubscribedOf, ReconcilingOf, LetThrough
<1> QED BY <1>3, <1>4, <1>5, <1>7, <1>8, <1>9 DEF Handle

LEMMA WorkingKeepsLimits ==
    ASSUME Typed, Counted, IsFiniteSet(stored), NEW s \in Session, LimitsOf(s),
           \/ CheckId(s) \/ SaveEvent(s) \/ Announce(s) \/ Query(s) \/ FinishReq(s) \/ Reconcile(s)
    PROVE  LimitsOf(s)'
<1>1. SubscribedOf(s) /\ ReconcilingOf(s) /\ LetThrough(s)
  BY LimitsParts
<1>2. ASSUME Done(s) PROVE job'[s].type = "none"
  <2>1. job'[s] = NoJob
    BY <1>2 DEF Done, Typed
  <2> QED BY <2>1 DEF NoJob
<1>3. CASE CheckId(s) \/ SaveEvent(s) \/ Announce(s)
  <2>1. UNCHANGED limits
    BY <1>3 DEF CheckId, SaveEvent, Announce
  <2>2. job'[s].type \notin {"query", "reconcile"}
    <3>1. ASSUME NEW j, Continue(s, j) PROVE job'[s] = j
      BY <3>1 DEF Continue, Typed
    <3>2. CASE Done(s)
      BY <1>2, <3>2
    <3>3. CASE Continue(s, [type |-> "save", event |-> job[s].event])
      BY <3>1, <3>3
    <3>4. CASE Continue(s, [type |-> "saved", event |-> job[s].event])
      BY <3>1, <3>4
    <3> QED BY <1>3, <3>2, <3>3, <3>4 DEF CheckId, SaveEvent, Announce
  <2> QED BY <2>1, <2>2, SameLimits DEF limits
<1>4. CASE Query(s)
  <2>1. PICK f \in job[s].rest : job'[s] = [job[s] EXCEPT !.rest = @ \ {f}, !.found = @ \cup Answer(stored, f),
                          !.cut = @ \cup ({e \in stored : match_event(f, e)} \ Answer(stored, f))]
    BY <1>4 DEF Query, Continue, Typed
  <2>2. DOMAIN job[s] = QueryJob
    BY <1>4 DEF Query, Typed, JobOK
  <2>3. job'[s].type = "query" /\ job'[s].id = job[s].id /\ job'[s].size = job[s].size
    BY <1>4, <2>1, <2>2 DEF QueryJob, Query
  <2>4. UNCHANGED limits /\ job[s].type = "query"
    BY <1>4 DEF Query
  <2>5. LetThrough(s)'
    BY <1>1, <2>3, <2>4 DEF LetThrough, limits, subscription_fits, Size
  <2>6. SubscribedOf(s)' /\ ReconcilingOf(s)'
    BY <1>1, <2>4, SameSubscribed, SameReconciling DEF limits
  <2> QED BY <2>5, <2>6 DEF LimitsOf, SubscribedOf, ReconcilingOf, LetThrough
<1>5. CASE FinishReq(s)
  <2>1. negentropy'[s] = negentropy[s] /\ job'[s].type = "none" /\ job[s].type = "query"
    BY <1>2, <1>5 DEF FinishReq
  <2>2. CASE AllFound(job[s])
    <3>1. UNCHANGED limits
      BY <1>5, <2>2 DEF FinishReq, limits
    <3> QED BY <2>1, <3>1, SameLimits DEF limits
  <2>3. CASE ~AllFound(job[s])
    <3>1. PICK r : /\ r.size = job[s].size
                   /\ subscriptions' = [subscriptions EXCEPT ![s] = With(@, job[s].id, r)]
                   /\ subscription_bytes' =
                        [subscription_bytes EXCEPT ![s] = @ - Size(s, job[s].id) + r.size]
      BY <1>5, <2>3 DEF FinishReq
    <3>2. /\ subscriptions'[s] = With(subscriptions[s], job[s].id, r)
          /\ subscription_bytes'[s] = subscription_bytes[s] - Size(s, job[s].id) + r.size
      BY <3>1 DEF Typed, Counted
    <3>3. /\ Cardinality(DOMAIN subscriptions[s]) < MaxReqs \/ job[s].id \in DOMAIN subscriptions[s]
          /\ r.size \in Nat /\ subscription_fits(s, job[s].id, r.size)
      BY <1>1, <2>1, <3>1 DEF LetThrough
    <3>4. SubscribedOf(s)'
      BY <1>1, <3>2, <3>3, RegisteringSubscribed
    <3> QED BY <1>1, <2>1, <3>4, SameReconciling, IdleLimits
  <2> QED BY <2>2, <2>3
<1>6. CASE Reconcile(s)
  <2> DEFINE id == job[s].id
             left == MaxItems - Retained(s, id)
             found == {e \in stored : Matches(job[s].filters, e)}
             items == IF Cardinality(found) > left + 1 THEN left + 1 ELSE Cardinality(found)
  <2>1. /\ subscriptions'[s] = subscriptions[s] /\ subscription_bytes'[s] = subscription_bytes[s]
        /\ job'[s].type = "none"
    BY <1>2, <1>6 DEF Reconcile
  <2>2. SubscribedOf(s)'
    BY <1>1, <2>1, SameSubscribed
  <2>3. CASE UNCHANGED negentropy
    BY <1>1, <2>1, <2>2, <2>3, SameReconciling, IdleLimits
  <2>4. CASE items <= left /\ negentropy' = [negentropy EXCEPT ![s] = With(@, id, items)]
    <3>1. negentropy'[s] = With(negentropy[s], id, items)
      BY <2>4 DEF Counted
    <3>2. Cardinality(found) \in Nat
      BY FS_Subset, FS_CardinalityType
    <3>3. Retained(s, id) \in Nat
      BY <1>1, RestCounts DEF Retained, ReconcilingOf
    <3>4. MaxItems \in Nat
      BY LimitsAreNatural
    <3> HIDE DEF found, id
    <3>5. items \in Nat
      BY <2>4, <3>2, <3>3, <3>4
    <3>6. items <= MaxItems - Retained(s, id)
      BY <2>4
    <3>7. Cardinality(DOMAIN negentropy[s]) < MaxNegs \/ id \in DOMAIN negentropy[s]
      BY <1>1, <1>6 DEF LetThrough, Reconcile, id
    <3> HIDE DEF items
    <3>8. ReconcilingOf(s)'
      BY <1>1, <3>1, <3>5, <3>6, <3>7, KeepingReconciling
    <3> QED BY <2>1, <2>2, <3>8, IdleLimits
  <2> QED BY <1>6, <2>3, <2>4 DEF Reconcile
<1> QED BY <1>3, <1>4, <1>5, <1>6

\* Of one session, a step keeps the limits of the others.
LEMMA OtherLimits ==
    ASSUME Typed, Counted, NEW s \in Session, SessionStep(s), NEW t \in Session \ {s}
    PROVE  subscription_bytes'[t] = subscription_bytes[t] /\ negentropy'[t] = negentropy[t]
<1>1. CASE Accept(s) \/ Established(s) \/ Recv(s)
  BY <1>1 DEF Accept, Established, Recv, limits
<1>2. CASE EndSession(s) \/ RecvLagged(s)
  BY <1>2 DEF EndSession, RecvLagged, Counted
<1>3. CASE CheckId(s) \/ SaveEvent(s) \/ Announce(s) \/ Query(s)
  BY <1>3 DEF CheckId, SaveEvent, Announce, Query, limits
<1>4. CASE FinishReq(s) \/ Reconcile(s)
  BY <1>4 DEF FinishReq, Reconcile, Counted
<1>5. ASSUME NEW m \in Asks(s), Handle(s, m)
      PROVE  subscription_bytes'[t] = subscription_bytes[t] /\ negentropy'[t] = negentropy[t]
  BY <1>5 DEF Handle, Refused, HandleEvent, HandleReq, HandleCount, remove_subscription,
       check_challenge, HandleNegOpen, EndNeg, Counted, limits
<1> QED BY <1>1, <1>2, <1>3, <1>4, <1>5 DEF SessionStep

LEMMA SessionsCounted ==
    ASSUME Typed, Counted, [Next]_vars
    PROVE  Counted'
<1>1. ASSUME NEW s \in Session, SessionStep(s) PROVE Counted'
  <2>1. CASE Accept(s) \/ Established(s) \/ Recv(s)
    BY <2>1 DEF Accept, Established, Recv, limits, Counted
  <2>2. CASE EndSession(s) \/ RecvLagged(s)
    BY <2>2 DEF EndSession, RecvLagged, Counted
  <2>3. CASE CheckId(s) \/ SaveEvent(s) \/ Announce(s) \/ Query(s)
    BY <2>3 DEF CheckId, SaveEvent, Announce, Query, limits, Counted
  <2>4. CASE FinishReq(s) \/ Reconcile(s)
    BY <2>4 DEF FinishReq, Reconcile, Counted
  <2>5. ASSUME NEW m \in Asks(s), Handle(s, m) PROVE Counted'
    BY <2>5 DEF Handle, Refused, HandleEvent, HandleReq, HandleCount, remove_subscription,
         check_challenge, HandleNegOpen, EndNeg, Counted, limits
  <2> QED BY <1>1, <2>1, <2>2, <2>3, <2>4, <2>5 DEF SessionStep
<1>2. CASE Run \/ Listen \/ Shutdown \/ StopListening
  BY <1>2 DEF Run, Listen, Shutdown, StopListening, limits, Counted
<1>3. ASSUME NEW e \in AppEvent, AppSave(e) \/ AppNotify(e) \/ notify_event(e) PROVE Counted'
  BY <1>3 DEF AppSave, AppNotify, notify_event, limits, Counted
<1>4. CASE UNCHANGED vars
  BY <1>4 DEF vars, Counted
<1> QED BY <1>1, <1>2, <1>3, <1>4 DEF Next

\* The database takes one event at a time.
LEMMA StoredStaysFinite ==
    ASSUME IsFiniteSet(stored), [Next]_vars
    PROVE  IsFiniteSet(stored')
<1>1. ASSUME NEW e, stored' = stored \cup {e} PROVE IsFiniteSet(stored')
  BY <1>1, FS_AddElement
<1>2. ASSUME NEW s \in Session, SessionStep(s) PROVE IsFiniteSet(stored')
  <2>1. CASE SaveEvent(s)
    BY <1>1, <2>1 DEF SaveEvent
  <2>2. CASE Accept(s) \/ Established(s) \/ EndSession(s) \/ Recv(s) \/ RecvLagged(s)
    BY <2>2 DEF Accept, Established, EndSession, Recv, RecvLagged
  <2>3. CASE CheckId(s) \/ Announce(s) \/ Query(s) \/ FinishReq(s) \/ Reconcile(s)
    BY <2>3 DEF CheckId, Announce, Query, FinishReq, Reconcile
  <2>4. ASSUME NEW m \in Asks(s), Handle(s, m) PROVE IsFiniteSet(stored')
    BY <2>4 DEF Handle, Refused, HandleEvent, HandleReq, HandleCount, remove_subscription,
         check_challenge, HandleNegOpen, EndNeg, Take
  <2> QED BY <1>2, <2>1, <2>2, <2>3, <2>4 DEF SessionStep
<1>3. CASE Run \/ Listen \/ Shutdown \/ StopListening
  BY <1>3 DEF Run, Listen, Shutdown, StopListening
<1>4. ASSUME NEW e \in AppEvent, AppSave(e) \/ AppNotify(e) \/ notify_event(e)
      PROVE  IsFiniteSet(stored')
  BY <1>1, <1>4 DEF AppSave, AppNotify, notify_event
<1>5. CASE UNCHANGED vars
  BY <1>5 DEF vars
<1> QED BY <1>2, <1>3, <1>4, <1>5 DEF Next

\* A session more is accepted only below the limit.
Few == IsFiniteSet(Connected) /\ Cardinality(Connected) <= MaxConnections
LEMMA ConnectedAreFew ==
    ASSUME Typed, Few, [Next]_vars
    PROVE  Few'
<1>1. IsFiniteSet(Connected) /\ Cardinality(Connected) \in Nat /\ MaxConnections \in Nat
  BY FS_CardinalityType, LimitsAreNatural DEF Few
<1>2. ASSUME Connected' \subseteq Connected PROVE Few'
  <2>1. /\ IsFiniteSet(Connected') /\ Cardinality(Connected') <= Cardinality(Connected)
    BY <1>1, <1>2, FS_Subset
  <2>2. Cardinality(Connected') \in Nat
    BY <2>1, FS_CardinalityType
  <2> QED BY <1>1, <2>1, <2>2 DEF Few
<1>3. phase \in [Session -> {"none", "handshake", "select", "busy", "closed"}]
  BY DEF Typed, TypeOK
<1>4. \A s \in Session : job[s].type # "none" <=> phase[s] = "busy"
  BY DEF Typed, TypeOK
<1>5. ASSUME NEW s \in Session, SessionStep(s) PROVE Few'
  <2>1. CASE Accept(s)
    <3>1. CASE Cardinality(Connected) < MaxConnections
      <4>1. phase' = [phase EXCEPT ![s] = "handshake"]
        BY <2>1, <3>1 DEF Accept, Connected
      <4>2. Connected' \subseteq Connected \cup {s}
        BY <1>3, <4>1 DEF Connected
      <4>3. /\ IsFiniteSet(Connected \cup {s}) /\ Cardinality(Connected \cup {s}) <= MaxConnections
        BY <1>1, <3>1, FS_AddElement
      <4>4. Cardinality(Connected \cup {s}) \in Nat
        BY <4>3, FS_CardinalityType
      <4>5. IsFiniteSet(Connected') /\ Cardinality(Connected') <= Cardinality(Connected \cup {s})
        BY <4>2, <4>3, FS_Subset
      <4>6. Cardinality(Connected') \in Nat
        BY <4>5, FS_CardinalityType
      <4> QED BY <1>1, <4>3, <4>4, <4>5, <4>6 DEF Few
    <3>2. CASE ~(Cardinality(Connected) < MaxConnections)
      <4>1. phase' = [phase EXCEPT ![s] = "closed"]
        BY <2>1, <3>2 DEF Accept, Connected
      <4>2. Connected' \subseteq Connected
        BY <1>3, <4>1 DEF Connected
      <4> QED BY <1>2, <4>2
    <3> QED BY <3>1, <3>2
  <2>2. ASSUME phase[s] \in {"handshake", "select", "busy"},
               NEW p, phase' = [phase EXCEPT ![s] = p]
        PROVE  Few'
    <3>1. Connected' \subseteq Connected
      BY <1>3, <2>2 DEF Connected
    <3> QED BY <1>2, <3>1
  <2>3. ASSUME phase' = phase PROVE Few'
    <3>1. Connected' \subseteq Connected
      BY <2>3 DEF Connected
    <3> QED BY <1>2, <3>1
  <2>4. CASE Established(s)
    BY <2>2, <2>4 DEF Established
  <2>5. CASE EndSession(s)
    <3>1. phase' = [phase EXCEPT ![s] = "closed"]
      BY <2>5 DEF EndSession
    <3>2. Connected' \subseteq Connected
      BY <1>3, <3>1 DEF Connected
    <3> QED BY <1>2, <3>2
  <2>6. CASE Recv(s) \/ RecvLagged(s)
    BY <2>3, <2>6 DEF Recv, RecvLagged
  <2>7. CASE CheckId(s) \/ SaveEvent(s) \/ Announce(s) \/ Query(s) \/ FinishReq(s) \/ Reconcile(s)
    <3>1. phase[s] = "busy"
      BY <1>4, <2>7 DEF CheckId, SaveEvent, Announce, Query, FinishReq, Reconcile
    <3>2. phase' = [phase EXCEPT ![s] = "select"] \/ phase' = phase
      BY <2>7 DEF CheckId, SaveEvent, Announce, Query, FinishReq, Reconcile, Done, Continue
    <3> QED BY <2>2, <2>3, <3>1, <3>2
  <2>8. ASSUME NEW m \in Asks(s), Handle(s, m) PROVE Few'
    <3>1. PICK j : Take(s, j)
      BY <2>8 DEF Handle, Refused, HandleEvent, HandleReq, HandleCount, remove_subscription,
           check_challenge, HandleNegOpen, EndNeg
    <3> QED BY <2>2, <3>1 DEF Take
  <2> QED BY <1>5, <2>1, <2>4, <2>5, <2>6, <2>7, <2>8 DEF SessionStep
<1>6. ASSUME UNCHANGED phase PROVE Few'
  <2>1. Connected' \subseteq Connected
    BY <1>6 DEF Connected
  <2> QED BY <1>2, <2>1
<1>7. CASE Run \/ Listen \/ Shutdown \/ StopListening
  BY <1>6, <1>7 DEF Run, Listen, Shutdown, StopListening
<1>8. ASSUME NEW e \in AppEvent, AppSave(e) \/ AppNotify(e) \/ notify_event(e) PROVE Few'
  BY <1>6, <1>8 DEF AppSave, AppNotify, notify_event
<1>9. CASE UNCHANGED vars
  BY <1>6, <1>9 DEF vars
<1> QED BY <1>5, <1>7, <1>8, <1>9 DEF Next

LEMMA NextLimits == Typed /\ LimitsInv /\ [Next]_vars => LimitsInv'
<1> SUFFICES ASSUME Typed, LimitsInv, [Next]_vars PROVE LimitsInv'
  OBVIOUS
<1>1. IsFiniteSet(stored) /\ Few /\ Counted
  BY DEF LimitsInv, Few, Counted
<1>2. IsFiniteSet(stored') /\ Few' /\ Counted'
  BY <1>1, StoredStaysFinite, ConnectedAreFew, SessionsCounted
<1>3. ASSUME NEW t \in Session PROVE LimitsOf(t)'
  <2>1. LimitsOf(t)
    BY DEF LimitsInv
  <2>2. ASSUME NEW s \in Session, SessionStep(s) PROVE LimitsOf(t)'
    <3>1. CASE t # s
      BY <1>1, <2>1, <2>2, <3>1, OtherSessions, OtherLimits, SameLimits
    <3>2. CASE t = s
      <4>1. ASSUME NEW m \in Asks(s), Handle(s, m) PROVE LimitsOf(s)'
        BY <1>1, <2>1, <3>2, <4>1, HandlingKeepsLimits
      <4> QED
        BY <1>1, <2>1, <2>2, <3>2, <4>1, SessionKeepsLimits, WorkingKeepsLimits DEF SessionStep
    <3> QED BY <3>1, <3>2
  <2>3. ASSUME UNCHANGED <<limits, job>> PROVE LimitsOf(t)'
    BY <2>1, <2>3, SameLimits DEF limits
  <2>4. CASE Run \/ Listen \/ Shutdown \/ StopListening
    BY <2>3, <2>4 DEF Run, Listen, Shutdown, StopListening
  <2>5. ASSUME NEW e \in AppEvent, AppSave(e) \/ AppNotify(e) \/ notify_event(e)
        PROVE  LimitsOf(t)'
    BY <2>3, <2>5 DEF AppSave, AppNotify, notify_event
  <2>6. CASE UNCHANGED vars
    BY <2>3, <2>6 DEF vars, limits
  <2> QED BY <2>2, <2>4, <2>5, <2>6 DEF Next
<1> QED BY <1>2, <1>3 DEF LimitsInv, Few, Counted

\* What a session retains is finite, adds up to what the relay has counted, and
\* leaves room for the request it is answering (subscription_fits, handle_req).
THEOREM LimitsInvariant == Spec => []LimitsInv
<1>1. Init => LimitsInv
  <2> SUFFICES ASSUME Init PROVE LimitsInv
    OBVIOUS
  <2>1. IsFiniteSet(stored)
    BY FS_EmptySet DEF Init
  <2>2. Connected = {}
    BY DEF Init, Connected
  <2>3. Counted
    BY DEF Init, Counted
  <2>4. ASSUME NEW s \in Session PROVE LimitsOf(s)
    <3>1. /\ subscriptions[s] = NoMap /\ subscription_bytes[s] = 0 /\ negentropy[s] = NoMap
          /\ job[s].type = "none"
      BY DEF Init, NoJob
    <3>2. Sizes(s) = NoMap
      BY <3>1 DEF Sizes, NoMap
    <3> QED BY <3>1, <3>2, NothingCounts, LimitsAreNatural DEF LimitsOf
  <2> QED BY <2>1, <2>2, <2>3, <2>4, FS_EmptySet, LimitsAreNatural DEF LimitsInv, Counted
<1> QED BY <1>1, TypesCorrect, NextLimits, PTL DEF Spec

\* However requests are replaced, refused or closed, and whatever overflows, a
\* session and the relay keep to their limits and the byte count is the sum of
\* what is registered (subscription_fits, insert_subscription, NEG-OPEN).
THEOREM LimitsHold == Spec => []WithinLimits
<1>1. Typed /\ LimitsInv => WithinLimits
  BY DEF Typed, LimitsInv, LimitsOf, WithinLimits, Sizes, Connected
<1> QED BY <1>1, TypesCorrect, LimitsInvariant, PTL

-----------------------------------------------------------------------------
(* The tables of the SQLite store, that the relay may keep its events in   *)

\* An event that is found by the coordinate of another
Rival(i, j) ==
    /\ pubkey(i) = pubkey(j) /\ kind(i) = kind(j)
    /\ \/ is_replaceable(kind(j))
       \/ is_addressable(kind(j)) /\ \E d \in identifier(j) : d \in Event[i].tags["d"]
Fields(t) ==
    t = [events |-> t.events, event_tags |-> t.event_tags, deleted_ids |-> t.deleted_ids,
         deleted_coordinates |-> t.deleted_coordinates, vanished_public_keys |-> t.vanished_public_keys]
Tagged(S) == UNION {extract_tags(i) : i \in S}

\* What follows a deletion by coordinate, and what an event has to meet
Unmarked(i, rows) == \A row \in rows : row[1] = coordinate(i) /\ Found(i) => created_at(i) > row[2]
Timed(rows) == \A row \in rows : row[2] \in Nat
Apart(S) == \A i, j \in S : Rival(i, j) /\ Sole(j) => i = j
Sound(t) ==
    /\ Fields(t) /\ t.events \subseteq Id /\ IsFiniteSet(t.events) /\ t.deleted_ids \subseteq Id
    /\ t.vanished_public_keys \subseteq {pubkey(i) : i \in Id}
    /\ t.event_tags = Tagged(t.events) /\ Apart(t.events) /\ Timed(t.deleted_coordinates)
    /\ \A i \in t.events :
        /\ Unmarked(i, t.deleted_coordinates) /\ i \notin t.deleted_ids
        /\ pubkey(i) \in t.vanished_public_keys => kind(i) = RequestToVanish

LEMMA IdsAreTyped ==
    ASSUME NEW i \in Id
    PROVE  /\ i \in Nat /\ created_at(i) \in Nat /\ kind(i) \in Nat
           /\ \A c, d \in identifier(i) : c = d
           /\ identifier(i) \subseteq Event[i].tags["d"]
           /\ \A n \in {"d", "p"} : n \in DOMAIN Event[i].tags
           /\ \A n \in DOMAIN Event[i].tags : n \notin {"e", "a"}
<1>1. MaxTime \in Nat
  BY SMT DEF MaxTime
<1>2. Event[i].created_at \in 0 .. MaxTime /\ Event[i].kind \in Nat /\ i \in Nat
  BY EventAssumption
<1>3. (\A c, d \in identifier(i) : c = d) /\ identifier(i) \subseteq Event[i].tags["d"]
  BY EventAssumption DEF identifier
<1>4. {"d", "p"} \subseteq DOMAIN Event[i].tags /\ {"e", "a"} \cap DOMAIN Event[i].tags = {}
  BY FilterAssumption
<1> QED BY <1>1, <1>2, <1>3, <1>4 DEF created_at, kind

\* The rows of one event: those of e and a tags are named apart.
LEMMA RowsAre ==
    ASSUME NEW i, NEW row
    PROVE  row \in extract_tags(i) <=>
             \/ \E n \in DOMAIN Event[i].tags : \E v \in Event[i].tags[n] : row = <<i, n, v>>
             \/ \E j \in event_ids(i) : row = <<i, "e", j>>
             \/ \E c \in coordinates(i) : row = <<i, "a", c>>
<1> DEFINE OfName(n) == {<<i, n, v>> : v \in Event[i].tags[n]}
           OfNames == UNION {OfName(n) : n \in DOMAIN Event[i].tags}
           Ids == {<<i, "e", j>> : j \in event_ids(i)}
           Addresses == {<<i, "a", c>> : c \in coordinates(i)}
<1>1. extract_tags(i) = OfNames \cup Ids \cup Addresses
  BY DEF extract_tags
<1>2. row \in OfNames <=> \E n \in DOMAIN Event[i].tags : row \in OfName(n)
  <2> HIDE DEF OfName
  <2> QED OBVIOUS
<1>3. \A n : row \in OfName(n) <=> \E v \in Event[i].tags[n] : row = <<i, n, v>>
  OBVIOUS
<1>4. row \in Ids <=> \E j \in event_ids(i) : row = <<i, "e", j>>
  OBVIOUS
<1>5. row \in Addresses <=> \E c \in coordinates(i) : row = <<i, "a", c>>
  OBVIOUS
<1> HIDE DEF OfName, OfNames, Ids, Addresses
<1> QED BY <1>1, <1>2, <1>3, <1>4, <1>5

LEMMA RowsOf ==
    ASSUME NEW i, NEW j, NEW n, n \notin {"e", "a"}, NEW v
    PROVE  <<i, n, v>> \in extract_tags(j) <=> i = j /\ n \in DOMAIN Event[j].tags /\ v \in Event[j].tags[n]
<1>1. ASSUME <<i, n, v>> \in extract_tags(j)
      PROVE  i = j /\ n \in DOMAIN Event[j].tags /\ v \in Event[j].tags[n]
  <2>1. CASE \E m \in DOMAIN Event[j].tags : \E w \in Event[j].tags[m] : <<i, n, v>> = <<j, m, w>>
    BY <2>1
  <2>2. ASSUME NEW m, NEW w, <<i, n, v>> = <<j, m, w>> PROVE n = m
    BY <2>2
  <2> QED BY <1>1, <2>1, <2>2, RowsAre
<1>2. ASSUME i = j, n \in DOMAIN Event[j].tags, v \in Event[j].tags[n]
      PROVE  <<i, n, v>> \in extract_tags(j)
  BY <1>2, RowsAre
<1> QED BY <1>1, <1>2

LEMMA RowsAreOwn ==
    ASSUME NEW i, NEW row \in extract_tags(i)
    PROVE  row[1] = i
<1>1. CASE \E n \in DOMAIN Event[i].tags : \E v \in Event[i].tags[n] : row = <<i, n, v>>
  BY <1>1
<1>2. CASE \E j \in event_ids(i) : row = <<i, "e", j>>
  BY <1>2
<1>3. CASE \E c \in coordinates(i) : row = <<i, "a", c>>
  BY <1>3
<1> QED BY <1>1, <1>2, <1>3, RowsAre

LEMMA TagsAre ==
    ASSUME NEW S, NEW i, NEW n, n \notin {"e", "a"}, NEW v
    PROVE  <<i, n, v>> \in Tagged(S) <=> i \in S /\ n \in DOMAIN Event[i].tags /\ v \in Event[i].tags[n]
<1>1. <<i, n, v>> \in Tagged(S) <=> \E j \in S : <<i, n, v>> \in extract_tags(j)
  BY DEF Tagged
<1> QED BY <1>1, RowsOf

\* What a deletion leaves of the tags (the cascade), and what an insert adds
RowsWithout(rows, S) == {row \in rows : row[1] \notin S}
LEMMA TagsWithout ==
    ASSUME NEW S, NEW T
    PROVE  RowsWithout(Tagged(S), T) = Tagged(S \ T)
<1>1. \A U : \A row : row \in Tagged(U) <=> \E i \in U : row \in extract_tags(i)
  BY DEF Tagged
<1>2. ASSUME NEW row \in Tagged(S) PROVE row[1] \notin T <=> row \in Tagged(S \ T)
  <2>1. PICK i \in S : row \in extract_tags(i)
    BY <1>1
  <2>2. \A j \in S \ T : row \in extract_tags(j) => row[1] = j
    BY RowsAreOwn
  <2> QED BY <1>1, <2>1, <2>2, RowsAreOwn
<1>3. Tagged(S \ T) \subseteq Tagged(S)
  BY <1>1
<1> QED BY <1>2, <1>3 DEF RowsWithout

LEMMA TagsWith ==
    ASSUME NEW S, NEW i
    PROVE  Tagged(S) \cup extract_tags(i) = Tagged(S \cup {i})
<1>1. \A U : \A row : row \in Tagged(U) <=> \E j \in U : row \in extract_tags(j)
  BY DEF Tagged
<1> QED BY <1>1

LEMMA TaggedWith ==
    ASSUME NEW t, t.event_tags = Tagged(t.events), NEW n, n \notin {"e", "a"}, NEW v
    PROVE  HasTag(t, n, v) = {i \in t.events : n \in DOMAIN Event[i].tags /\ v \in Event[i].tags[n]}
<1>1. \A i : <<i, n, v>> \in Tagged(t.events) <=>
                 i \in t.events /\ n \in DOMAIN Event[i].tags /\ v \in Event[i].tags[n]
  BY TagsAre
<1> QED BY <1>1 DEF HasTag

\* Rivals are found by the tags table.
LEMMA RivalsAreVersions ==
    ASSUME NEW t, t.events \subseteq Id, t.event_tags = Tagged(t.events), NEW i \in Id
    PROVE  Versions(t, i) = {v \in t.events : Rival(v, i)}
<1>1. \A d : HasTag(t, "d", d) = {v \in t.events : d \in Event[v].tags["d"]}
  <2> TAKE d
  <2>1. HasTag(t, "d", d) = {v \in t.events : "d" \in DOMAIN Event[v].tags /\ d \in Event[v].tags["d"]}
    BY TaggedWith
  <2>2. \A v \in t.events : "d" \in DOMAIN Event[v].tags
    BY IdsAreTyped
  <2> QED BY <2>1, <2>2
<1> QED BY <1>1 DEF Versions, Rival

\* To be rivals of a sole coordinate is symmetric and transitive.
LEMMA RivalsOfSole ==
    ASSUME NEW i \in Id, NEW j \in Id, Rival(i, j), Sole(j)
    PROVE  /\ Sole(i) /\ Rival(j, i)
           /\ \A k \in Id : Rival(k, j) => Rival(k, i)
<1>1. pubkey(i) = pubkey(j) /\ kind(i) = kind(j) /\ kind(i) \in Nat
  BY IdsAreTyped DEF Rival
<1>2. CASE is_replaceable(kind(j))
  <2>1. ~is_addressable(kind(i))
    BY <1>1, <1>2 DEF is_replaceable, is_addressable
  <2> QED BY <1>1, <1>2, <2>1 DEF Rival, Sole
<1>3. CASE ~is_replaceable(kind(j))
  <2>1. is_addressable(kind(j)) /\ \E d \in identifier(j) : d \in Event[i].tags["d"]
    BY <1>3 DEF Rival
  <2>2. identifier(j) \subseteq Event[i].tags["d"] /\ identifier(j) \subseteq Event[j].tags["d"]
    BY <2>1, IdsAreTyped
  <2>3. identifier(i) = identifier(j)
    BY <1>1, <2>1, <2>2 DEF Sole
  <2> QED BY <1>1, <2>1, <2>2, <2>3 DEF Rival, Sole
<1> QED BY <1>2, <1>3

LEMMA SoundIsWhole ==
    ASSUME NEW t
    PROVE  Sound(t) <=> Whole(t)
<1>1. ASSUME t.events \subseteq Id, t.event_tags = Tagged(t.events)
      PROVE  Apart(t.events) <=> \A i, j \in t.events : i \in Versions(t, j) /\ Sole(j) => i = j
  <2>1. \A j \in t.events : Versions(t, j) = {v \in t.events : Rival(v, j)}
    BY <1>1, RivalsAreVersions
  <2> QED BY <2>1 DEF Apart
<1>2. Whole(t) <=>
        /\ Fields(t) /\ t.events \subseteq Id /\ IsFiniteSet(t.events) /\ t.deleted_ids \subseteq Id
        /\ t.vanished_public_keys \subseteq {pubkey(i) : i \in Id}
        /\ t.event_tags = Tagged(t.events)
        /\ \A i, j \in t.events : i \in Versions(t, j) /\ Sole(j) => i = j
        /\ \A row \in t.deleted_coordinates :
              /\ row[2] \in Nat
              /\ \A i \in t.events : row[1] = coordinate(i) /\ Found(i) => created_at(i) > row[2]
        /\ t.events \cap t.deleted_ids = {}
        /\ \A i \in t.events : pubkey(i) \in t.vanished_public_keys => kind(i) = RequestToVanish
  BY DEF Whole, Fields, Tagged
<1>3. (\A row \in t.deleted_coordinates :
              /\ row[2] \in Nat
              /\ \A i \in t.events : row[1] = coordinate(i) /\ Found(i) => created_at(i) > row[2])
      <=> Timed(t.deleted_coordinates) /\ \A i \in t.events : Unmarked(i, t.deleted_coordinates)
  BY DEF Timed, Unmarked
<1>4. t.events \cap t.deleted_ids = {} <=> \A i \in t.events : i \notin t.deleted_ids
  OBVIOUS
<1>5. ASSUME Sound(t) PROVE Whole(t)
  <2>1. \A i, j \in t.events : i \in Versions(t, j) /\ Sole(j) => i = j
    BY <1>1, <1>5 DEF Sound
  <2> QED BY <1>2, <1>3, <1>4, <1>5, <2>1 DEF Sound
<1>6. ASSUME Whole(t) PROVE Sound(t)
  <2>1. Apart(t.events)
    BY <1>1, <1>2, <1>6
  <2> QED BY <1>2, <1>3, <1>4, <1>6, <2>1 DEF Sound
<1> QED BY <1>5, <1>6
-----------------------------------------------------------------------------
(* The statements                                                          *)

LEMMA DeletingLeaves ==
    ASSUME NEW t, Fields(t), NEW S
    PROVE  /\ Fields(DeleteEvents(t, S)) /\ DeleteEvents(t, S).events = t.events \ S
           /\ DeleteEvents(t, S).event_tags = RowsWithout(t.event_tags, S)
           /\ DeleteEvents(t, S).deleted_ids = t.deleted_ids
           /\ DeleteEvents(t, S).deleted_coordinates = t.deleted_coordinates
           /\ DeleteEvents(t, S).vanished_public_keys = t.vanished_public_keys
<1> PICK u : u = DeleteEvents(t, S)
  OBVIOUS
<1>1. PICK a, b, c, d, e : t = [events |-> a, event_tags |-> b, deleted_ids |-> c,
                                deleted_coordinates |-> d, vanished_public_keys |-> e]
  BY DEF Fields
<1>2. u = [events |-> a \ S, event_tags |-> RowsWithout(b, S), deleted_ids |-> c,
           deleted_coordinates |-> d, vanished_public_keys |-> e]
  BY <1>1 DEF DeleteEvents, RowsWithout
<1>3. Fields(u) /\ u.events = t.events \ S /\ u.event_tags = RowsWithout(t.event_tags, S)
  BY <1>1, <1>2 DEF Fields
<1>4. /\ u.deleted_ids = t.deleted_ids /\ u.deleted_coordinates = t.deleted_coordinates
      /\ u.vanished_public_keys = t.vanished_public_keys
  BY <1>1, <1>2
<1> QED BY <1>3, <1>4

\* What deletes events keeps the tables.
LEMMA DeletingIsSound ==
    ASSUME NEW t, Sound(t), NEW S
    PROVE  Sound(DeleteEvents(t, S))
<1> PICK u : u = DeleteEvents(t, S)
  OBVIOUS
<1>1. /\ Fields(u) /\ u.events = t.events \ S
      /\ u.event_tags = RowsWithout(t.event_tags, S)
      /\ u.deleted_ids = t.deleted_ids
      /\ u.deleted_coordinates = t.deleted_coordinates
      /\ u.vanished_public_keys = t.vanished_public_keys
  <2>1. Fields(t)
    BY DEF Sound
  <2> QED BY <2>1, DeletingLeaves
<1>2. u.event_tags = Tagged(u.events)
  BY <1>1, TagsWithout DEF Sound
<1>3. IsFiniteSet(u.events)
  BY <1>1, FS_Subset DEF Sound
<1>4. Apart(u.events)
  BY <1>1 DEF Sound, Apart
<1> QED BY <1>1, <1>2, <1>3, <1>4 DEF Sound

\* An event that the tables have a place for
Fits(t, i) ==
    /\ i \notin t.deleted_ids /\ Unmarked(i, t.deleted_coordinates)
    /\ Sole(i) => \A v \in t.events : ~Rival(v, i)
    /\ pubkey(i) \in t.vanished_public_keys => kind(i) = RequestToVanish

LEMMA InsertingIsSound ==
    ASSUME NEW t, Sound(t), NEW i \in Id, Fits(t, i), NEW u,
           u = [t EXCEPT !.events = @ \cup {i}, !.event_tags = @ \cup extract_tags(i)]
    PROVE  Sound(u)
<1>1. /\ Fields(u) /\ u.events = t.events \cup {i} /\ u.event_tags = t.event_tags \cup extract_tags(i)
      /\ u.deleted_ids = t.deleted_ids /\ u.deleted_coordinates = t.deleted_coordinates
      /\ u.vanished_public_keys = t.vanished_public_keys
  BY DEF Sound, Fields
<1>2. u.event_tags = Tagged(u.events)
  BY <1>1, TagsWith DEF Sound
<1>3. IsFiniteSet(u.events)
  BY <1>1, FS_AddElement DEF Sound
<1>4. Apart(u.events)
  <2>1. ASSUME NEW v \in t.events PROVE ~(Rival(v, i) /\ Sole(i)) /\ ~(Rival(i, v) /\ Sole(v))
    BY RivalsOfSole DEF Sound, Fits
  <2> QED BY <1>1, <2>1 DEF Sound, Apart
<1> QED BY <1>1, <1>2, <1>3, <1>4 DEF Sound, Fits

\* The row of a coordinate that has none yet; the deleted IDs; the public keys
LEMMA MarkingLeaves ==
    ASSUME NEW t, Fields(t), NEW C, NEW time, NEW u, u = mark_coordinates_deleted(t, C, time)
    PROVE  /\ Fields(u) /\ u.events = t.events /\ u.event_tags = t.event_tags
           /\ u.deleted_ids = t.deleted_ids /\ u.vanished_public_keys = t.vanished_public_keys
           /\ t.deleted_coordinates \subseteq u.deleted_coordinates
           /\ \A row \in u.deleted_coordinates \ t.deleted_coordinates :
                 row[1] \in C /\ row[2] = time /\ time > 0
<1>1. PICK a, b, c, d, e : t = [events |-> a, event_tags |-> b, deleted_ids |-> c,
                                deleted_coordinates |-> d, vanished_public_keys |-> e]
  BY DEF Fields
<1>2. PICK new : new = IF time > 0 THEN {<<x, time>> : x \in C \ {row[1] : row \in t.deleted_coordinates}} ELSE {}
  OBVIOUS
<1>3. u = [t EXCEPT !.deleted_coordinates = @ \cup new]
  BY <1>2 DEF mark_coordinates_deleted
<1>4. u = [events |-> a, event_tags |-> b, deleted_ids |-> c,
           deleted_coordinates |-> d \cup new, vanished_public_keys |-> e]
  BY <1>1, <1>3
<1>5. \A row \in new : row[1] \in C /\ row[2] = time /\ time > 0
  BY <1>2
<1>6. Fields(u) /\ u.events = t.events /\ u.event_tags = t.event_tags
      /\ u.deleted_ids = t.deleted_ids /\ u.vanished_public_keys = t.vanished_public_keys
  BY <1>1, <1>4 DEF Fields
<1>7. u.deleted_coordinates = t.deleted_coordinates \cup new
  BY <1>1, <1>4
<1> QED BY <1>5, <1>6, <1>7

LEMMA ForgettingLeaves ==
    ASSUME NEW t, Fields(t), NEW S, NEW u, u = [t EXCEPT !.deleted_ids = @ \cup S]
    PROVE  /\ Fields(u) /\ u.events = t.events /\ u.event_tags = t.event_tags
           /\ u.deleted_ids = t.deleted_ids \cup S /\ u.deleted_coordinates = t.deleted_coordinates
           /\ u.vanished_public_keys = t.vanished_public_keys
<1>1. PICK a, b, c, d, e : t = [events |-> a, event_tags |-> b, deleted_ids |-> c,
                                deleted_coordinates |-> d, vanished_public_keys |-> e]
  BY DEF Fields
<1>2. u = [events |-> a, event_tags |-> b, deleted_ids |-> c \cup S,
           deleted_coordinates |-> d, vanished_public_keys |-> e]
  BY <1>1
<1> QED BY <1>1, <1>2 DEF Fields

LEMMA VanishingLeaves ==
    ASSUME NEW t, Fields(t), NEW a, NEW u, u = [t EXCEPT !.vanished_public_keys = @ \cup {a}]
    PROVE  /\ Fields(u) /\ u.events = t.events /\ u.event_tags = t.event_tags
           /\ u.deleted_ids = t.deleted_ids /\ u.deleted_coordinates = t.deleted_coordinates
           /\ u.vanished_public_keys = t.vanished_public_keys \cup {a}
<1>1. PICK v, b, c, d, e : t = [events |-> v, event_tags |-> b, deleted_ids |-> c,
                                deleted_coordinates |-> d, vanished_public_keys |-> e]
  BY DEF Fields
<1>2. u = [events |-> v, event_tags |-> b, deleted_ids |-> c,
           deleted_coordinates |-> d, vanished_public_keys |-> e \cup {a}]
  BY <1>1
<1> QED BY <1>1, <1>2 DEF Fields

\* What a deletion finds under a coordinate is what its row tells of.
LEMMA UnderAre ==
    ASSUME NEW t, t.events \subseteq Id, t.event_tags = Tagged(t.events),
           NEW j \in t.events, Found(j), NEW time \in Int, created_at(j) <= time
    PROVE  j \in UnderCoordinate(t, coordinate(j), time)
<1>1. coordinate(j).kind = kind(j) /\ coordinate(j).pubkey = pubkey(j)
      /\ (identifier(j) # {} => coordinate(j).identifier \in identifier(j))
  BY DEF coordinate
<1>2. ASSUME identifier(j) # {} PROVE j \in HasTag(t, "d", coordinate(j).identifier)
  <2>1. "d" \in DOMAIN Event[j].tags /\ identifier(j) \subseteq Event[j].tags["d"]
    BY IdsAreTyped
  <2> QED BY <1>1, <1>2, <2>1, TaggedWith
<1> QED BY <1>1, <1>2 DEF UnderCoordinate, Found

\* handle_deletion_event: the events named by ID, then those under coordinates
Named(i) == event_ids(i) \cap db.events
DeletionLeaves(i, u) ==
    /\ Sound(u) /\ u.events \subseteq db.events
    /\ u.deleted_ids = db.deleted_ids \cup Named(i) /\ u.vanished_public_keys = db.vanished_public_keys
    /\ \A j \in db.events \ u.events :
          j \in Named(i) \/ \E c \in coordinates(i) : c.pubkey = pubkey(j)

LEMMA DeletionIsSound ==
    ASSUME Sound(db), NEW i \in Id
    PROVE  DeletionLeaves(i, Deleted(db, i))
<1> DEFINE time == as_i64(created_at(i))
           C == coordinates(i)
<1>1. PICK a : a = [db EXCEPT !.deleted_ids = @ \cup Named(i)]
  OBVIOUS
<1>2. /\ Fields(a) /\ a.events = db.events /\ a.event_tags = db.event_tags
      /\ a.deleted_ids = db.deleted_ids \cup Named(i) /\ a.deleted_coordinates = db.deleted_coordinates
      /\ a.vanished_public_keys = db.vanished_public_keys
  BY <1>1, ForgettingLeaves DEF Sound
<1>3. PICK b : b = DeleteEvents(a, Named(i))
  OBVIOUS
<1>4. /\ Fields(b) /\ b.events = a.events \ Named(i) /\ b.event_tags = RowsWithout(a.event_tags, Named(i))
      /\ b.deleted_ids = a.deleted_ids /\ b.deleted_coordinates = a.deleted_coordinates
      /\ b.vanished_public_keys = a.vanished_public_keys
  BY <1>2, <1>3, DeletingLeaves
<1>5. Sound(b)
  <2>1. b.event_tags = Tagged(b.events)
    BY <1>2, <1>4, TagsWithout DEF Sound
  <2>2. IsFiniteSet(b.events) /\ b.events \subseteq db.events
    BY <1>2, <1>4, FS_Subset DEF Sound
  <2>3. Apart(b.events)
    BY <2>2 DEF Sound, Apart
  <2>4. b.deleted_ids \subseteq Id /\ \A j \in b.events : j \notin b.deleted_ids
    BY <1>2, <1>4 DEF Sound, Named
  <2> QED BY <1>2, <1>4, <2>1, <2>2, <2>3, <2>4 DEF Sound
<1>6. PICK m : m = mark_coordinates_deleted(b, C, time)
  OBVIOUS
<1>7. /\ Fields(m) /\ m.events = b.events /\ m.event_tags = b.event_tags
      /\ m.deleted_ids = b.deleted_ids /\ m.vanished_public_keys = b.vanished_public_keys
      /\ b.deleted_coordinates \subseteq m.deleted_coordinates
      /\ \A row \in m.deleted_coordinates \ b.deleted_coordinates : row[1] \in C /\ row[2] = time /\ time > 0
  <2>1. Fields(b)
    BY <1>4
  <2> HIDE DEF C, time
  <2> QED BY <1>6, <2>1, MarkingLeaves
<1>8. PICK S : S = UNION {UnderCoordinate(m, c, time) : c \in C}
  OBVIOUS
<1>9. PICK u : u = DeleteEvents(m, S)
  OBVIOUS
<1>10. u = Deleted(db, i)
  BY <1>1, <1>3, <1>6, <1>8, <1>9 DEF Deleted, Named
<1>11. /\ Fields(u) /\ u.events = m.events \ S /\ u.event_tags = RowsWithout(m.event_tags, S)
       /\ u.deleted_ids = m.deleted_ids /\ u.deleted_coordinates = m.deleted_coordinates
       /\ u.vanished_public_keys = m.vanished_public_keys
  BY <1>7, <1>9, DeletingLeaves
<1>12. time \in Int
  <2>1. created_at(i) \in Nat
    BY IdsAreTyped
  <2> QED BY <2>1 DEF as_i64, MaxTime
<1>13. Sound(u)
  <2>1. u.event_tags = Tagged(u.events)
    BY <1>5, <1>7, <1>11, TagsWithout DEF Sound
  <2>2. IsFiniteSet(u.events) /\ u.events \subseteq b.events
    BY <1>5, <1>7, <1>11, FS_Subset DEF Sound
  <2>3. Apart(u.events)
    BY <1>5, <2>2 DEF Sound, Apart
  <2>4. Timed(u.deleted_coordinates)
    BY <1>5, <1>7, <1>11, <1>12 DEF Sound, Timed
  <2>5. ASSUME NEW j \in u.events PROVE Unmarked(j, u.deleted_coordinates)
    <3>1. SUFFICES ASSUME NEW row \in u.deleted_coordinates, row[1] = coordinate(j), Found(j)
                   PROVE  created_at(j) > row[2]
      BY DEF Unmarked
    <3>2. j \in b.events /\ j \in m.events /\ j \notin S /\ j \in Id /\ created_at(j) \in Nat
      <4>1. j \in b.events /\ j \in m.events /\ j \notin S
        BY <1>7, <1>11
      <4>2. j \in Id
        BY <1>5, <4>1 DEF Sound
      <4> QED BY <4>1, <4>2, IdsAreTyped
    <3>3. CASE row \in b.deleted_coordinates
      BY <1>5, <3>1, <3>2, <3>3 DEF Sound, Unmarked
    <3>4. CASE row \notin b.deleted_coordinates
      <4>1. row[1] \in C /\ row[2] = time
        BY <1>7, <1>11, <3>4
      <4>2. j \notin UnderCoordinate(m, coordinate(j), time)
        BY <1>8, <3>1, <3>2, <4>1
      <4>3. m.events \subseteq Id /\ m.event_tags = Tagged(m.events)
        BY <1>5, <1>7 DEF Sound
      <4>4. ~(created_at(j) <= time)
        BY <1>12, <3>1, <3>2, <4>2, <4>3, UnderAre
      <4> QED BY <1>12, <3>2, <4>1, <4>4
    <3> QED BY <3>3, <3>4
  <2>6. \A j \in u.events : j \notin u.deleted_ids
                            /\ (pubkey(j) \in u.vanished_public_keys => kind(j) = RequestToVanish)
    BY <1>5, <1>7, <1>11, <2>2 DEF Sound
  <2>7. u.events \subseteq Id /\ u.deleted_ids \subseteq Id /\ u.vanished_public_keys \subseteq {pubkey(j) : j \in Id}
    BY <1>5, <1>7, <1>11, <2>2 DEF Sound
  <2> QED BY <1>11, <2>1, <2>2, <2>3, <2>4, <2>5, <2>6, <2>7 DEF Sound
<1>14. ASSUME NEW j \in db.events \ u.events
       PROVE  j \in Named(i) \/ \E c \in coordinates(i) : c.pubkey = pubkey(j)
  <2>1. CASE j \in S
    BY <1>8, <2>1 DEF UnderCoordinate
  <2>2. CASE j \notin S
    BY <1>2, <1>4, <1>7, <1>11, <2>2
  <2> QED BY <2>1, <2>2
<1>15. /\ u.events \subseteq db.events /\ u.deleted_ids = db.deleted_ids \cup Named(i)
       /\ u.vanished_public_keys = db.vanished_public_keys
  BY <1>2, <1>4, <1>7, <1>11
<1> HIDE DEF C, time
<1> QED BY <1>10, <1>13, <1>14, <1>15 DEF DeletionLeaves
-----------------------------------------------------------------------------
(* save_event_sync                                                         *)

\* What an event that is not refused has passed
LEMMA AcceptedAre ==
    ASSUME Sound(db), NEW i \in Id, Refusal(i) = "None"
    PROVE  /\ i \notin db.events /\ i \notin db.deleted_ids /\ pubkey(i) \notin db.vanished_public_keys
           /\ Unmarked(i, db.deleted_coordinates)
<1>1. /\ i \notin db.events /\ i \notin db.deleted_ids /\ pubkey(i) \notin db.vanished_public_keys
      /\ ~(HasCoordinate(i) /\ \E row \in db.deleted_coordinates :
              row[1] = coordinate(i) /\ created_at(i) <= row[2])
  BY DEF Refusal
<1>2. ASSUME NEW row \in db.deleted_coordinates, row[1] = coordinate(i), Found(i) PROVE created_at(i) > row[2]
  <2>1. HasCoordinate(i)
    BY <1>2 DEF Found, HasCoordinate
  <2>2. row[2] \in Nat /\ created_at(i) \in Nat
    BY IdsAreTyped DEF Sound, Timed
  <2> QED BY <1>1, <1>2, <2>1, <2>2
<1> QED BY <1>1, <1>2 DEF Unmarked

\* Deletions and requests to vanish have no coordinate, and so no rivals.
LEMMA NoCoordinate ==
    ASSUME NEW i \in Id, kind(i) \in {EventDeletion, RequestToVanish}
    PROVE  ~Found(i) /\ \A v : ~Rival(v, i)
BY DEF Found, Rival, is_replaceable, is_addressable, EventDeletion, RequestToVanish

LEMMA InsertKeeps ==
    ASSUME Sound(db), NEW i \in Id, NEW t, Sound(t), Fits(t, i), Insert(t, i)
    PROVE  Sound(db')
<1>1. CASE as_i64(created_at(i)) > 0
  <2>1. db' = [t EXCEPT !.events = @ \cup {i}, !.event_tags = @ \cup extract_tags(i)]
    BY <1>1 DEF Insert
  <2> QED BY <2>1, InsertingIsSound
<1>2. CASE ~(as_i64(created_at(i)) > 0)
  BY <1>2 DEF Insert
<1> QED BY <1>1, <1>2

LEMMA InsertAdds ==
    ASSUME NEW i, NEW t, Fields(t), Insert(t, i)
    PROVE  db' = db \/ (i \in db'.events /\ t.events \subseteq db'.events)
<1>1. CASE as_i64(created_at(i)) > 0
  <2>1. db' = [t EXCEPT !.events = @ \cup {i}, !.event_tags = @ \cup extract_tags(i)]
    BY <1>1 DEF Insert
  <2>2. db'.events = t.events \cup {i}
    BY <2>1 DEF Fields
  <2> QED BY <2>2
<1>2. CASE ~(as_i64(created_at(i)) > 0)
  BY <1>2 DEF Insert
<1> QED BY <1>1, <1>2

\* The tables before the insert, and whose events have gone by then
Prepared(i, t) ==
    /\ Sound(t) /\ Fits(t, i) /\ Insert(t, i)
    /\ \A j \in db.events \ t.events :
          \/ pubkey(j) = pubkey(i)
          \/ kind(i) = RequestToVanish /\ kind(j) = GiftWrap /\ pubkey(i) \in Event[j].tags["p"]

LEMMA FirstIsPrepared ==
    ASSUME Sound(db), NEW i \in Id, SaveFirst(i)
    PROVE  Prepared(i, db)
<1>1. Versions(db, i) = {v \in db.events : Rival(v, i)}
  BY RivalsAreVersions DEF Sound
<1> QED BY <1>1, AcceptedAre DEF SaveFirst, Fits, Prepared

LEMMA VersionIsPrepared ==
    ASSUME Sound(db), NEW i \in Id, SaveVersion(i)
    PROVE  UNCHANGED db \/ \E t : Prepared(i, t)
<1>1. PICK v \in Versions(db, i) : UNCHANGED db \/ Insert(DeleteEvents(db, {v}), i)
  BY DEF SaveVersion
<1>2. CASE Insert(DeleteEvents(db, {v}), i)
  <2>1. PICK t : t = DeleteEvents(db, {v})
    OBVIOUS
  <2>2. Sound(t)
    BY <2>1, DeletingIsSound
  <2>3. /\ t.events = db.events \ {v} /\ t.deleted_ids = db.deleted_ids
        /\ t.deleted_coordinates = db.deleted_coordinates
        /\ t.vanished_public_keys = db.vanished_public_keys
    <3>1. Fields(db)
      BY DEF Sound
    <3> QED BY <2>1, <3>1, DeletingLeaves
  <2>4. Versions(db, i) = {w \in db.events : Rival(w, i)}
    BY RivalsAreVersions DEF Sound
  <2>5. v \in Id /\ v \in db.events /\ Rival(v, i) /\ pubkey(v) = pubkey(i)
    BY <1>1, <2>4 DEF Sound, Rival
  <2>6. ASSUME Sole(i), NEW w \in t.events PROVE ~Rival(w, i)
    <3>1. w \in db.events /\ w # v /\ w \in Id
      BY <2>3 DEF Sound
    <3>2. Sole(v) /\ (Rival(w, i) => Rival(w, v))
      BY <2>5, <2>6, <3>1, RivalsOfSole
    <3> QED BY <2>5, <3>1, <3>2 DEF Sound, Apart
  <2>7. Refusal(i) = "None"
    BY DEF SaveVersion
  <2>8. Fits(t, i)
    BY <2>3, <2>6, <2>7, AcceptedAre DEF Fits
  <2>9. Prepared(i, t)
    BY <1>2, <2>1, <2>2, <2>3, <2>5, <2>8 DEF Prepared
  <2> QED BY <2>9
<1> QED BY <1>1, <1>2

LEMMA DeletionIsPrepared ==
    ASSUME Sound(db), NEW i \in Id, SaveDeletion(i)
    PROVE  UNCHANGED db \/ \E t : Prepared(i, t)
<1>1. Refusal(i) = "None" /\ kind(i) = EventDeletion
      /\ (UNCHANGED db \/ (~IsInvalid(i) /\ Insert(Deleted(db, i), i)))
  BY DEF SaveDeletion
<1>2. CASE ~IsInvalid(i) /\ Insert(Deleted(db, i), i)
  <2>1. PICK t : t = Deleted(db, i)
    OBVIOUS
  <2>2. DeletionLeaves(i, t)
    BY <2>1, DeletionIsSound
  <2>3. ~Found(i) /\ \A v : ~Rival(v, i)
    BY <1>1, NoCoordinate
  <2>4. /\ i \notin db.events /\ i \notin db.deleted_ids /\ pubkey(i) \notin db.vanished_public_keys
    BY <1>1, AcceptedAre
  <2>5. Fits(t, i)
    BY <2>2, <2>3, <2>4 DEF Fits, DeletionLeaves, Named, Unmarked
  <2>6. ASSUME NEW j \in db.events \ t.events PROVE pubkey(j) = pubkey(i)
    <3>1. j \in Named(i) \/ \E c \in coordinates(i) : c.pubkey = pubkey(j)
      BY <2>2 DEF DeletionLeaves
    <3> QED BY <1>2, <3>1 DEF IsInvalid, Named
  <2>7. Prepared(i, t)
    BY <1>2, <2>1, <2>2, <2>5, <2>6 DEF Prepared, DeletionLeaves
  <2> QED BY <2>7
<1> QED BY <1>1, <1>2

LEMMA VanishIsPrepared ==
    ASSUME Sound(db), NEW i \in Id, SaveVanish(i)
    PROVE  \E t : Prepared(i, t)
<1>1. PICK own : own = {j \in db.events : pubkey(j) = pubkey(i)}
  OBVIOUS
<1>2. PICK wraps : wraps = {j \in HasTag(db, "p", pubkey(i)) : kind(j) = GiftWrap}
  OBVIOUS
<1>3. PICK a : a = [db EXCEPT !.vanished_public_keys = @ \cup {pubkey(i)}]
  OBVIOUS
<1>4. PICK t : t = DeleteEvents(a, own \cup wraps)
  OBVIOUS
<1>5. Refusal(i) = "None" /\ kind(i) = RequestToVanish /\ Insert(t, i)
  BY <1>1, <1>2, <1>3, <1>4 DEF SaveVanish
<1>6. /\ Fields(a) /\ a.events = db.events /\ a.event_tags = db.event_tags
      /\ a.deleted_ids = db.deleted_ids /\ a.deleted_coordinates = db.deleted_coordinates
      /\ a.vanished_public_keys = db.vanished_public_keys \cup {pubkey(i)}
  BY <1>3, VanishingLeaves DEF Sound
<1>7. /\ Fields(t) /\ t.events = db.events \ (own \cup wraps)
      /\ t.event_tags = RowsWithout(db.event_tags, own \cup wraps)
      /\ t.deleted_ids = db.deleted_ids /\ t.deleted_coordinates = db.deleted_coordinates
      /\ t.vanished_public_keys = db.vanished_public_keys \cup {pubkey(i)}
  BY <1>4, <1>6, DeletingLeaves
<1>8. Sound(t)
  <2>1. t.event_tags = Tagged(t.events)
    BY <1>7, TagsWithout DEF Sound
  <2>2. IsFiniteSet(t.events) /\ t.events \subseteq db.events
    BY <1>7, FS_Subset DEF Sound
  <2>3. Apart(t.events)
    BY <2>2 DEF Sound, Apart
  <2>4. \A j \in t.events : pubkey(j) \in t.vanished_public_keys => kind(j) = RequestToVanish
    BY <1>1, <1>7 DEF Sound
  <2> QED BY <1>7, <2>1, <2>2, <2>3, <2>4 DEF Sound
<1>9. Fits(t, i)
  <2>1. ~Found(i) /\ \A v : ~Rival(v, i)
    BY <1>5, NoCoordinate
  <2>2. i \notin db.deleted_ids
    BY <1>5, AcceptedAre
  <2> QED BY <1>5, <1>7, <2>1, <2>2 DEF Fits, Unmarked
<1>10. ASSUME NEW j \in db.events \ t.events, pubkey(j) # pubkey(i)
       PROVE  kind(j) = GiftWrap /\ pubkey(i) \in Event[j].tags["p"]
  <2>1. j \in wraps
    BY <1>1, <1>7, <1>10
  <2>2. HasTag(db, "p", pubkey(i)) =
          {k \in db.events : "p" \in DOMAIN Event[k].tags /\ pubkey(i) \in Event[k].tags["p"]}
    BY TaggedWith DEF Sound
  <2> QED BY <1>2, <2>1, <2>2
<1>11. Prepared(i, t)
  BY <1>5, <1>8, <1>9, <1>10 DEF Prepared
<1> QED BY <1>11

\* Every save leaves the tables alone or inserts into tables prepared for it.
LEMMA SavesArePrepared ==
    ASSUME Sound(db), NEW i \in Id, save_event_sync(i)
    PROVE  UNCHANGED db \/ (Refusal(i) = "None" /\ \E t : Prepared(i, t))
<1>1. CASE Refuse(i)
  BY <1>1 DEF Refuse
<1>2. CASE SaveFirst(i)
  BY <1>2, FirstIsPrepared DEF SaveFirst
<1>3. CASE SaveVersion(i)
  BY <1>3, VersionIsPrepared DEF SaveVersion
<1>4. CASE SaveDeletion(i)
  BY <1>4, DeletionIsPrepared DEF SaveDeletion
<1>5. CASE SaveVanish(i)
  BY <1>5, VanishIsPrepared DEF SaveVanish
<1> QED BY <1>1, <1>2, <1>3, <1>4, <1>5 DEF save_event_sync

LEMMA SaveKeeps ==
    ASSUME Sound(db), NEW i \in Id, save_event_sync(i)
    PROVE  Sound(db')
<1>1. CASE UNCHANGED db
  BY <1>1
<1>2. CASE \E t : Prepared(i, t)
  BY <1>2, InsertKeeps DEF Prepared
<1> QED BY <1>1, <1>2, SavesArePrepared

\* The statements of a wipe, one by one
LEMMA WipeKeeps ==
    ASSUME Sound(db), Wipe
    PROVE  Sound(db')
<1>1. CASE wiping = 0
  <2>1. db' = DeleteEvents(db, db.events)
    BY <1>1 DEF Wipe
  <2> QED BY <2>1, DeletingIsSound
<1>2. PICK a, b, c, d, e : db = [events |-> a, event_tags |-> b, deleted_ids |-> c,
                                 deleted_coordinates |-> d, vanished_public_keys |-> e]
  BY DEF Sound, Fields
<1>3. CASE wiping = 1
  <2>1. db' = [db EXCEPT !.deleted_ids = {}]
    BY <1>3 DEF Wipe
  <2>2. db' = [events |-> a, event_tags |-> b, deleted_ids |-> {},
               deleted_coordinates |-> d, vanished_public_keys |-> e]
    BY <1>2, <2>1
  <2>3. Fields(db')
    BY <2>2 DEF Fields
  <2>4. /\ db'.events = db.events /\ db'.event_tags = db.event_tags /\ db'.deleted_ids = {}
        /\ db'.deleted_coordinates = db.deleted_coordinates
        /\ db'.vanished_public_keys = db.vanished_public_keys
    BY <1>2, <2>2
  <2> QED BY <2>3, <2>4 DEF Sound
<1>4. CASE wiping = 2
  <2>1. db' = [db EXCEPT !.deleted_coordinates = {}]
    BY <1>4 DEF Wipe
  <2>2. db' = [events |-> a, event_tags |-> b, deleted_ids |-> c,
               deleted_coordinates |-> {}, vanished_public_keys |-> e]
    BY <1>2, <2>1
  <2>3. Fields(db')
    BY <2>2 DEF Fields
  <2>4. /\ db'.events = db.events /\ db'.event_tags = db.event_tags /\ db'.deleted_ids = db.deleted_ids
        /\ db'.deleted_coordinates = {}
        /\ db'.vanished_public_keys = db.vanished_public_keys
    BY <1>2, <2>2
  <2> QED BY <2>3, <2>4 DEF Sound, Timed, Unmarked
<1>5. CASE wiping \notin {0, 1, 2}
  BY <1>5 DEF Wipe
<1> QED BY <1>1, <1>3, <1>4, <1>5
-----------------------------------------------------------------------------
(* Queries                                                                 *)

\* Newest first, and by ID: a strict total order.
LEMMA BeforeIsTotal ==
    ASSUME NEW i \in Id, NEW j \in Id
    PROVE  /\ ~Before(i, i) /\ (i # j => Before(i, j) \/ Before(j, i))
           /\ \A k \in Id : Before(i, j) /\ Before(j, k) => Before(i, k)
<1>1. \A k \in Id : k \in Nat /\ created_at(k) \in Nat
  BY IdsAreTyped
<1>2. ~Before(i, i) /\ (i # j => Before(i, j) \/ Before(j, i))
  BY <1>1 DEF Before
<1>3. ASSUME NEW k \in Id, Before(i, j), Before(j, k) PROVE Before(i, k)
  <2>1. /\ i \in Nat /\ j \in Nat /\ k \in Nat
        /\ created_at(i) \in Nat /\ created_at(j) \in Nat /\ created_at(k) \in Nat
    BY <1>1
  <2> QED BY <1>3, <2>1 DEF Before
<1> QED BY <1>2, <1>3

\* The events that come before one of them
Ahead(S, i) == {j \in S : Before(j, i)}

LEMMA AheadCounts ==
    ASSUME NEW S \in SUBSET Id, IsFiniteSet(S), NEW i \in S
    PROVE  Cardinality(Ahead(S, i)) \in Nat
<1>1. Ahead(S, i) \in SUBSET S
  BY DEF Ahead
<1> QED BY <1>1, FS_Subset, FS_CardinalityType

LEMMA AheadIncreases ==
    ASSUME NEW S \in SUBSET Id, IsFiniteSet(S), NEW i \in S, NEW j \in S, Before(j, i)
    PROVE  Cardinality(Ahead(S, j)) < Cardinality(Ahead(S, i))
<1>1. Ahead(S, j) \in SUBSET Ahead(S, i) /\ j \in Ahead(S, i) /\ j \notin Ahead(S, j)
  BY BeforeIsTotal DEF Ahead
<1>2. IsFiniteSet(Ahead(S, i))
  <2>1. Ahead(S, i) \in SUBSET S
    BY DEF Ahead
  <2> QED BY <2>1, FS_Subset
<1>3. /\ Cardinality(Ahead(S, j)) <= Cardinality(Ahead(S, i))
      /\ Cardinality(Ahead(S, i)) = Cardinality(Ahead(S, j)) => Ahead(S, i) = Ahead(S, j)
  BY <1>1, <1>2, FS_Subset
<1>4. Cardinality(Ahead(S, i)) \in Nat /\ Cardinality(Ahead(S, j)) \in Nat
  BY AheadCounts
<1> QED BY <1>1, <1>3, <1>4

LEMMA FirstAreAhead ==
    ASSUME NEW S, NEW n
    PROVE  NewestN(S, n) = {i \in S : Cardinality(Ahead(S, i)) < n}
BY DEF NewestN, FirstN, Ahead

\* At most n of them are the first n: each has a rank of its own.
LEMMA FirstAreFew ==
    ASSUME NEW S \in SUBSET Id, IsFiniteSet(S), NEW n \in Nat
    PROVE  /\ NewestN(S, n) \in SUBSET S /\ IsFiniteSet(NewestN(S, n))
           /\ Cardinality(NewestN(S, n)) \in Nat
           /\ Cardinality(NewestN(S, n)) <= n
<1> DEFINE F == NewestN(S, n)
           rank == [i \in F |-> Cardinality(Ahead(S, i)) + 1]
<1>1. F = {i \in S : Cardinality(Ahead(S, i)) < n}
  BY FirstAreAhead
<1> HIDE DEF F
<1>2. \A i \in F : Cardinality(Ahead(S, i)) \in Nat
  BY <1>1, AheadCounts
<1>3. rank \in [F -> 1 .. n]
  BY <1>1, <1>2
<1>4. ASSUME NEW i \in F, NEW j \in F, rank[i] = rank[j] PROVE i = j
  <2>1. Cardinality(Ahead(S, i)) = Cardinality(Ahead(S, j))
    BY <1>2, <1>4
  <2>2. CASE Before(i, j)
    BY <1>1, <1>2, <2>1, <2>2, AheadIncreases
  <2>3. CASE Before(j, i)
    BY <1>1, <1>2, <2>1, <2>3, AheadIncreases
  <2> QED BY <1>1, <2>2, <2>3, BeforeIsTotal
<1> HIDE DEF rank
<1>5. rank \in Injection(F, 1 .. n)
  BY <1>3, <1>4 DEF Injection, IsInjective
<1>6. IsFiniteSet(1 .. n) /\ Cardinality(1 .. n) = n
  BY FS_Interval
<1>7. IsFiniteSet(F) /\ Cardinality(F) <= n
  BY <1>5, <1>6, FS_Injection
<1>8. F \in SUBSET S /\ Cardinality(F) \in Nat
  BY <1>1, <1>7, FS_CardinalityType
<1> QED
  <2>1. F = NewestN(S, n)
    BY DEF F
  <2> QED BY <1>7, <1>8, <2>1

\* Among finitely many events one comes first, and one comes last.
LEMMA OneIsFirst ==
    ASSUME NEW S \in SUBSET Id, IsFiniteSet(S), S # {}
    PROVE  \E i \in S : \A j \in S : j = i \/ Before(i, j)
<1> DEFINE T == {Cardinality(Ahead(S, i)) : i \in S}
<1>1. \A i \in S : Cardinality(Ahead(S, i)) \in Nat
  BY AheadCounts
<1>2. T \in SUBSET Nat /\ T # {}
  BY <1>1
<1>3. PICK n \in T : \A m \in T : n <= m
  <2> HIDE DEF T
  <2> QED BY <1>2, LeastOfNaturals
<1>4. PICK i \in S : n = Cardinality(Ahead(S, i))
  OBVIOUS
<1>5. ASSUME NEW j \in S, Before(j, i) PROVE FALSE
  <2>1. Cardinality(Ahead(S, j)) < n
    BY <1>4, <1>5, AheadIncreases
  <2>2. Cardinality(Ahead(S, j)) \in Nat /\ n \in Nat /\ n <= Cardinality(Ahead(S, j))
    BY <1>1, <1>3, <1>4
  <2> QED BY <2>1, <2>2
<1> QED BY <1>5, BeforeIsTotal

\* Whoever is not among the newest n has n of them before it.
LEMMA NewestAreAhead ==
    ASSUME NEW S \in SUBSET Id, IsFiniteSet(S), NEW n \in Nat, NEW i \in S, i \notin NewestN(S, n),
           NEW R, R = {j \in NewestN(S, n) : Before(j, i)}
    PROVE  IsFiniteSet(R) /\ Cardinality(R) \in Nat /\ Cardinality(R) >= n
<1>1. R \in SUBSET S /\ R \in SUBSET Ahead(S, i)
  BY FirstAreAhead DEF Ahead
<1>2. IsFiniteSet(R) /\ Cardinality(R) \in Nat
  BY <1>1, FS_Subset, FS_CardinalityType
<1>3. Cardinality(Ahead(S, i)) \in Nat /\ Cardinality(Ahead(S, i)) >= n
  BY AheadCounts, FirstAreAhead
<1>4. ASSUME Cardinality(R) < n PROVE FALSE
  <2> PICK rest : rest = Ahead(S, i) \ R
    OBVIOUS
  <2>1. rest # {}
    <3>1. R # Ahead(S, i)
      BY <1>2, <1>3, <1>4
    <3> QED BY <1>1, <3>1
  <2>2. rest \in SUBSET S /\ rest \in SUBSET Id /\ IsFiniteSet(rest)
    <3>1. rest \in SUBSET S
      BY DEF Ahead
    <3> QED BY <3>1, FS_Subset
  <2>3. PICK k \in rest : \A j \in rest : j = k \/ Before(k, j)
    BY <2>1, <2>2, OneIsFirst
  <2>4. Ahead(S, k) \in SUBSET R
    <3>1. ASSUME NEW j \in Ahead(S, k) PROVE j \in Ahead(S, i)
      <4>1. j \in Id /\ k \in Id /\ i \in Id /\ Before(j, k) /\ Before(k, i)
        BY <2>2 DEF Ahead
      <4>2. Before(j, i)
        BY <4>1, BeforeIsTotal
      <4> QED BY <4>2 DEF Ahead
    <3>2. ASSUME NEW j \in Ahead(S, k), j \in rest PROVE FALSE
      <4>1. j \in Id /\ k \in Id /\ Before(j, k)
        BY <2>2 DEF Ahead
      <4>2. j = k \/ Before(k, j)
        BY <2>3, <3>2
      <4> QED BY <4>1, <4>2, BeforeIsTotal
    <3> QED BY <3>1, <3>2
  <2>5. Cardinality(Ahead(S, k)) <= Cardinality(R)
    BY <1>2, <2>4, FS_Subset
  <2>6. k \in S /\ Cardinality(Ahead(S, k)) \in Nat
    BY <2>2, AheadCounts
  <2>7. k \in NewestN(S, n)
    BY <1>2, <1>4, <2>5, <2>6, FirstAreAhead
  <2>8. Before(k, i) /\ k \notin R
    BY DEF Ahead
  <2> QED BY <2>7, <2>8
<1> QED BY <1>2, <1>4

\* The newest n are n events, or all when there are fewer.
LEMMA NewestAreEnough ==
    ASSUME NEW S \in SUBSET Id, IsFiniteSet(S), NEW n \in Nat
    PROVE  /\ Cardinality(S) <= n => NewestN(S, n) = S
           /\ ~(Cardinality(S) <= n) => Cardinality(NewestN(S, n)) = n
<1> PICK F : F = NewestN(S, n)
  OBVIOUS
<1>1. F \in SUBSET S /\ IsFiniteSet(F) /\ Cardinality(F) \in Nat /\ Cardinality(F) <= n
  BY FirstAreFew
<1>2. /\ Cardinality(S) \in Nat /\ Cardinality(F) <= Cardinality(S)
      /\ Cardinality(S) = Cardinality(F) => S = F
  BY <1>1, FS_CardinalityType, FS_Subset
<1>3. ASSUME F # S PROVE Cardinality(F) >= n
  <2>1. PICK i \in S : i \notin F
    BY <1>1, <1>3
  <2> PICK R : R = {j \in F : Before(j, i)}
    OBVIOUS
  <2>2. Cardinality(R) \in Nat /\ Cardinality(R) >= n
    BY <2>1, NewestAreAhead
  <2>3. Cardinality(R) <= Cardinality(F)
    BY <1>1, FS_Subset
  <2> QED BY <1>1, <2>2, <2>3
<1> QED BY <1>1, <1>2, <1>3

\* The times of a plain filter are what its columns are compared with.
LEMMA ColumnsAre ==
    ASSUME NEW f \in QueryFilter, Plain(f)
    PROVE  \A i : match_event(f, i) <=> match_event(Columns(f), i) /\ tag_match(f, i)
<1>1. PICK a, b, c, d, e, g, h : f = [ids |-> a, authors |-> b, kinds |-> c, tags |-> d,
                                      since |-> e, until |-> g, limit |-> h]
  BY FilterAssumption
<1>2. as_i64(f.since) = f.since /\ (f.until # NoUntil => as_i64(f.until) = f.until)
  BY DEF Plain, as_i64
<1>3. PICK since, until : /\ since = as_i64(f.since)
                          /\ until = IF f.until = NoUntil THEN NoUntil ELSE as_i64(f.until)
  OBVIOUS
<1>4. PICK o : o = Columns(f)
  OBVIOUS
<1>5. o = [f EXCEPT !.tags = AnyFilter.tags, !.since = since, !.until = until]
  BY <1>1, <1>3, <1>4 DEF Columns
<1>6. /\ o.ids = f.ids /\ o.authors = f.authors /\ o.kinds = f.kinds
      /\ o.since = f.since /\ o.until = f.until /\ o.tags = AnyFilter.tags
  BY <1>1, <1>2, <1>3, <1>5
<1>7. DOMAIN o.tags = {}
  BY <1>6 DEF AnyFilter
<1>8. \A i : tag_match(o, i)
  BY <1>7 DEF tag_match
<1> HIDE DEF tag_match
<1> QED BY <1>4, <1>6, <1>8 DEF match_event

\* The tags table tells which events have the tags of a plain filter: a row
\* that the join asks for is there when there is one with a value.
LEMMA MatchingIsRight ==
    ASSUME Sound(db), NEW f \in QueryFilter, Plain(f)
    PROVE  Matching(f) = {i \in db.events : match_event(f, i)}
<1> DEFINE Has(i) == \A n \in DOMAIN f.tags : \E v \in f.tags[n] : i \in HasTag(db, n, v)
           Joined(i) == DOMAIN f.tags # {} => \E row \in db.event_tags : row[1] = i
<1>1. ASSUME NEW i \in db.events PROVE tag_match(f, i) <=> Has(i)
  <2>1. ASSUME NEW n \in DOMAIN f.tags, NEW v PROVE i \in HasTag(db, n, v) <=> v \in Event[i].tags[n]
    <3>1. i \in Id
      BY DEF Sound
    <3>2. n \in DOMAIN Event[i].tags /\ n \notin {"e", "a"}
      BY <3>1, FilterAssumption
    <3>3. HasTag(db, n, v) = {j \in db.events : n \in DOMAIN Event[j].tags /\ v \in Event[j].tags[n]}
      BY <3>2, TaggedWith DEF Sound
    <3> QED BY <3>2, <3>3
  <2> QED BY <2>1 DEF tag_match
<1>2. ASSUME NEW i, Has(i) PROVE Joined(i)
  <2>1. ASSUME NEW n \in DOMAIN f.tags PROVE \E row \in db.event_tags : row[1] = i
    <3>1. PICK v \in f.tags[n] : i \in HasTag(db, n, v)
      BY <1>2
    <3>2. <<i, n, v>> \in db.event_tags /\ <<i, n, v>>[1] = i
      BY <3>1 DEF HasTag
    <3> QED BY <3>2
  <2> QED BY <2>1
<1>3. \A n \in DOMAIN f.tags : f.tags[n] # {}
  BY DEF Plain
<1>4. Matching(f) = {i \in db.events : match_event(Columns(f), i) /\ Joined(i) /\ Has(i)}
  BY <1>3 DEF Matching
<1>5. \A i : match_event(f, i) <=> match_event(Columns(f), i) /\ tag_match(f, i)
  BY ColumnsAre
<1> HIDE DEF Has, Joined
<1> QED BY <1>1, <1>2, <1>4, <1>5

LEMMA AnswersAreRight ==
    ASSUME Sound(db), NEW f \in QueryFilter, Plain(f)
    PROVE  AnswersRight(f)
<1>1. PICK M : M = {i \in db.events : match_event(f, i)}
  OBVIOUS
<1>2. Matching(f) = M
  BY <1>1, MatchingIsRight
<1>3. M \in SUBSET Id /\ IsFiniteSet(M)
  <2>1. M \in SUBSET db.events
    BY <1>1
  <2> QED BY <2>1, FS_Subset DEF Sound
<1>4. PICK n : n = with_limit(f)
  OBVIOUS
<1>5. n \in Nat
  BY <1>4, FilterAssumption, OptionsAssumption DEF with_limit
<1>6. \A m \in count(f) : m = Cardinality(M)
  BY <1>2 DEF count
<1>7. ASSUME NEW S \in query(f)
      PROVE  /\ S \subseteq M /\ Cardinality(S) = Cardinality(NewestN(M, n))
             /\ \A i \in S, j \in M \ S : created_at(i) >= created_at(j)
  <2>1. CASE Cardinality(M) <= n
    <3>1. S = M
      BY <1>2, <1>4, <2>1 DEF query
    <3>2. NewestN(M, n) = M
      BY <1>3, <1>5, <2>1, NewestAreEnough
    <3> QED BY <3>1, <3>2
  <2>2. CASE ~(Cardinality(M) <= n)
    <3>1. /\ S \in SUBSET M /\ Cardinality(S) = n
          /\ \A i \in S, j \in M \ S : created_at(i) >= created_at(j)
      BY <1>2, <1>4, <2>2 DEF query
    <3>2. Cardinality(NewestN(M, n)) = n
      BY <1>3, <1>5, <2>2, NewestAreEnough
    <3> QED BY <3>1, <3>2
  <2> QED BY <2>1, <2>2
<1> QED BY <1>1, <1>4, <1>6, <1>7 DEF AnswersRight
-----------------------------------------------------------------------------
(* The theorems                                                            *)

TablesInv == SqliteTypeOK /\ Sound(db)

LEMMA TablesStart == SqliteInit => TablesInv
<1> SUFFICES ASSUME SqliteInit PROVE TablesInv
  OBVIOUS
<1>1. PICK file \in File : version = file.version /\ db = file.tables
  BY DEF SqliteInit
<1>2. Sound(db) /\ version \in 0 .. DB_VERSION
  BY <1>1, FileAssumption, SoundIsWhole
<1>3. opened \in BOOLEAN
  BY DEF SqliteInit
<1>4. wiping \in 0 .. 3
  BY DEF SqliteInit
<1> QED BY <1>2, <1>3, <1>4 DEF SqliteTypeOK, TablesInv

LEMMA TablesStep == TablesInv /\ [SqliteNext]_sqliteVars => TablesInv'
<1> SUFFICES ASSUME TablesInv, [SqliteNext]_sqliteVars PROVE TablesInv'
  OBVIOUS
<1>1. SqliteTypeOK'
  <2>1. /\ version' = version \/ version' = DB_VERSION
        /\ opened' = opened \/ opened' \in {TRUE, FALSE}
        /\ wiping' = wiping \/ wiping' = 0 \/ wiping' = (wiping + 1) % 4
    BY DEF SqliteNext, sqliteVars, OpenFile, Stop, Wipe, save_event_sync, Delete
  <2>2. version' \in 0 .. DB_VERSION
    BY <2>1 DEF TablesInv, SqliteTypeOK, DB_VERSION
  <2>3. opened' \in BOOLEAN
    BY <2>1 DEF TablesInv, SqliteTypeOK
  <2>4. wiping' \in 0 .. 3
    BY <2>1 DEF TablesInv, SqliteTypeOK
  <2> QED BY <2>2, <2>3, <2>4 DEF SqliteTypeOK
<1>2. Sound(db')
  <2>1. CASE OpenFile \/ Stop \/ UNCHANGED sqliteVars
    BY <2>1 DEF TablesInv, OpenFile, Stop, sqliteVars
  <2>2. CASE Wipe
    BY <2>2, WipeKeeps DEF TablesInv
  <2>3. ASSUME NEW i \in Id, save_event_sync(i) PROVE Sound(db')
    BY <2>3, SaveKeeps DEF TablesInv
  <2>4. ASSUME NEW f \in DeleteFilter, Delete(f) PROVE Sound(db')
    <3>1. db' = DeleteEvents(db, Matching(f))
      BY <2>4 DEF Delete
    <3> QED BY <3>1, DeletingIsSound DEF TablesInv
  <2> QED BY <2>1, <2>2, <2>3, <2>4 DEF SqliteNext
<1> QED BY <1>1, <1>2 DEF TablesInv

(* TablesInv is inductive: what every statement of nostr-sqlite's store.rs    *)
(* relies on of the five tables, and keeps.                                   *)
THEOREM TablesInvariant == SqliteSpec => []TablesInv
BY TablesStart, TablesStep, PTL DEF SqliteSpec

(* The five tables of the SQLite store go together after every order of saves,*)
(* deletions, requests to vanish and wipes that stop halfway, with one version*)
(* of each coordinate that is the identifier of no other event by a further   *)
(* "d" tag; its queries and counts by plain filters, which read the tags from *)
(* a table of their own, answer as if they looked at the events, up to their  *)
(* limit or EVENTS_QUERY_LIMIT (save_event_sync, query, count, check_id).     *)
THEOREM TablesGoTogether == SqliteSpec => []TablesAgree
<1>1. TablesInv => TablesAgree
  <2> SUFFICES ASSUME TablesInv PROVE TablesAgree
    OBVIOUS
  <2>1. Whole(db)
    BY SoundIsWhole DEF TablesInv
  <2>2. \A i \in Id : check_id(i) = "Saved" <=> i \in db.events
    BY DEF TablesInv, Sound, check_id
  <2>3. \A f \in QueryFilter : Plain(f) => AnswersRight(f)
    BY AnswersAreRight DEF TablesInv
  <2> QED BY <2>1, <2>2, <2>3 DEF TablesInv, TablesAgree
<1> QED BY <1>1, TablesInvariant, PTL

(* A save that is refused changes nothing, and one that is accepted takes out *)
(* nothing of another author but the gift wraps of who vanishes (the rollback *)
(* of save_event_sync, handle_deletion_event, handle_request_to_vanish).      *)
THEOREM OnlyOwnAreTaken == SqliteSpec => OnlyOwnDeletes
<1>1. ASSUME TablesInv, NEW i \in Id, save_event_sync(i)
      PROVE  /\ i \notin db'.events \/ i \in db.events => UNCHANGED db
             /\ \A j \in db.events \ db'.events :
                   \/ pubkey(j) = pubkey(i)
                   \/ kind(i) = RequestToVanish /\ kind(j) = GiftWrap /\ pubkey(i) \in Event[j].tags["p"]
  <2>1. CASE UNCHANGED db
    BY <2>1
  <2>2. CASE Refusal(i) = "None" /\ \E t : Prepared(i, t)
    <3>1. PICK t : Prepared(i, t)
      BY <2>2
    <3>2. db' = db \/ (i \in db'.events /\ t.events \subseteq db'.events)
      <4>1. Fields(t) /\ Insert(t, i)
        BY <3>1 DEF Prepared, Sound
      <4> QED BY <4>1, InsertAdds
    <3>3. i \notin db.events
      BY <1>1, <2>2, AcceptedAre DEF TablesInv
    <3> QED BY <3>1, <3>2, <3>3 DEF Prepared
  <2>3. UNCHANGED db \/ (Refusal(i) = "None" /\ \E t : Prepared(i, t))
    BY <1>1, SavesArePrepared DEF TablesInv
  <2> QED BY <2>1, <2>2, <2>3
<1>2. TablesInv => [\A i \in Id : save_event_sync(i) =>
        /\ i \notin db'.events \/ i \in db.events => UNCHANGED db
        /\ \A j \in db.events \ db'.events :
              \/ pubkey(j) = pubkey(i)
              \/ kind(i) = RequestToVanish /\ kind(j) = GiftWrap /\ pubkey(i) \in Event[j].tags["p"]]_sqliteVars
  BY <1>1
<1> QED BY <1>2, TablesInvariant, PTL DEF OnlyOwnDeletes
=============================================================================
