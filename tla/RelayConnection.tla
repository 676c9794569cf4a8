-------------------------- MODULE RelayConnection ---------------------------
(***************************************************************************)
(* The connection of one relay (nostr-sdk/src/relay/inner.rs): the state   *)
(* under the connection mutex (status and current attempt), the attempts   *)
(* callers share, the connection task that dials and runs the WebSocket    *)
(* session, and the callers that connect, wait, disconnect, ban, shut down *)
(* and subscribe concurrently with it.                                     *)
(*                                                                         *)
(* One action is one critical section of the connection mutex, or one step *)
(* of the connection task between two awaits.  Attempts are Arcs compared  *)
(* by pointer: an attempt may be allocated again only when nothing refers  *)
(* to it.  Time is nondeterministic: a timeout or an interval may elapse   *)
(* whenever the code waits for it.                                         *)
(***************************************************************************)
CONSTANTS
    Callers,        \* tasks using the relay through its public methods
    Subscribers,    \* those of them that register subscriptions
    Attempts,       \* connection attempts (Arc<ConnectionAttempt>)
    NoAttempt,      \* Option::None for an attempt
    Reconnect,      \* RelayOptions::reconnect
    SleepWhenIdle   \* RelayOptions::sleep_when_idle is Enabled

ASSUME NoAttemptAssumption == NoAttempt \notin Attempts
ASSUME SubscribersAssumption == Subscribers \subseteq Callers
ASSUME OptionsAssumption   == Reconnect \in BOOLEAN /\ SleepWhenIdle \in BOOLEAN

VARIABLES
    \* ConnectionState, under the connection mutex
    status, attempt,
    \* the kind of the current attempt, and the OnceLock result of every attempt
    kind, result,
    \* the permit stored in the Notify connection_changed
    permit,
    \* the connection task: where it is, the attempt it works on, whether the
    \* connection_changed future it awaits has examined the current state, and
    \* whether its JoinHandle was aborted
    pc, mine, checked, aborted,
    \* the second half of stop_connection: the handle still has to be aborted
    aborting,
    \* the callers: where each one is, the kind of connection it requested,
    \* the attempt it waits for, and whether result_ready has notified it
    caller, goal, joined, woken,
    \* the sleep monitor's inputs: who has a subscription, recent activity
    subscribed, active

state == <<status, attempt, kind, result>>
task  == <<pc, mine, checked>>
stop  == <<aborted, aborting>>
users == <<caller, goal, joined, woken>>
idle  == <<subscribed, active>>
vars  == <<status, attempt, kind, result, permit, pc, mine, checked, aborted,
           aborting, caller, goal, joined, woken, subscribed, active>>

Status == {"Initialized", "Connecting", "Connected", "Disconnected",
           "Idle", "Banned", "Sleeping", "Shutdown"}

\* mutant: is_terminal forgets Banned
Terminal_ShutdownOnly == {"Shutdown"}

\* RelayStatus::is_terminal
Terminal == {"Banned", "Shutdown"}

\* Places of the connection task.
TaskPCs == {"none",         \* not spawned: connection_task_handle is unset
            "next",         \* in next_connection
            "retry",        \* status was Disconnected: waits the retry interval
            "begin",        \* about to run connect_and_run
            "policy",       \* check_connection_policy is awaited
            "dial",         \* the transport is connecting
            "dialed",       \* the dial returned a WebSocket
            "failed",       \* the dial returned an error or timed out
            "rejected",     \* the admission policy rejected the connection
            "restoring",    \* post_connection: resubscribe is awaited
            "running",      \* post_connection: sender, receiver, pinger, ...
            "sleepy",       \* the sleep monitor saw should_sleep() = true
            "closing",      \* close_ws is awaited
            "ended"}

CallerPCs == {"ready",      \* not inside a method of the relay
              "spawn",      \* left the mutex of request_connection
              "register",   \* wait_for_result: about to create Notified
              "examine",    \* wait_for_result: about to read the result
              "await",      \* wait_for_result: awaits Notified
              "operate",    \* subscription registered, before ensure_operational
              "wake",       \* ensure_operational read Sleeping
              "undo"}       \* refused: about to remove the subscription again

Kinds == {"Background", "WaitForResult"}

\* The task holds an open WebSocket.
WithSocket == {"dialed", "restoring", "running", "sleepy", "closing"}

\* The task awaits connection_changed(mine) next to something else.
Racing == {"retry", "policy", "dial", "restoring", "running"}

\* The task owns an attempt exactly while it is inside an iteration.
TaskShape ==
    /\ mine = NoAttempt <=> pc \in {"none", "next", "ended"}
    /\ checked => pc \in Racing \union {"next"}

\* A caller owns an attempt exactly while it is inside try_connect.
CallersShape ==
    \A c \in Callers :
        joined[c] # NoAttempt <=>
           \/ caller[c] = "spawn" /\ goal[c] = "WaitForResult"
           \/ caller[c] \in {"register", "examine", "await"}

TypeOK ==
    /\ status \in Status
    /\ attempt \in Attempts \union {NoAttempt}
    /\ kind \in Kinds
    /\ result \in [Attempts -> {"pending", "ok", "err"}]
    /\ permit \in BOOLEAN
    /\ pc \in TaskPCs
    /\ mine \in Attempts \union {NoAttempt}
    /\ checked \in BOOLEAN /\ aborted \in BOOLEAN /\ aborting \in BOOLEAN
    /\ caller \in [Callers -> CallerPCs]
    /\ goal \in [Callers -> Kinds]
    /\ joined \in [Callers -> Attempts \union {NoAttempt}]
    /\ woken \in [Callers -> BOOLEAN]
    /\ subscribed \subseteq Subscribers /\ active \in BOOLEAN
    /\ TaskShape /\ CallersShape

Init ==
    /\ status = "Initialized" /\ attempt = NoAttempt
    /\ kind = "Background"
    /\ result = [a \in Attempts |-> "pending"]
    /\ permit = FALSE
    /\ pc = "none" /\ mine = NoAttempt /\ checked = FALSE
    /\ aborted = FALSE /\ aborting = FALSE
    /\ caller = [c \in Callers |-> "ready"]
    /\ goal = [c \in Callers |-> "Background"]
    /\ joined = [c \in Callers |-> NoAttempt]
    /\ woken = [c \in Callers |-> FALSE]
    /\ subscribed = {} /\ active = FALSE

-----------------------------------------------------------------------------
(* Attempts                                                                *)

\* Somebody holds an Arc to the attempt.
Held(a) == a = attempt \/ a = mine \/ \E c \in Callers : joined[c] = a

\* Arc::new(ConnectionAttempt::new(k)), stored as the current attempt.  Like
\* the new one, attempts nobody holds any more have no result to remember.
NewAttempt(k, res) ==
    \E a \in Attempts :
        /\ ~Held(a)
        /\ attempt' = a
        /\ kind' = k
        /\ result' = [b \in Attempts |-> IF Held(b) THEN res[b] ELSE "pending"]

\* ConnectionAttempt::finish stores the first result only ...
Finished(a, outcome) ==
    IF a # NoAttempt /\ result[a] = "pending"
    THEN [result EXCEPT ![a] = outcome]
    ELSE result

\* mutant: finish stores the result and notifies nobody
NotifyWaiters_Nobody(a) == UNCHANGED woken

\* ... and then notifies the callers whose Notified already exists.
NotifyWaiters(a) ==
    woken' = [c \in Callers |->
                IF /\ a # NoAttempt /\ joined[c] = a
                   /\ result[a] = "pending"
                   /\ caller[c] \in {"examine", "await"}
                THEN TRUE ELSE woken[c]]

IsCurrent == mine # NoAttempt /\ mine = attempt

\* request_connection, under the mutex: the attempt in progress is joined, or
\* a new one is created and the connection task notified.
RequestConnection(c, k) ==
    /\ status \notin Terminal \union {"Connected"}
    /\ IF attempt # NoAttempt
       THEN UNCHANGED <<state, permit>>
       ELSE /\ NewAttempt(k, result)
            /\ status' = "Connecting"
            /\ permit' = TRUE
    /\ caller' = [caller EXCEPT ![c] = "spawn"]
    /\ goal' = [goal EXCEPT ![c] = k]

-----------------------------------------------------------------------------
(* Callers                                                                 *)

\* Relay::connect.  On a connected, banned or shut down relay it does nothing.
Connect(c) ==
    /\ caller[c] = "ready"
    /\ RequestConnection(c, "Background")
    /\ UNCHANGED <<task, stop, joined, woken, idle>>

\* Relay::try_connect up to the end of the critical section.
TryConnect(c) ==
    /\ caller[c] = "ready"
    /\ RequestConnection(c, "WaitForResult")
    /\ joined' = [joined EXCEPT ![c] = attempt']
    /\ UNCHANGED <<task, stop, woken, idle>>

\* connection_task_handle.get_or_init, then the re-check of the status: a ban
\* or shutdown may have run before the handle was published.
SpawnTask(c) ==
    /\ caller[c] = "spawn"
    /\ pc' = IF pc = "none" THEN "next" ELSE pc
    /\ aborted' = (aborted \/ status \in Terminal)
    /\ caller' = [caller EXCEPT ![c] =
                    IF goal[c] = "WaitForResult" THEN "register" ELSE "ready"]
    /\ goal' = [goal EXCEPT ![c] = "Background"]
    /\ UNCHANGED <<state, permit, mine, checked, aborting, joined, woken, idle>>

\* wait_for_result: result_ready.notified() is created first,
RegisterWait(c) ==
    /\ caller[c] = "register"
    /\ caller' = [caller EXCEPT ![c] = "examine"]
    /\ woken' = [woken EXCEPT ![c] = FALSE]
    /\ UNCHANGED <<state, permit, task, stop, goal, joined, idle>>

\* then the result is read,
ExamineResult(c) ==
    /\ caller[c] = "examine"
    /\ IF result[joined[c]] = "pending"
       THEN caller' = [caller EXCEPT ![c] = "await"] /\ UNCHANGED <<joined, woken>>
       ELSE /\ caller' = [caller EXCEPT ![c] = "ready"]
            /\ joined' = [joined EXCEPT ![c] = NoAttempt]
            /\ woken' = [woken EXCEPT ![c] = FALSE]
    /\ UNCHANGED <<state, permit, task, stop, goal, idle>>

\* and only then the notification is awaited.
AwaitResult(c) ==
    /\ caller[c] = "await"
    /\ woken[c]
    /\ caller' = [caller EXCEPT ![c] = "register"]
    /\ woken' = [woken EXCEPT ![c] = FALSE]
    /\ UNCHANGED <<state, permit, task, stop, goal, joined, idle>>

\* The timeout of try_connect elapses, or the caller drops the future.
GiveUp(c) ==
    /\ caller[c] \in {"register", "examine", "await"}
    /\ caller' = [caller EXCEPT ![c] = "ready"]
    /\ joined' = [joined EXCEPT ![c] = NoAttempt]
    /\ woken' = [woken EXCEPT ![c] = FALSE]
    /\ UNCHANGED <<state, permit, task, stop, goal, idle>>

\* subscribe: the subscription is registered under the subscriptions lock,
AddSubscription(c) ==
    /\ c \in Subscribers \ subscribed /\ caller[c] = "ready"
    /\ subscribed' = subscribed \union {c}
    /\ caller' = [caller EXCEPT ![c] = "operate"]
    /\ UNCHANGED <<state, permit, task, stop, goal, joined, woken, active>>

\* then send_msg calls ensure_operational.  The status is read outside any
\* critical section the caller keeps; success rate or latency may refuse it.
EnsureOperational(c) ==
    /\ caller[c] = "operate"
    /\ active' = (active \/ (SleepWhenIdle /\ status \notin {"Initialized", "Banned"}))
    /\ \E refused \in BOOLEAN :
         caller' = [caller EXCEPT ![c] =
                      IF status = "Sleeping" THEN "wake"
                      ELSE IF refused \/ status \in {"Initialized", "Banned"} THEN "undo"
                      ELSE "ready"]
    /\ UNCHANGED <<state, permit, task, stop, goal, joined, woken, subscribed>>

\* ensure_operational read Sleeping: request_connect in the background.
WakeUp(c) ==
    /\ caller[c] = "wake"
    /\ \/ RequestConnection(c, "Background")
       \/ /\ status \in Terminal \union {"Connected"}
          /\ caller' = [caller EXCEPT ![c] = "ready"]
          /\ UNCHANGED <<state, permit, goal>>
    /\ UNCHANGED <<task, stop, joined, woken, idle>>

\* unsubscribe, a CLOSED of the relay, or the end of a refused subscribe.
RemoveSubscription(c) ==
    /\ c \in subscribed /\ caller[c] \in {"ready", "undo"}
    /\ subscribed' = subscribed \ {c}
    /\ caller' = [caller EXCEPT ![c] = "ready"]
    /\ UNCHANGED <<state, permit, task, stop, goal, joined, woken, active>>

\* No operation for the whole idle timeout.
IdleElapses ==
    /\ active
    /\ active' = FALSE
    /\ UNCHANGED <<state, permit, task, stop, users, subscribed>>

\* mutant: the attempt is taken but not finished
StopConnection_NoFinish(s) ==
    /\ status \notin Terminal /\ status # s
    /\ attempt' = NoAttempt
    /\ status' = s
    /\ permit' = TRUE
    /\ aborting' = (s \in Terminal)
    /\ UNCHANGED <<kind, result, woken, task, aborted, caller, goal, joined, idle>>

\* mutant: the connection task is not notified
StopConnection_NoNotify(s) ==
    /\ status \notin Terminal /\ status # s
    /\ result' = Finished(attempt, "err")
    /\ NotifyWaiters(attempt)
    /\ attempt' = NoAttempt
    /\ status' = s
    /\ aborting' = (s \in Terminal)
    /\ UNCHANGED <<kind, permit, task, aborted, caller, goal, joined, idle>>

\* disconnect, ban and shutdown: stop_connection under the mutex.
StopConnection(s) ==
    /\ status \notin Terminal /\ status # s
    /\ result' = Finished(attempt, "err")
    /\ NotifyWaiters(attempt)
    /\ attempt' = NoAttempt
    /\ status' = s
    /\ permit' = TRUE
    /\ aborting' = (s \in Terminal)
    /\ UNCHANGED <<kind, task, aborted, caller, goal, joined, idle>>

\* The end of stop_connection, outside the mutex.
AbortHandle ==
    /\ aborting
    /\ aborting' = FALSE
    /\ aborted' = (aborted \/ pc # "none")
    /\ UNCHANGED <<state, permit, task, users, idle>>

CallerStep(c) ==
    \/ Connect(c) \/ TryConnect(c) \/ SpawnTask(c) \/ RegisterWait(c)
    \/ ExamineResult(c) \/ AwaitResult(c) \/ GiveUp(c)
    \/ AddSubscription(c) \/ EnsureOperational(c) \/ WakeUp(c)
    \/ RemoveSubscription(c)

-----------------------------------------------------------------------------
(* The connection task                                                     *)

\* The task moves on to p; every await of connection_changed starts unchecked.
Goto(p) == pc' = p /\ checked' = FALSE /\ UNCHANGED mine

\* The iteration of connection_task ends and drops its Arc of the attempt.
Leave(p) == pc' = p /\ checked' = FALSE /\ mine' = NoAttempt

\* mutant: next_connection returns None when there is no attempt yet
NextConnection_NoWait ==
    /\ pc = "next" /\ ~checked
    /\ \/ /\ status \in Terminal \/ attempt = NoAttempt
          /\ Leave("ended")
       \/ /\ status \notin Terminal /\ attempt # NoAttempt
          /\ mine' = attempt
          /\ pc' = (IF status = "Disconnected" THEN "retry" ELSE "begin")
          /\ UNCHANGED checked
    /\ UNCHANGED <<state, permit, stop, users, idle>>

\* next_connection examines the state under the mutex.
NextConnection ==
    /\ pc = "next" /\ ~checked
    /\ \/ /\ status \in Terminal
          /\ Leave("ended")
       \/ /\ status \notin Terminal /\ attempt # NoAttempt
          /\ mine' = attempt
          /\ pc' = (IF status = "Disconnected" THEN "retry" ELSE "begin")
          /\ UNCHANGED checked
       \/ /\ status \notin Terminal /\ attempt = NoAttempt
          /\ checked' = TRUE /\ UNCHANGED <<pc, mine>>
    /\ UNCHANGED <<state, permit, stop, users, idle>>

\* A stored permit completes the Notified of next_connection or of
\* connection_changed: the loop goes back to examine the state.
Notified ==
    /\ pc \in Racing \union {"next"}
    /\ checked /\ permit
    /\ permit' = FALSE
    /\ checked' = FALSE
    /\ UNCHANGED <<state, pc, mine, stop, users, idle>>

\* connection_changed examines the state: still current, so it awaits.
StillCurrent ==
    /\ pc \in Racing /\ ~checked
    /\ IsCurrent
    /\ checked' = TRUE
    /\ UNCHANGED <<state, permit, pc, mine, stop, users, idle>>

\* connection_changed returns: the retry, the dial or the session is dropped.
Superseded ==
    /\ pc \in Racing /\ ~checked
    /\ ~IsCurrent
    /\ IF pc \in {"restoring", "running"} THEN Goto("closing") ELSE Leave("next")
    /\ UNCHANGED <<state, permit, stop, users, idle>>

\* The retry interval elapsed.
RetryElapsed ==
    /\ pc = "retry" /\ checked
    /\ Goto("begin")
    /\ UNCHANGED <<state, permit, stop, users, idle>>

\* mutant: begin_connection does not look whether the attempt is current
BeginConnection_Unchecked ==
    /\ pc = "begin"
    /\ status' = "Connecting" /\ Goto("policy")
    /\ UNCHANGED <<attempt, kind, result, permit, stop, users, idle>>

BeginConnection ==
    /\ pc = "begin"
    /\ IF IsCurrent
       THEN status' = "Connecting" /\ Goto("policy")
       ELSE UNCHANGED status /\ Leave("next")
    /\ UNCHANGED <<attempt, kind, result, permit, stop, users, idle>>

\* The admission policy answers; begin_dial checks the attempt once more and
\* counts it (a superseded attempt fails here).
CheckPolicy(answer) ==
    /\ pc = "policy" /\ checked
    /\ \/ answer = "Rejected" /\ Goto("rejected")
       \/ answer = "Error" /\ Goto("failed")
       \/ /\ answer = "Success"
          /\ IF IsCurrent
             THEN pc' = "dial" /\ UNCHANGED <<checked, mine>>
             ELSE Goto("failed")
    /\ UNCHANGED <<state, permit, stop, users, idle>>

DialSucceeds ==
    /\ pc = "dial" /\ checked
    /\ Goto("dialed")
    /\ UNCHANGED <<state, permit, stop, users, idle>>

\* The transport fails, or the connect timeout (the deadline of the caller for
\* WaitForResult) elapses while the policy or the transport is awaited.
DialFails ==
    /\ pc \in {"policy", "dial"} /\ checked
    /\ Goto("failed")
    /\ UNCHANGED <<state, permit, stop, users, idle>>

\* mutant: a superseded dial publishes Connected
AcceptConnection_Unchecked ==
    /\ pc = "dialed"
    /\ status' = "Connected"
    /\ result' = Finished(mine, "ok")
    /\ NotifyWaiters(mine)
    /\ Goto("restoring")
    /\ UNCHANGED <<attempt, kind, permit, stop, caller, goal, joined, idle>>

AcceptConnection ==
    /\ pc = "dialed"
    /\ IF IsCurrent
       THEN /\ status' = "Connected"
            /\ result' = Finished(mine, "ok")
            /\ NotifyWaiters(mine)
            /\ Goto("restoring")
       ELSE /\ UNCHANGED <<status, result, woken>>
            /\ Leave("next")
    /\ UNCHANGED <<attempt, kind, permit, stop, caller, goal, joined, idle>>

ConnectionFailed ==
    /\ pc \in {"failed", "rejected"}
    /\ IF ~IsCurrent
       THEN UNCHANGED <<state, woken>>
       ELSE /\ NotifyWaiters(mine)
            /\ IF kind # "Background" \/ pc = "rejected" \/ ~Reconnect
               THEN /\ attempt' = NoAttempt
                    /\ status' = "Idle"
                    /\ result' = Finished(mine, "err")
                    /\ UNCHANGED kind
               ELSE /\ NewAttempt("Background", Finished(mine, "err"))
                    /\ status' = "Disconnected"
    /\ Leave("next")
    /\ UNCHANGED <<permit, stop, caller, goal, joined, idle>>

\* post_connection: the subscriptions are queued again, then the handlers run.
Restored ==
    /\ pc = "restoring" /\ checked
    /\ Goto("running")
    /\ UNCHANGED <<state, permit, stop, users, idle>>

\* The sender, receiver, ingester or pinger ends: the peer closed, a frame
\* could not be sent, a ping was not answered.
SessionEnds ==
    /\ pc = "running"
    /\ Goto("closing")
    /\ UNCHANGED <<state, permit, stop, users, idle>>

\* sleep_when_idle_monitor: should_sleep() releases the subscriptions lock ...
ShouldSleep ==
    /\ pc = "running"
    /\ SleepWhenIdle /\ subscribed = {} /\ ~active
    /\ Goto("sleepy")
    /\ UNCHANGED <<state, permit, stop, users, idle>>

\* mutant: the monitor sleeps although its attempt was taken away meanwhile
GoToSleep_Unchecked ==
    /\ pc = "sleepy"
    /\ attempt' = NoAttempt /\ status' = "Sleeping"
    /\ Goto("closing")
    /\ UNCHANGED <<kind, result, permit, stop, users, idle>>

\* ... before the connection mutex is taken to invalidate the attempt.
GoToSleep ==
    /\ pc = "sleepy"
    /\ IF IsCurrent
       THEN attempt' = NoAttempt /\ status' = "Sleeping"
       ELSE UNCHANGED <<attempt, status>>
    /\ Goto("closing")
    /\ UNCHANGED <<kind, result, permit, stop, users, idle>>

\* close_ws ends (it has a timeout), then schedule_reconnect.
ScheduleReconnect ==
    /\ pc = "closing"
    /\ IF ~IsCurrent
       THEN UNCHANGED state
       ELSE IF Reconnect
       THEN NewAttempt("Background", result) /\ status' = "Disconnected"
       ELSE attempt' = NoAttempt /\ status' = "Idle" /\ UNCHANGED <<kind, result>>
    /\ Leave("next")
    /\ UNCHANGED <<permit, stop, users, idle>>

\* mutant: the aborted task keeps its attempt alive
TaskAborted_Leaks ==
    /\ aborted
    /\ pc \in Racing \union {"next", "closing"}
    /\ Goto("ended")
    /\ UNCHANGED <<state, permit, stop, users, idle>>

\* The aborted task is dropped at an await; so is its WebSocket.
TaskAborted ==
    /\ aborted
    /\ pc \in Racing \union {"next", "closing"}
    /\ Leave("ended")
    /\ UNCHANGED <<state, permit, stop, users, idle>>

TaskStep ==
    \/ NextConnection \/ Notified \/ StillCurrent \/ Superseded
    \/ RetryElapsed \/ BeginConnection
    \/ \E answer \in {"Success", "Rejected", "Error"} : CheckPolicy(answer)
    \/ DialSucceeds \/ DialFails \/ AcceptConnection \/ ConnectionFailed
    \/ Restored \/ SessionEnds \/ ShouldSleep \/ GoToSleep
    \/ ScheduleReconnect \/ TaskAborted

Next ==
    \/ \E c \in Callers : CallerStep(c)
    \/ IdleElapses
    \/ \E s \in {"Idle", "Banned", "Shutdown"} : StopConnection(s)
    \/ AbortHandle
    \/ TaskStep

(***************************************************************************)
(* The runtime polls every task that is ready, the retry interval and the  *)
(* timeouts elapse, and a method that left the mutex returns.  Nothing     *)
(* makes a session end, a dial succeed, or a caller do anything.           *)
(***************************************************************************)
Fairness ==
    /\ WF_vars(NextConnection) /\ WF_vars(Notified)
    /\ WF_vars(StillCurrent) /\ WF_vars(Superseded)
    /\ WF_vars(RetryElapsed) /\ WF_vars(BeginConnection)
    /\ WF_vars((\E r \in {"Success", "Rejected", "Error"} : CheckPolicy(r)) \/ DialFails)
    /\ WF_vars(DialSucceeds \/ DialFails)
    /\ WF_vars(AcceptConnection) /\ WF_vars(ConnectionFailed)
    /\ WF_vars(Restored) /\ WF_vars(GoToSleep) /\ WF_vars(ScheduleReconnect)
    /\ WF_vars(TaskAborted) /\ WF_vars(AbortHandle)
    /\ \A c \in Callers :
          /\ WF_vars(SpawnTask(c)) /\ WF_vars(RegisterWait(c))
          /\ WF_vars(ExamineResult(c)) /\ WF_vars(AwaitResult(c))

Spec     == Init /\ [][Next]_vars
FairSpec == Spec /\ Fairness

-----------------------------------------------------------------------------
(* Properties                                                              *)

\* The caller waits in try_connect for the attempt joined[c].
Waiting(c) == caller[c] \in {"register", "examine", "await"}

(* An attempt that was replaced or dropped has a result, and the current   *)
(* one has a result exactly while the relay is Connected: stop_connection, *)
(* connection_failed, schedule_reconnect and the sleep monitor never leave *)
(* a try_connect waiting on an attempt nobody will finish.                 *)
NoOrphanedWaiter ==
    \A c \in Callers : Waiting(c) =>
        IF joined[c] = attempt
        THEN result[attempt] = IF status = "Connected" THEN "ok" ELSE "pending"
        ELSE result[joined[c]] # "pending"

(* No wakeup is lost between a check and the await that follows it: a task *)
(* that awaits connection_changed with something to react to has a permit, *)
(* and a caller that awaits a finished attempt was notified.               *)
NoLostWakeup ==
    /\ checked /\ pc \in Racing /\ ~IsCurrent => permit
    /\ checked /\ pc = "next" /\ (attempt # NoAttempt \/ status \in Terminal) => permit
    /\ \A c \in Callers :
          caller[c] = "await" /\ result[joined[c]] # "pending" => woken[c]

(* Whatever stop_connection, a sleep, a failure or a new request does to an *)
(* attempt, whoever waits on it gets its result and its wakeup.            *)
NoWaiterIsLost == NoOrphanedWaiter /\ NoLostWakeup

(* The public status and the WebSocket agree: Connected is published only  *)
(* while the task holds the session of the current attempt, a session of   *)
(* the current attempt is always published, and an attempt exists exactly  *)
(* while a connection is sought or held.                                   *)
StatusMatchesSession ==
    /\ status = "Connected" <=> IsCurrent /\ pc \in WithSocket \ {"dialed"}
    /\ attempt # NoAttempt <=> status \in {"Connecting", "Connected", "Disconnected"}

(* A requested connection always has somebody to serve it: the task runs,  *)
(* or a caller is about to spawn it (get_or_init comes after the mutex).   *)
RequestHasServer ==
    attempt # NoAttempt =>
        pc \notin {"none", "ended"} \/ \E c \in Callers : caller[c] = "spawn"

(* The step of the task tells which status its attempt has.                *)
PhaseMatchesStatus ==
    IsCurrent =>
        /\ pc = "retry" => status = "Disconnected"
        /\ pc = "begin" => status \in {"Connecting", "Disconnected"}
        /\ pc \in {"policy", "dial", "dialed", "failed", "rejected"} => status = "Connecting"

(* Attempts without a result: only the current one, until it is accepted.  *)
ResultsMatchStatus ==
    /\ attempt # NoAttempt =>
          result[attempt] = IF status = "Connected" THEN "ok" ELSE "pending"
    /\ \A c \in Callers : joined[c] \notin {NoAttempt, attempt} => result[joined[c]] # "pending"

(* The task is aborted, and ends, only after a ban or a shutdown.          *)
EndsOnlyIfTerminal == aborted \/ aborting \/ pc = "ended" => status \in Terminal

(* The inductive invariant behind the theorems of RelayConnectionProofs.   *)
ConnectionInv ==
    /\ TypeOK /\ StatusMatchesSession /\ PhaseMatchesStatus
    /\ ResultsMatchStatus /\ EndsOnlyIfTerminal
    /\ NoLostWakeup /\ RequestHasServer

(* "The relay has been shut down and can't be used again", and a ban is    *)
(* not lifted: no interleaving of a dial, a sleep, a reconnect or another  *)
(* stop leaves a terminal status.                                          *)
TerminalIsForever ==
    [][(status \in {"Banned", "Shutdown"}) => UNCHANGED status]_vars

(* The result of an attempt that is still held never changes once set,     *)
(* whichever of finish's callers comes second (OnceLock).                  *)
ResultIsFinal ==
    [][\A a \in Attempts : Held(a) /\ result[a] # "pending" => result'[a] = result[a]]_vars

(* Every try_connect gets an answer even if its own timeout never fires.   *)
EveryWaiterAnswered == \A c \in Callers : Waiting(c) ~> ~Waiting(c)

(* A retry, dial or session whose attempt was taken away is dropped: the   *)
(* task does not keep running a connection nobody owns.                    *)
SupersededIsDropped == (pc \in Racing /\ ~IsCurrent) ~> pc \notin Racing \/ IsCurrent

(* After a ban or a shutdown the task ends for good, even when it is being *)
(* spawned while stop_connection runs.                                     *)
TerminalEndsTask ==
    status \in {"Banned", "Shutdown"} ~> [](pc \in {"none", "ended"})

(* "No sleep if there are active subscriptions" (should_sleep): the relay  *)
(* never goes to sleep while a subscription is registered.                 *)
NoSleepWhileSubscribed ==
    [][status # "Sleeping" /\ status' = "Sleeping" => subscribed = {}]_vars

(* The connection refines what it promises its callers.                    *)
Lifecycle == INSTANCE RelayLifecycle WITH
    answer <- [c \in Callers |->
                 IF joined[c] = NoAttempt THEN "none" ELSE result[joined[c]]]

ImplementsLifecycle == Lifecycle!Spec

(* Without fairness: no step of the relay leaves the documented status     *)
(* graph or gives a caller an answer that contradicts it.                  *)
ImplementsTransitions == Lifecycle!Init /\ [][Lifecycle!Next]_(Lifecycle!vars)
=============================================================================
