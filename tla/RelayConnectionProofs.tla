----------------------- MODULE RelayConnectionProofs ------------------------
(***************************************************************************)
(* Theorems about RelayConnection, for every set of callers and attempts   *)
(* and every combination of the options.                                   *)
(***************************************************************************)
EXTENDS RelayConnection, TLAPS

(* The type invariant is inductive: the steps of the task.                 *)
LEMMA TypeTask == TypeOK /\ TaskStep => TypeOK'
<1> SUFFICES ASSUME TypeOK, TaskStep PROVE TypeOK'
  OBVIOUS
<1>a. UNCHANGED <<caller, goal, joined>>
  BY DEF TaskStep, NextConnection, Notified, StillCurrent, Superseded, RetryElapsed,
         BeginConnection, CheckPolicy, DialSucceeds, DialFails, AcceptConnection,
         ConnectionFailed, Restored, SessionEnds, ShouldSleep, GoToSleep,
         ScheduleReconnect, TaskAborted, users
<1>b. CallersShape'
  BY <1>a DEF TypeOK, CallersShape
<1> USE NoAttemptAssumption, <1>b
        DEF TypeOK, TaskShape, state, stop, users, idle, Goto, Leave, TaskPCs, Status, Racing, Kinds
<1>1. CASE NextConnection
  <2>1. CASE status \in Terminal \/ attempt = NoAttempt
    BY <1>1, <2>1 DEF NextConnection
  <2>2. CASE status \notin Terminal /\ attempt # NoAttempt
    BY <1>1, <2>2 DEF NextConnection
  <2> QED BY <2>1, <2>2
<1>2. CASE Notified BY <1>2 DEF Notified
<1>3. CASE StillCurrent BY <1>3 DEF StillCurrent
<1>4. CASE Superseded
  <2>1. CASE pc \in {"restoring", "running"} BY <1>4, <2>1 DEF Superseded
  <2>2. CASE pc \notin {"restoring", "running"} BY <1>4, <2>2 DEF Superseded
  <2> QED BY <2>1, <2>2
<1>5. CASE RetryElapsed BY <1>5 DEF RetryElapsed
<1>6. CASE BeginConnection BY <1>6 DEF BeginConnection
<1>7. ASSUME NEW answer \in {"Success", "Rejected", "Error"}, CheckPolicy(answer)
      PROVE  TypeOK'
  <2>1. CASE answer = "Success" BY <1>7, <2>1 DEF CheckPolicy
  <2>2. CASE answer = "Rejected" BY <1>7, <2>2 DEF CheckPolicy
  <2>3. CASE answer = "Error" BY <1>7, <2>3 DEF CheckPolicy
  <2> QED BY <2>1, <2>2, <2>3
<1>8. CASE DialSucceeds BY <1>8 DEF DialSucceeds
<1>9. CASE DialFails BY <1>9 DEF DialFails
<1>10. CASE AcceptConnection BY <1>10 DEF AcceptConnection, Finished, NotifyWaiters
<1>11. CASE ConnectionFailed
  BY <1>11 DEF ConnectionFailed, Finished, NotifyWaiters, NewAttempt
<1>12. CASE Restored BY <1>12 DEF Restored
<1>13. CASE SessionEnds BY <1>13 DEF SessionEnds
<1>14. CASE ShouldSleep BY <1>14 DEF ShouldSleep
<1>15. CASE GoToSleep BY <1>15 DEF GoToSleep
<1>16. CASE ScheduleReconnect BY <1>16 DEF ScheduleReconnect, NewAttempt
<1>17. CASE TaskAborted BY <1>17 DEF TaskAborted
<1> QED
  BY <1>1, <1>2, <1>3, <1>4, <1>5, <1>6, <1>7, <1>8, <1>9, <1>10, <1>11, <1>12,
     <1>13, <1>14, <1>15, <1>16, <1>17 DEF TaskStep

(* The type invariant is inductive: the steps of the callers.              *)
LEMMA TypeCaller == \A c \in Callers : TypeOK /\ CallerStep(c) => TypeOK'
<1> SUFFICES ASSUME NEW c \in Callers, TypeOK, CallerStep(c) PROVE TypeOK'
  OBVIOUS
<1>a. ASSUME NEW k \in Kinds, RequestConnection(c, k)
      PROVE  /\ status' \in Status /\ permit' \in BOOLEAN
             /\ attempt' \in Attempts
             /\ kind' \in Kinds
             /\ result' \in [Attempts -> {"pending", "ok", "err"}]
             /\ caller' = [caller EXCEPT ![c] = "spawn"]
             /\ goal' = [goal EXCEPT ![c] = k]
  <2>1. CASE attempt # NoAttempt
    BY <1>a, <2>1 DEF TypeOK, RequestConnection, state
  <2>2. CASE attempt = NoAttempt
    BY <1>a, <2>2 DEF TypeOK, RequestConnection, NewAttempt, Status
  <2> QED BY <2>1, <2>2
<1> USE NoAttemptAssumption
        DEF TypeOK, TaskShape, CallersShape, Racing, state, task, stop, users, idle, Status, CallerPCs, Kinds
<1>1. CASE Connect(c)
  <2>1. RequestConnection(c, "Background")
    BY <1>1 DEF Connect
  <2>2. UNCHANGED <<task, stop, joined, woken, idle>> /\ caller[c] = "ready"
    BY <1>1 DEF Connect
  <2> QED BY <2>1, <2>2, <1>a
<1>2. CASE TryConnect(c)
  <2>1. RequestConnection(c, "WaitForResult")
    BY <1>2 DEF TryConnect
  <2>2. /\ attempt' \in Attempts
        /\ joined' = [joined EXCEPT ![c] = attempt']
        /\ UNCHANGED <<task, stop, woken, idle>>
    BY <1>2, <1>a, <2>1 DEF TryConnect
  <2> QED BY <2>1, <2>2, <1>a
<1>3. CASE SpawnTask(c) BY <1>3 DEF SpawnTask, TaskPCs
<1>4. CASE RegisterWait(c) BY <1>4 DEF RegisterWait
<1>5. CASE ExamineResult(c)
  <2>1. CASE result[joined[c]] = "pending" BY <1>5, <2>1 DEF ExamineResult
  <2>2. CASE result[joined[c]] # "pending"
    <3>1. /\ caller' = [caller EXCEPT ![c] = "ready"]
          /\ joined' = [joined EXCEPT ![c] = NoAttempt]
          /\ UNCHANGED <<state, permit, task, stop, goal, idle>>
      BY <1>5, <2>2 DEF ExamineResult
    <3>2. woken' \in [Callers -> BOOLEAN]
      BY <1>5, <2>2 DEF ExamineResult
    <3>3. CallersShape'
      BY <3>1 DEF CallersShape
    <3>4. /\ caller' \in [Callers -> CallerPCs]
          /\ joined' \in [Callers -> Attempts \union {NoAttempt}]
      BY <3>1
    <3> HIDE DEF CallersShape
    <3>5. TaskShape' /\ UNCHANGED <<state, permit, task, stop, goal, idle>>
      BY <3>1
    <3> QED BY <3>2, <3>3, <3>4, <3>5
  <2> QED BY <2>1, <2>2
<1>6. CASE AwaitResult(c) BY <1>6 DEF AwaitResult
<1>7. CASE GiveUp(c) BY <1>7 DEF GiveUp
<1>8. CASE EnsureOperational(c) BY <1>8 DEF EnsureOperational
<1>9. CASE WakeUp(c)
  <2>1. CASE RequestConnection(c, "Background")
    <3>1. UNCHANGED <<task, stop, joined, woken, idle>>
      BY <1>9 DEF WakeUp
    <3>2. caller[c] = "wake"
      BY <1>9 DEF WakeUp
    <3> QED BY <2>1, <3>1, <3>2, <1>a
  <2>2. CASE /\ caller[c] = "wake"
             /\ caller' = [caller EXCEPT ![c] = "ready"]
             /\ UNCHANGED <<state, permit, task, stop, goal, joined, woken, idle>>
    BY <2>2
  <2> QED BY <1>9, <2>1, <2>2 DEF WakeUp
<1>10. CASE AddSubscription(c) BY <1>10 DEF AddSubscription
<1>11. CASE RemoveSubscription(c) BY <1>11 DEF RemoveSubscription
<1> QED
  BY <1>1, <1>2, <1>3, <1>4, <1>5, <1>6, <1>7, <1>8, <1>9, <1>10, <1>11 DEF CallerStep

(* Every variable keeps its type, the task holds an attempt exactly inside *)
(* an iteration, and a caller exactly inside try_connect.                  *)
THEOREM TypeCorrect == Spec => []TypeOK
<1>1. Init => TypeOK
  BY NoAttemptAssumption
  DEF Init, TypeOK, TaskShape, CallersShape, Status, TaskPCs, CallerPCs, Kinds
<1>2. TypeOK /\ [Next]_vars => TypeOK'
  <2> SUFFICES ASSUME TypeOK, [Next]_vars PROVE TypeOK'
    OBVIOUS
  <2>1. CASE \E c \in Callers : CallerStep(c)
    BY <2>1, TypeCaller
  <2>2. CASE IdleElapses
    <3>1. TaskShape' /\ CallersShape'
      BY <2>2 DEF IdleElapses, TypeOK, TaskShape, CallersShape,
                  task, users
    <3> QED
      BY <2>2, <3>1 DEF IdleElapses, TypeOK, state, task, stop, users
  <2>3. ASSUME NEW s \in {"Idle", "Banned", "Shutdown"}, StopConnection(s)
        PROVE  TypeOK'
    <3>1. aborting' \in BOOLEAN
      BY <2>3 DEF StopConnection
    <3>2. /\ result' \in [Attempts -> {"pending", "ok", "err"}]
          /\ woken' \in [Callers -> BOOLEAN]
      BY <2>3 DEF StopConnection, Finished, NotifyWaiters, TypeOK
    <3> QED
      BY <2>3, <3>1, <3>2
      DEF StopConnection, TypeOK, TaskShape, CallersShape, task, idle, Status
  <2>4. CASE AbortHandle
    BY <2>4 DEF AbortHandle, TypeOK, TaskShape, CallersShape, state, task, users, idle
  <2>5. CASE TaskStep
    BY <2>5, TypeTask
  <2>6. CASE UNCHANGED vars
    BY <2>6 DEF vars, TypeOK, TaskShape, CallersShape
  <2> QED
    BY <2>1, <2>2, <2>3, <2>4, <2>5, <2>6 DEF Next
<1> QED
  BY <1>1, <1>2, PTL DEF Spec
SessionInv == StatusMatchesSession /\ PhaseMatchesStatus /\ EndsOnlyIfTerminal

(* Status, session and phase of the task move together.                    *)
LEMMA SessionTask == ConnectionInv /\ TaskStep => SessionInv'
<1> SUFFICES ASSUME ConnectionInv, TaskStep PROVE SessionInv'
  OBVIOUS
<1> USE NoAttemptAssumption
        DEF ConnectionInv, TypeOK, TaskShape, CallersShape, SessionInv, StatusMatchesSession, PhaseMatchesStatus,
            EndsOnlyIfTerminal, IsCurrent, state, task, stop, users, idle, Goto,
            Leave, Racing, Terminal, WithSocket, Status, TaskPCs, vars
<1>1. CASE NextConnection BY <1>1 DEF NextConnection
<1>2. CASE Notified BY <1>2 DEF Notified
<1>3. CASE StillCurrent BY <1>3 DEF StillCurrent
<1>4. CASE Superseded BY <1>4 DEF Superseded
<1>5. CASE RetryElapsed BY <1>5 DEF RetryElapsed
<1>6. CASE BeginConnection BY <1>6 DEF BeginConnection
<1>7. ASSUME NEW answer \in {"Success", "Rejected", "Error"}, CheckPolicy(answer)
      PROVE  SessionInv'
  BY <1>7 DEF CheckPolicy
<1>8. CASE DialSucceeds BY <1>8 DEF DialSucceeds
<1>9. CASE DialFails BY <1>9 DEF DialFails
<1>10. CASE AcceptConnection BY <1>10 DEF AcceptConnection, Finished
<1>11. CASE ConnectionFailed BY <1>11 DEF ConnectionFailed, NewAttempt, Held
<1>12. CASE Restored BY <1>12 DEF Restored
<1>13. CASE SessionEnds BY <1>13 DEF SessionEnds
<1>14. CASE ShouldSleep BY <1>14 DEF ShouldSleep
<1>15. CASE GoToSleep BY <1>15 DEF GoToSleep
<1>16. CASE ScheduleReconnect BY <1>16 DEF ScheduleReconnect, NewAttempt, Held
<1>17. CASE TaskAborted BY <1>17 DEF TaskAborted
<1> QED
  BY <1>1, <1>2, <1>3, <1>4, <1>5, <1>6, <1>7, <1>8, <1>9, <1>10, <1>11, <1>12, <1>13, <1>14, <1>15, <1>16, <1>17 DEF TaskStep

LEMMA SessionCaller ==
    \A c \in Callers : ConnectionInv /\ CallerStep(c) => SessionInv'
<1> SUFFICES ASSUME NEW c \in Callers, ConnectionInv, CallerStep(c) PROVE SessionInv'
  OBVIOUS
<1> USE NoAttemptAssumption
        DEF ConnectionInv, TypeOK, TaskShape, CallersShape, SessionInv, StatusMatchesSession, PhaseMatchesStatus,
            EndsOnlyIfTerminal, IsCurrent, state, task, stop, users, idle, Goto,
            Leave, Racing, Terminal, WithSocket, Status, TaskPCs, vars
<1>1. CASE Connect(c) BY <1>1 DEF Connect, RequestConnection, NewAttempt, Held
<1>2. CASE TryConnect(c) BY <1>2 DEF TryConnect, RequestConnection, NewAttempt, Held
<1>3. CASE SpawnTask(c) BY <1>3 DEF SpawnTask
<1>4. CASE RegisterWait(c) BY <1>4 DEF RegisterWait
<1>5. CASE ExamineResult(c) BY <1>5 DEF ExamineResult
<1>6. CASE AwaitResult(c) BY <1>6 DEF AwaitResult
<1>7. CASE GiveUp(c) BY <1>7 DEF GiveUp
<1>8. CASE EnsureOperational(c) BY <1>8 DEF EnsureOperational
<1>9. CASE WakeUp(c) BY <1>9 DEF WakeUp, RequestConnection, NewAttempt, Held
<1>10. CASE AddSubscription(c) BY <1>10 DEF AddSubscription
<1>11. CASE RemoveSubscription(c) BY <1>11 DEF RemoveSubscription
<1> QED
  BY <1>1, <1>2, <1>3, <1>4, <1>5, <1>6, <1>7, <1>8, <1>9, <1>10, <1>11 DEF CallerStep

(* Every attempt but the current one has a result: steps of the task.      *)
LEMMA ResultsTask == ConnectionInv /\ TaskStep => ResultsMatchStatus'
<1> SUFFICES ASSUME ConnectionInv, TaskStep PROVE ResultsMatchStatus'
  OBVIOUS
<1> USE NoAttemptAssumption
        DEF ConnectionInv, TypeOK, TaskShape, CallersShape, StatusMatchesSession, PhaseMatchesStatus,
            ResultsMatchStatus, EndsOnlyIfTerminal, IsCurrent, state, task, stop,
            users, idle, Goto, Leave, Racing, Terminal, WithSocket
<1>1. CASE NextConnection BY <1>1 DEF NextConnection
<1>2. CASE Notified BY <1>2 DEF Notified
<1>3. CASE StillCurrent BY <1>3 DEF StillCurrent
<1>4. CASE Superseded BY <1>4 DEF Superseded
<1>5. CASE RetryElapsed BY <1>5 DEF RetryElapsed
<1>6. CASE BeginConnection BY <1>6 DEF BeginConnection
<1>7. ASSUME NEW answer \in {"Success", "Rejected", "Error"}, CheckPolicy(answer)
      PROVE  ResultsMatchStatus'
  BY <1>7 DEF CheckPolicy
<1>8. CASE DialSucceeds BY <1>8 DEF DialSucceeds
<1>9. CASE DialFails BY <1>9 DEF DialFails
<1>10. CASE AcceptConnection BY <1>10 DEF AcceptConnection, Finished
<1>11. CASE ConnectionFailed BY <1>11 DEF ConnectionFailed, Finished, NewAttempt, Held
<1>12. CASE Restored BY <1>12 DEF Restored
<1>13. CASE SessionEnds BY <1>13 DEF SessionEnds
<1>14. CASE ShouldSleep BY <1>14 DEF ShouldSleep
<1>15. CASE GoToSleep BY <1>15 DEF GoToSleep
<1>16. CASE ScheduleReconnect BY <1>16 DEF ScheduleReconnect, NewAttempt, Held
<1>17. CASE TaskAborted BY <1>17 DEF TaskAborted
<1> QED
  BY <1>1, <1>2, <1>3, <1>4, <1>5, <1>6, <1>7, <1>8, <1>9, <1>10, <1>11, <1>12, <1>13, <1>14, <1>15, <1>16, <1>17 DEF TaskStep

(* Every attempt but the current one has a result: steps of the callers.      *)
LEMMA ResultsCaller ==
    \A c \in Callers : ConnectionInv /\ CallerStep(c) => ResultsMatchStatus'
<1> SUFFICES ASSUME NEW c \in Callers, ConnectionInv, CallerStep(c) PROVE ResultsMatchStatus'
  OBVIOUS
<1> USE NoAttemptAssumption
        DEF ConnectionInv, TypeOK, TaskShape, CallersShape, StatusMatchesSession, PhaseMatchesStatus,
            ResultsMatchStatus, EndsOnlyIfTerminal, IsCurrent, state, task, stop,
            users, idle, Goto, Leave, Racing, Terminal, WithSocket
<1>1. CASE Connect(c) BY <1>1 DEF Connect, RequestConnection, NewAttempt, Held
<1>2. CASE TryConnect(c) BY <1>2 DEF TryConnect, RequestConnection, NewAttempt, Held
<1>3. CASE SpawnTask(c) BY <1>3 DEF SpawnTask
<1>4. CASE RegisterWait(c) BY <1>4 DEF RegisterWait
<1>5. CASE ExamineResult(c) BY <1>5 DEF ExamineResult
<1>6. CASE AwaitResult(c) BY <1>6 DEF AwaitResult
<1>7. CASE GiveUp(c) BY <1>7 DEF GiveUp
<1>8. CASE EnsureOperational(c) BY <1>8 DEF EnsureOperational
<1>9. CASE WakeUp(c) BY <1>9 DEF WakeUp, RequestConnection, NewAttempt, Held
<1>10. CASE AddSubscription(c) BY <1>10 DEF AddSubscription
<1>11. CASE RemoveSubscription(c) BY <1>11 DEF RemoveSubscription
<1> QED
  BY <1>1, <1>2, <1>3, <1>4, <1>5, <1>6, <1>7, <1>8, <1>9, <1>10, <1>11 DEF CallerStep

(* No check is separated from its wakeup: steps of the task.               *)
LEMMA WakeupTask == ConnectionInv /\ TaskStep => NoLostWakeup'
<1> SUFFICES ASSUME ConnectionInv, TaskStep PROVE NoLostWakeup'
  OBVIOUS
<1> USE NoAttemptAssumption
        DEF ConnectionInv, TypeOK, TaskShape, CallersShape, StatusMatchesSession, PhaseMatchesStatus,
            ResultsMatchStatus, EndsOnlyIfTerminal, NoLostWakeup, IsCurrent, state,
            task, stop, users, idle, Goto, Leave, Racing, Terminal, WithSocket
<1>1. CASE NextConnection BY <1>1 DEF NextConnection
<1>2. CASE Notified BY <1>2 DEF Notified
<1>3. CASE StillCurrent BY <1>3 DEF StillCurrent
<1>4. CASE Superseded BY <1>4 DEF Superseded
<1>5. CASE RetryElapsed BY <1>5 DEF RetryElapsed
<1>6. CASE BeginConnection BY <1>6 DEF BeginConnection
<1>7. ASSUME NEW answer \in {"Success", "Rejected", "Error"}, CheckPolicy(answer)
      PROVE  NoLostWakeup'
  BY <1>7 DEF CheckPolicy
<1>8. CASE DialSucceeds BY <1>8 DEF DialSucceeds
<1>9. CASE DialFails BY <1>9 DEF DialFails
<1>10. CASE AcceptConnection
  <2>1. CASE ~IsCurrent BY <1>10, <2>1 DEF AcceptConnection
  <2>2. CASE IsCurrent
    <3>1. ~checked' /\ mine = attempt /\ result[mine] = "pending"
      BY <1>10, <2>2 DEF AcceptConnection
    <3>2. ASSUME NEW c \in Callers, caller'[c] = "await", result'[joined'[c]] # "pending"
          PROVE  woken'[c]
      <4>1. joined[c] \in Attempts /\ caller[c] = "await" /\ joined'[c] = joined[c]
        BY <1>10, <3>2 DEF AcceptConnection
      <4>2. woken'[c] = IF /\ mine # NoAttempt /\ joined[c] = mine
                           /\ result[mine] = "pending"
                           /\ caller[c] \in {"examine", "await"}
                        THEN TRUE ELSE woken[c]
        BY <1>10, <2>2 DEF AcceptConnection, NotifyWaiters
      <4>3. CASE joined[c] = mine
        BY <3>1, <4>1, <4>2, <4>3
      <4>4. CASE joined[c] # mine
        <5>1. result'[joined[c]] = result[joined[c]]
          BY <1>10, <2>2, <4>1, <4>4 DEF AcceptConnection, Finished
        <5>2. woken[c]
          BY <3>2, <4>1, <5>1
        <5> QED BY <4>2, <4>4, <5>2
      <4> QED BY <4>3, <4>4
    <3> QED BY <3>1, <3>2
  <2> QED BY <2>1, <2>2
<1>11. CASE ConnectionFailed
  <2>1. CASE ~IsCurrent BY <1>11, <2>1 DEF ConnectionFailed
  <2>2. CASE IsCurrent
    <3>1. ~checked' /\ mine = attempt /\ result[mine] = "pending"
      BY <1>11, <2>2 DEF ConnectionFailed
    <3>2. ASSUME NEW c \in Callers, caller'[c] = "await", result'[joined'[c]] # "pending"
          PROVE  woken'[c]
      <4>1. joined[c] \in Attempts /\ caller[c] = "await" /\ joined'[c] = joined[c]
        BY <1>11, <3>2 DEF ConnectionFailed
      <4>4. woken'[c] = IF /\ mine # NoAttempt /\ joined[c] = mine
                           /\ result[mine] = "pending"
                           /\ caller[c] \in {"examine", "await"}
                        THEN TRUE ELSE woken[c]
        BY <1>11, <2>2 DEF ConnectionFailed, NotifyWaiters
      <4>2. CASE joined[c] = mine
        BY <3>1, <4>1, <4>2, <4>4
      <4>3. CASE joined[c] # mine
        <5>1. result'[joined[c]] = result[joined[c]]
          BY <1>11, <2>2, <4>1, <4>3 DEF ConnectionFailed, Finished, NewAttempt, Held
        <5>2. woken[c]
          BY <3>2, <4>1, <5>1
        <5> QED BY <4>3, <4>4, <5>2
      <4> QED BY <4>2, <4>3
    <3> QED BY <3>1, <3>2
  <2> QED BY <2>1, <2>2
<1>12. CASE Restored BY <1>12 DEF Restored
<1>13. CASE SessionEnds BY <1>13 DEF SessionEnds
<1>14. CASE ShouldSleep BY <1>14 DEF ShouldSleep
<1>15. CASE GoToSleep BY <1>15 DEF GoToSleep
<1>16. CASE ScheduleReconnect BY <1>16 DEF ScheduleReconnect, NewAttempt, Held
<1>17. CASE TaskAborted BY <1>17 DEF TaskAborted
<1> QED
  BY <1>1, <1>2, <1>3, <1>4, <1>5, <1>6, <1>7, <1>8, <1>9, <1>10, <1>11, <1>12, <1>13, <1>14, <1>15, <1>16, <1>17 DEF TaskStep

(* No check is separated from its wakeup: steps of the callers.               *)
LEMMA WakeupCaller ==
    \A c \in Callers : ConnectionInv /\ CallerStep(c) => NoLostWakeup'
<1> SUFFICES ASSUME NEW c \in Callers, ConnectionInv, CallerStep(c) PROVE NoLostWakeup'
  OBVIOUS
<1> USE NoAttemptAssumption
        DEF ConnectionInv, TypeOK, TaskShape, CallersShape, StatusMatchesSession, PhaseMatchesStatus,
            ResultsMatchStatus, EndsOnlyIfTerminal, NoLostWakeup, IsCurrent, state,
            task, stop, users, idle, Goto, Leave, Racing, Terminal, WithSocket
<1>1. CASE Connect(c) BY <1>1 DEF Connect, RequestConnection, NewAttempt, Held
<1>2. CASE TryConnect(c) BY <1>2 DEF TryConnect, RequestConnection, NewAttempt, Held
<1>3. CASE SpawnTask(c)
  <2>1. ~checked \/ pc' = pc
    BY <1>3 DEF SpawnTask
  <2>2. \A d \in Callers : caller'[d] = "await" => caller[d] = "await"
    BY <1>3 DEF SpawnTask, Kinds, CallerPCs
  <2> QED BY <1>3, <2>1, <2>2 DEF SpawnTask
<1>4. CASE RegisterWait(c) BY <1>4 DEF RegisterWait
<1>5. CASE ExamineResult(c) BY <1>5 DEF ExamineResult
<1>6. CASE AwaitResult(c) BY <1>6 DEF AwaitResult
<1>7. CASE GiveUp(c) BY <1>7 DEF GiveUp
<1>8. CASE EnsureOperational(c) BY <1>8 DEF EnsureOperational
<1>9. CASE WakeUp(c) BY <1>9 DEF WakeUp, RequestConnection, NewAttempt, Held
<1>10. CASE AddSubscription(c) BY <1>10 DEF AddSubscription
<1>11. CASE RemoveSubscription(c) BY <1>11 DEF RemoveSubscription
<1> QED
  BY <1>1, <1>2, <1>3, <1>4, <1>5, <1>6, <1>7, <1>8, <1>9, <1>10, <1>11 DEF CallerStep

(* A requested connection keeps a server: steps of the task.               *)
LEMMA ServerTask == ConnectionInv /\ TaskStep => RequestHasServer'
<1> SUFFICES ASSUME ConnectionInv, TaskStep PROVE RequestHasServer'
  OBVIOUS
<1> USE NoAttemptAssumption
        DEF ConnectionInv, TypeOK, TaskShape, CallersShape, StatusMatchesSession, RequestHasServer,
            EndsOnlyIfTerminal, IsCurrent, state, task, stop, users, idle, Goto,
            Leave, Racing, Terminal, TaskPCs
<1>1. CASE NextConnection BY <1>1 DEF NextConnection
<1>2. CASE Notified BY <1>2 DEF Notified
<1>3. CASE StillCurrent BY <1>3 DEF StillCurrent
<1>4. CASE Superseded BY <1>4 DEF Superseded
<1>5. CASE RetryElapsed BY <1>5 DEF RetryElapsed
<1>6. CASE BeginConnection BY <1>6 DEF BeginConnection
<1>7. ASSUME NEW answer \in {"Success", "Rejected", "Error"}, CheckPolicy(answer)
      PROVE  RequestHasServer'
  BY <1>7 DEF CheckPolicy
<1>8. CASE DialSucceeds BY <1>8 DEF DialSucceeds
<1>9. CASE DialFails BY <1>9 DEF DialFails
<1>10. CASE AcceptConnection BY <1>10 DEF AcceptConnection
<1>11. CASE ConnectionFailed BY <1>11 DEF ConnectionFailed, NewAttempt, Held
<1>12. CASE Restored BY <1>12 DEF Restored
<1>13. CASE SessionEnds BY <1>13 DEF SessionEnds
<1>14. CASE ShouldSleep BY <1>14 DEF ShouldSleep
<1>15. CASE GoToSleep BY <1>15 DEF GoToSleep
<1>16. CASE ScheduleReconnect BY <1>16 DEF ScheduleReconnect, NewAttempt, Held
<1>17. CASE TaskAborted BY <1>17 DEF TaskAborted
<1> QED
  BY <1>1, <1>2, <1>3, <1>4, <1>5, <1>6, <1>7, <1>8, <1>9, <1>10, <1>11, <1>12, <1>13, <1>14, <1>15, <1>16, <1>17 DEF TaskStep

(* A requested connection keeps a server: steps of the callers.               *)
LEMMA ServerCaller ==
    \A c \in Callers : ConnectionInv /\ CallerStep(c) => RequestHasServer'
<1> SUFFICES ASSUME NEW c \in Callers, ConnectionInv, CallerStep(c) PROVE RequestHasServer'
  OBVIOUS
<1> USE NoAttemptAssumption
        DEF ConnectionInv, TypeOK, TaskShape, CallersShape, StatusMatchesSession, RequestHasServer,
            EndsOnlyIfTerminal, IsCurrent, state, task, stop, users, idle, Goto,
            Leave, Racing, Terminal, TaskPCs
<1>1. CASE Connect(c) BY <1>1 DEF Connect, RequestConnection, NewAttempt, Held
<1>2. CASE TryConnect(c) BY <1>2 DEF TryConnect, RequestConnection, NewAttempt, Held
<1>3. CASE SpawnTask(c) BY <1>3 DEF SpawnTask
<1>4. CASE RegisterWait(c) BY <1>4 DEF RegisterWait
<1>5. CASE ExamineResult(c) BY <1>5 DEF ExamineResult
<1>6. CASE AwaitResult(c) BY <1>6 DEF AwaitResult
<1>7. CASE GiveUp(c) BY <1>7 DEF GiveUp
<1>8. CASE EnsureOperational(c) BY <1>8 DEF EnsureOperational
<1>9. CASE WakeUp(c) BY <1>9 DEF WakeUp, RequestConnection, NewAttempt, Held
<1>10. CASE AddSubscription(c) BY <1>10 DEF AddSubscription
<1>11. CASE RemoveSubscription(c) BY <1>11 DEF RemoveSubscription
<1> QED
  BY <1>1, <1>2, <1>3, <1>4, <1>5, <1>6, <1>7, <1>8, <1>9, <1>10, <1>11 DEF CallerStep

(* The steps of nobody's task: idleness, aborts and stops.                *)
LEMMA EnvironmentStep ==
    ASSUME ConnectionInv,
           \/ IdleElapses \/ AbortHandle \/ UNCHANGED vars
           \/ \E s \in {"Idle", "Banned", "Shutdown"} : StopConnection(s)
    PROVE  SessionInv' /\ ResultsMatchStatus' /\ NoLostWakeup' /\ RequestHasServer'
<1> USE NoAttemptAssumption DEF ConnectionInv
<1>1. CASE IdleElapses \/ AbortHandle \/ UNCHANGED vars
  <2>1. UNCHANGED <<state, permit, task, users>>
    BY <1>1 DEF IdleElapses, AbortHandle, vars, state, task, users
  <2>2. aborted' \/ aborting' => aborted \/ aborting
    BY <1>1 DEF IdleElapses, AbortHandle, vars, stop
  <2>3. SessionInv'
    BY <2>1, <2>2 DEF SessionInv, StatusMatchesSession, PhaseMatchesStatus,
                      EndsOnlyIfTerminal, IsCurrent, state, task
  <2> QED
    BY <2>1, <2>3 DEF ResultsMatchStatus, NoLostWakeup, RequestHasServer,
                      IsCurrent, state, task, users
<1>2. ASSUME NEW s \in {"Idle", "Banned", "Shutdown"}, StopConnection(s)
      PROVE  SessionInv' /\ ResultsMatchStatus' /\ NoLostWakeup' /\ RequestHasServer'
  <2>1. SessionInv'
    BY <1>2 DEF StopConnection, SessionInv, StatusMatchesSession, PhaseMatchesStatus,
                EndsOnlyIfTerminal, IsCurrent, task, Terminal
  <2>2. ResultsMatchStatus'
    BY <1>2 DEF StopConnection, ResultsMatchStatus, StatusMatchesSession, Finished,
                TypeOK, IsCurrent, task
  <2>3. NoLostWakeup'
    <3>1. permit'
      BY <1>2 DEF StopConnection
    <3>2. ASSUME NEW c \in Callers, caller'[c] = "await", result'[joined'[c]] # "pending"
          PROVE  woken'[c]
      <4>1. /\ joined[c] \in Attempts /\ caller[c] = "await"
            /\ joined'[c] = joined[c]
        BY <1>2, <3>2 DEF StopConnection, TypeOK, CallersShape
      <4>2. woken'[c] = IF /\ attempt # NoAttempt /\ joined[c] = attempt
                           /\ result[attempt] = "pending"
                           /\ caller[c] \in {"examine", "await"}
                        THEN TRUE ELSE woken[c]
        BY <1>2 DEF StopConnection, NotifyWaiters
      <4>3. CASE joined[c] = attempt /\ result[attempt] = "pending"
        BY <4>1, <4>2, <4>3
      <4>4. CASE ~(joined[c] = attempt /\ result[attempt] = "pending")
        <5>1. result'[joined[c]] = result[joined[c]]
          BY <1>2, <4>1, <4>4 DEF StopConnection, Finished, TypeOK
        <5>2. woken[c]
          BY <3>2, <4>1, <5>1 DEF NoLostWakeup
        <5> QED BY <4>2, <4>4, <5>2
      <4> QED BY <4>3, <4>4
    <3> QED BY <3>1, <3>2 DEF NoLostWakeup
  <2>4. RequestHasServer'
    BY <1>2 DEF StopConnection, RequestHasServer
  <2> QED BY <2>1, <2>2, <2>3, <2>4
<1> QED BY <1>1, <1>2

(* ConnectionInv is inductive and holds initially.                         *)
THEOREM ConnectionInvariant == Spec => []ConnectionInv
<1>1. Init => SessionInv /\ ResultsMatchStatus /\ NoLostWakeup /\ RequestHasServer
  BY NoAttemptAssumption
  DEF Init, SessionInv, StatusMatchesSession, PhaseMatchesStatus, EndsOnlyIfTerminal,
      ResultsMatchStatus, NoLostWakeup, RequestHasServer, IsCurrent, WithSocket, Racing
<1>2. TypeOK /\ TypeOK' /\ ConnectionInv /\ [Next]_vars => ConnectionInv'
  <2> SUFFICES ASSUME TypeOK, TypeOK', ConnectionInv, [Next]_vars
               PROVE  SessionInv' /\ ResultsMatchStatus' /\ NoLostWakeup' /\ RequestHasServer'
    BY DEF ConnectionInv, SessionInv
  <2>1. CASE \E c \in Callers : CallerStep(c)
    BY <2>1, SessionCaller, ResultsCaller, WakeupCaller, ServerCaller
  <2>2. CASE TaskStep
    BY <2>2, SessionTask, ResultsTask, WakeupTask, ServerTask
  <2>3. CASE ~TaskStep /\ ~\E c \in Callers : CallerStep(c)
    BY <2>3, EnvironmentStep DEF Next
  <2> QED BY <2>1, <2>2, <2>3
<1>3. SessionInv /\ ResultsMatchStatus /\ NoLostWakeup /\ RequestHasServer /\ TypeOK
        => ConnectionInv
  BY DEF ConnectionInv, SessionInv
<1> QED
  BY <1>1, <1>2, <1>3, TypeCorrect, PTL DEF Spec

(* Connected is published exactly while the task holds the session of the  *)
(* current attempt, and an attempt exists exactly while one is sought.     *)
THEOREM StatusSound == Spec => []StatusMatchesSession
  BY ConnectionInvariant, PTL DEF ConnectionInv

(* No task and no try_connect caller sleeps through its notification.      *)
THEOREM NoWakeupIsLost == Spec => []NoLostWakeup
  BY ConnectionInvariant, PTL DEF ConnectionInv

(* A requested connection is always served by a task that runs or that a   *)
(* caller is about to spawn.                                               *)
THEOREM RequestsAreServed == Spec => []RequestHasServer
  BY ConnectionInvariant, PTL DEF ConnectionInv

(* Whoever waits in try_connect waits for an attempt that is still going   *)
(* to get a result, or already has the result that belongs to it.          *)
THEOREM NoWaiterIsOrphaned == Spec => []NoOrphanedWaiter
<1>1. ConnectionInv => NoOrphanedWaiter
  BY NoAttemptAssumption
  DEF ConnectionInv, TypeOK, CallersShape, ResultsMatchStatus, NoOrphanedWaiter, Waiting
<1> QED
  BY <1>1, ConnectionInvariant, PTL

(* A waiter in try_connect has a result to come, or has it and is awake.   *)
THEOREM WaitersAreNotLost == Spec => []NoWaiterIsLost
  BY NoWaiterIsOrphaned, NoWakeupIsLost, PTL DEF NoWaiterIsLost

-----------------------------------------------------------------------------
(* Action properties and refinement                                        *)

(* A banned or shut down relay keeps its status.                           *)
THEOREM TerminalStays == Spec => TerminalIsForever
<1>1. ASSUME ConnectionInv, [Next]_vars, status \in {"Banned", "Shutdown"}
      PROVE  UNCHANGED status
  <2> USE <1>1 DEF ConnectionInv, Terminal, state
  <2>1. attempt = NoAttempt
    BY DEF StatusMatchesSession
  <2>2. ASSUME NEW c \in Callers, CallerStep(c) PROVE UNCHANGED status
    BY <2>2 DEF CallerStep, Connect, TryConnect, RequestConnection, SpawnTask,
       RegisterWait, ExamineResult, AwaitResult, GiveUp, EnsureOperational, WakeUp,
       AddSubscription, RemoveSubscription
  <2>3. CASE TaskStep
    BY <2>1, <2>3 DEF TaskStep, NextConnection, Notified, StillCurrent, Superseded,
       RetryElapsed, BeginConnection, CheckPolicy, DialSucceeds, DialFails,
       AcceptConnection, ConnectionFailed, Restored, SessionEnds, ShouldSleep,
       GoToSleep, ScheduleReconnect, TaskAborted, IsCurrent
  <2>4. CASE IdleElapses \/ AbortHandle \/ UNCHANGED vars
    BY <2>4 DEF IdleElapses, AbortHandle, vars
  <2>5. ASSUME NEW s \in {"Idle", "Banned", "Shutdown"}
        PROVE  ~StopConnection(s)
    BY DEF StopConnection
  <2> QED
    BY <2>2, <2>3, <2>4, <2>5 DEF Next
<1> QED
  BY <1>1, ConnectionInvariant, PTL DEF Spec, TerminalIsForever

(* The result a waiter may have read is never replaced.                    *)
THEOREM ResultsAreFinal == Spec => ResultIsFinal
<1>1. TypeOK /\ [Next]_vars
        => \A a \in Attempts : Held(a) /\ result[a] # "pending" => result'[a] = result[a]
  <2> SUFFICES ASSUME TypeOK, [Next]_vars,
                      NEW a \in Attempts, Held(a), result[a] # "pending"
               PROVE  result'[a] = result[a]
    OBVIOUS
  <2> USE DEF TypeOK, state
  <2>1. ASSUME NEW c \in Callers, CallerStep(c) PROVE result'[a] = result[a]
    BY <2>1 DEF CallerStep, Connect, TryConnect, RequestConnection, NewAttempt, SpawnTask,
       RegisterWait, ExamineResult, AwaitResult, GiveUp, EnsureOperational, WakeUp,
       AddSubscription, RemoveSubscription
  <2>2. CASE ConnectionFailed \/ ScheduleReconnect
    BY <2>2 DEF ConnectionFailed, ScheduleReconnect, NewAttempt, Finished
  <2>3. CASE TaskStep /\ ~ConnectionFailed /\ ~ScheduleReconnect
    BY <2>3 DEF TaskStep, NextConnection, Notified, StillCurrent, Superseded,
       RetryElapsed, BeginConnection, CheckPolicy, DialSucceeds, DialFails,
       AcceptConnection, Restored, SessionEnds, ShouldSleep, GoToSleep, TaskAborted,
       Finished
  <2>4. CASE IdleElapses \/ AbortHandle \/ UNCHANGED vars
    BY <2>4 DEF IdleElapses, AbortHandle, vars
  <2>5. ASSUME NEW s \in {"Idle", "Banned", "Shutdown"}, StopConnection(s)
        PROVE  result'[a] = result[a]
    BY <2>5 DEF StopConnection, Finished
  <2> QED
    BY <2>1, <2>2, <2>3, <2>4, <2>5 DEF Next
<1> QED
  BY <1>1, TypeCorrect, PTL DEF Spec, ResultIsFinal

\* The refinement mapping of RelayConnection!Lifecycle.
Answer == [c \in Callers |->
             IF joined[c] = NoAttempt THEN "none" ELSE result[joined[c]]]

(* A step that keeps the status, the attempts held by callers and their    *)
(* results is a stutter of the lifecycle.                                  *)
LEMMA AnswersKept ==
    ASSUME TypeOK, UNCHANGED joined,
           \A c \in Callers : joined[c] # NoAttempt => result'[joined[c]] = result[joined[c]]
    PROVE  Answer' = Answer
BY DEF Answer, TypeOK

(* Finishing the current attempt answers exactly the pending callers.      *)
LEMMA AnswersDelivered ==
    ASSUME TypeOK, ResultsMatchStatus, UNCHANGED joined, NEW outcome \in {"ok", "err"},
           \A c \in Callers : joined[c] # NoAttempt =>
              result'[joined[c]] = IF joined[c] = attempt /\ result[attempt] = "pending"
                                   THEN outcome ELSE result[joined[c]]
    PROVE  Lifecycle!Deliver(outcome)
<1>1. ASSUME NEW c \in Callers
      PROVE  (IF joined'[c] = NoAttempt THEN "none" ELSE result'[joined'[c]]) =
               IF (IF joined[c] = NoAttempt THEN "none" ELSE result[joined[c]]) = "pending"
               THEN outcome
               ELSE (IF joined[c] = NoAttempt THEN "none" ELSE result[joined[c]])
  BY DEF TypeOK, ResultsMatchStatus
<1> QED
  BY <1>1 DEF Lifecycle!Deliver

(* The callers' steps: join, leave, request, or nothing.                   *)
LEMMA RefinesCaller ==
    ASSUME ConnectionInv, NEW c \in Callers, CallerStep(c)
    PROVE  Lifecycle!Next \/ UNCHANGED (Lifecycle!vars)
<1> USE NoAttemptAssumption DEF ConnectionInv, Kinds
<1>0. ASSUME NEW k \in Kinds, RequestConnection(c, k)
      PROVE  /\ attempt' \in Attempts /\ result'[attempt'] = "pending"
             /\ status \in Lifecycle!CanConnect \union {"Connecting", "Disconnected"}
             /\ status' = IF status \in Lifecycle!CanConnect THEN "Connecting" ELSE status
             /\ \A d \in Callers : joined[d] # NoAttempt =>
                   result'[joined[d]] = result[joined[d]]
  <2>1. CASE attempt = NoAttempt
    BY <1>0, <2>1 DEF RequestConnection, NewAttempt, Held, TypeOK, StatusMatchesSession,
       Status, Terminal, Lifecycle!CanConnect
  <2>2. CASE attempt # NoAttempt
    BY <1>0, <2>2 DEF RequestConnection, TypeOK, StatusMatchesSession, ResultsMatchStatus,
       Terminal, Lifecycle!CanConnect, state
  <2> QED BY <2>1, <2>2
<1>1. CASE \/ Connect(c)
           \/ WakeUp(c) /\ RequestConnection(c, "Background")
  <2>1. RequestConnection(c, "Background") /\ UNCHANGED joined
    BY <1>1 DEF Connect, WakeUp
  <2>2. Answer' = Answer
    BY <2>1, <1>0, AnswersKept
  <2> QED
    BY <2>1, <2>2, <1>0 DEF Answer, Lifecycle!Next, Lifecycle!Request, Lifecycle!vars
<1>2. CASE TryConnect(c)
  <2>1. /\ RequestConnection(c, "WaitForResult") /\ caller[c] = "ready"
        /\ joined' = [joined EXCEPT ![c] = attempt']
    BY <1>2 DEF TryConnect
  <2>2. joined[c] = NoAttempt
    BY <2>1 DEF TypeOK, CallersShape
  <2>3. Answer' = [Answer EXCEPT ![c] = "pending"] /\ Answer[c] = "none"
    BY <2>1, <2>2, <1>0 DEF Answer, TypeOK
  <2>4. Lifecycle!Join(c)
    BY <2>1, <2>3, <1>0 DEF Answer, Lifecycle!Join
  <2> QED BY <2>4 DEF Lifecycle!Next
<1>3. CASE GiveUp(c) \/ ExamineResult(c)
  <2>1. CASE joined' = [joined EXCEPT ![c] = NoAttempt]
    <3>1. joined[c] \in Attempts /\ UNCHANGED <<status, result>>
      BY <1>3 DEF GiveUp, ExamineResult, TypeOK, CallersShape, state
    <3>2. Answer' = [Answer EXCEPT ![c] = "none"] /\ Answer[c] # "none"
      BY <2>1, <3>1 DEF Answer, TypeOK
    <3>3. Lifecycle!Leave(c)
      BY <3>1, <3>2 DEF Answer, Lifecycle!Leave
    <3> QED BY <3>3 DEF Lifecycle!Next
  <2>2. CASE UNCHANGED joined
    BY <1>3, <2>2 DEF GiveUp, ExamineResult, state, Lifecycle!vars
  <2> QED
    BY <1>3, <2>1, <2>2 DEF GiveUp, ExamineResult
<1>4. CASE \/ SpawnTask(c) \/ RegisterWait(c) \/ AwaitResult(c)
           \/ EnsureOperational(c) \/ AddSubscription(c) \/ RemoveSubscription(c)
           \/ WakeUp(c) /\ ~RequestConnection(c, "Background")
  BY <1>4 DEF SpawnTask, RegisterWait, AwaitResult, EnsureOperational, AddSubscription,
     RemoveSubscription, WakeUp, state, Lifecycle!vars
<1> QED
  BY <1>1, <1>2, <1>3, <1>4 DEF CallerStep

(* The task's steps: retry, establish, fail, lose, sleep, or nothing.      *)
LEMMA RefinesTask ==
    ASSUME ConnectionInv, TaskStep
    PROVE  Lifecycle!Next \/ UNCHANGED (Lifecycle!vars)
<1> USE NoAttemptAssumption DEF ConnectionInv
<1>a. UNCHANGED joined
  BY DEF TaskStep, NextConnection, Notified, StillCurrent, Superseded, RetryElapsed,
         BeginConnection, CheckPolicy, DialSucceeds, DialFails, AcceptConnection,
         ConnectionFailed, Restored, SessionEnds, ShouldSleep, GoToSleep,
         ScheduleReconnect, TaskAborted, users
<1>1. CASE BeginConnection
  BY <1>1, <1>a DEF BeginConnection, PhaseMatchesStatus, Lifecycle!Next, Lifecycle!Retry,
     Lifecycle!vars
<1>2. CASE AcceptConnection
  <2>1. CASE ~IsCurrent
    BY <1>2, <2>1, <1>a DEF AcceptConnection, Lifecycle!vars
  <2>2. CASE IsCurrent
    <3>1. /\ status = "Connecting" /\ status' = "Connected" /\ mine = attempt
          /\ result' = Finished(attempt, "ok")
      BY <1>2, <2>2 DEF AcceptConnection, PhaseMatchesStatus, IsCurrent
    <3>2. \A c \in Callers : joined[c] # NoAttempt =>
             result'[joined[c]] = IF joined[c] = attempt /\ result[attempt] = "pending"
                                  THEN "ok" ELSE result[joined[c]]
      BY <3>1 DEF Finished, TypeOK
    <3>3. Lifecycle!Deliver("ok")
      BY <3>2, <1>a, AnswersDelivered
    <3> QED BY <3>1, <3>3 DEF Lifecycle!Next, Lifecycle!Establish
  <2> QED BY <2>1, <2>2
<1>3. CASE ConnectionFailed
  <2>1. CASE ~IsCurrent
    BY <1>3, <2>1, <1>a DEF ConnectionFailed, state, Lifecycle!vars
  <2>2. CASE IsCurrent
    <3>0. status' = "Idle" \/ (status' = "Disconnected" /\ Reconnect)
      BY <1>3, <2>2 DEF ConnectionFailed
    <3>1. status = "Connecting" /\ mine = attempt /\ attempt # NoAttempt
      BY <1>3, <2>2 DEF ConnectionFailed, PhaseMatchesStatus, IsCurrent
    <3>2. \A c \in Callers : joined[c] # NoAttempt =>
             result'[joined[c]] = IF joined[c] = attempt /\ result[attempt] = "pending"
                                  THEN "err" ELSE result[joined[c]]
      BY <1>3, <2>2, <3>1 DEF ConnectionFailed, NewAttempt, Held, Finished, TypeOK
    <3>3. Lifecycle!Deliver("err")
      BY <3>2, <1>a, AnswersDelivered
    <3> QED BY <3>0, <3>1, <3>3 DEF Lifecycle!Next, Lifecycle!Fail
  <2> QED BY <2>1, <2>2
<1>4. CASE GoToSleep
  BY <1>4, <1>a DEF GoToSleep, StatusMatchesSession, WithSocket, Lifecycle!Next,
     Lifecycle!Sleep, Lifecycle!vars
<1>5. CASE ScheduleReconnect
  <2>1. CASE ~IsCurrent
    BY <1>5, <2>1, <1>a DEF ScheduleReconnect, state, Lifecycle!vars
  <2>2. CASE IsCurrent
    <3>1. /\ status = "Connected"
          /\ status' = IF Reconnect THEN "Disconnected" ELSE "Idle"
      BY <1>5, <2>2 DEF ScheduleReconnect, StatusMatchesSession, WithSocket
    <3>2. \A c \in Callers : joined[c] # NoAttempt =>
             result'[joined[c]] = result[joined[c]]
      BY <1>5, <2>2 DEF ScheduleReconnect, NewAttempt, Held, TypeOK
    <3>3. Answer' = Answer
      BY <3>2, <1>a, AnswersKept
    <3> QED BY <3>1, <3>3 DEF Answer, Lifecycle!Next, Lifecycle!Lose
  <2> QED BY <2>1, <2>2
<1>6. CASE UNCHANGED <<status, result>>
  BY <1>6, <1>a DEF Lifecycle!vars
<1> QED
  BY <1>1, <1>2, <1>3, <1>4, <1>5, <1>6
  DEF TaskStep, NextConnection, Notified, StillCurrent, Superseded, RetryElapsed,
      CheckPolicy, DialSucceeds, DialFails, Restored, SessionEnds, ShouldSleep,
      TaskAborted, state

(* Every step of the relay is a step of its lifecycle or a stutter: the    *)
(* task, the attempts and the notifications add nothing a caller could see.*)
THEOREM ConnectionRefinesLifecycle == Spec => ImplementsTransitions
<1>1. Init => Lifecycle!Init
  BY DEF Init, Lifecycle!Init
<1>2. ConnectionInv /\ [Next]_vars => [Lifecycle!Next]_(Lifecycle!vars)
  <2> SUFFICES ASSUME ConnectionInv, [Next]_vars
               PROVE  Lifecycle!Next \/ UNCHANGED (Lifecycle!vars)
    OBVIOUS
  <2>1. CASE \E c \in Callers : CallerStep(c)
    BY <2>1, RefinesCaller
  <2>2. CASE TaskStep
    BY <2>2, RefinesTask
  <2>3. CASE IdleElapses \/ AbortHandle \/ UNCHANGED vars
    BY <2>3 DEF IdleElapses, AbortHandle, vars, state, users,
                Lifecycle!vars
  <2>4. ASSUME NEW s \in {"Idle", "Banned", "Shutdown"}, StopConnection(s)
        PROVE  Lifecycle!Next
    <3>1. /\ status \notin Lifecycle!Terminal /\ UNCHANGED joined
          /\ status' \in Lifecycle!Terminal \union {"Idle"}
          /\ result' = Finished(attempt, "err")
      BY <2>4 DEF StopConnection, Terminal, Lifecycle!Terminal
    <3>2. \A c \in Callers : joined[c] # NoAttempt =>
             result'[joined[c]] = IF joined[c] = attempt /\ result[attempt] = "pending"
                                  THEN "err" ELSE result[joined[c]]
      BY <3>1 DEF Finished, ConnectionInv, TypeOK
    <3>3. Lifecycle!Deliver("err")
      BY <3>1, <3>2, AnswersDelivered DEF ConnectionInv
    <3> QED BY <3>1, <3>3 DEF Lifecycle!Next, Lifecycle!Stop
  <2> QED BY <2>1, <2>2, <2>3, <2>4 DEF Next
<1> QED
  BY <1>1, <1>2, ConnectionInvariant, PTL DEF Spec, ImplementsTransitions
=============================================================================
