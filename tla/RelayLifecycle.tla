--------------------------- MODULE RelayLifecycle ---------------------------
(***************************************************************************)
(* What a relay promises to its callers about its connection: a status     *)
(* that moves along the documented graph (relay/status.rs), and, for every *)
(* caller of try_connect, one answer that agrees with what happened to the *)
(* connection.  There is no connection task, no dial and no attempt here.  *)
(***************************************************************************)
CONSTANTS
    Callers,    \* the tasks that call connect and try_connect
    Reconnect   \* RelayOptions::reconnect

VARIABLES
    status,     \* RelayStatus
    answer      \* per caller: what its try_connect knows so far

vars == <<status, answer>>

Status == {"Initialized", "Connecting", "Connected", "Disconnected",
           "Idle", "Banned", "Sleeping", "Shutdown"}

Terminal   == {"Banned", "Shutdown"}
CanConnect == {"Initialized", "Idle", "Sleeping"}
Answers    == {"none", "pending", "ok", "err"}

TypeOK == /\ status \in Status
          /\ answer \in [Callers -> Answers]

Init == /\ status = "Initialized"
        /\ answer = [c \in Callers |-> "none"]

(***************************************************************************)
(* Every caller that shares the attempt in progress learns its outcome in  *)
(* the same step.                                                          *)
(***************************************************************************)
Deliver(outcome) ==
    answer' = [c \in Callers |->
                 IF answer[c] = "pending" THEN outcome ELSE answer[c]]

\* connect() or a woken relay: a connection is now being established.
Request == /\ status \in CanConnect
           /\ status' = "Connecting"
           /\ UNCHANGED answer

\* try_connect() joins the connection being established, or starts one.
Join(c) == /\ answer[c] = "none"
           /\ status \in CanConnect \union {"Connecting", "Disconnected"}
           /\ status' = IF status \in CanConnect THEN "Connecting" ELSE status
           /\ answer' = [answer EXCEPT ![c] = "pending"]

\* The caller received its answer, or stopped waiting for it.
Leave(c) == /\ answer[c] # "none"
            /\ answer' = [answer EXCEPT ![c] = "none"]
            /\ UNCHANGED status

Retry == /\ status = "Disconnected"
         /\ status' = "Connecting"
         /\ UNCHANGED answer

Establish == /\ status = "Connecting"
             /\ status' = "Connected"
             /\ Deliver("ok")

Fail == /\ status = "Connecting"
        /\ status' \in {"Idle"} \union (IF Reconnect THEN {"Disconnected"} ELSE {})
        /\ Deliver("err")

Lose == /\ status = "Connected"
        /\ status' = IF Reconnect THEN "Disconnected" ELSE "Idle"
        /\ UNCHANGED answer

Sleep == /\ status = "Connected"
         /\ status' = "Sleeping"
         /\ UNCHANGED answer

Stop == /\ status \notin Terminal
        /\ status' \in Terminal \union {"Idle"}
        /\ Deliver("err")

Next == \/ Request \/ Retry \/ Establish \/ Fail \/ Lose \/ Sleep \/ Stop
        \/ \E c \in Callers : Join(c) \/ Leave(c)

\* A scheduled retry starts, and a dial in progress ends (it has a deadline).
Fairness == WF_vars(Retry) /\ WF_vars(Establish \/ Fail)

Spec == Init /\ [][Next]_vars /\ Fairness

-----------------------------------------------------------------------------
(* A caller still waiting for its answer waits for a connection that is    *)
(* being established or is scheduled: nobody waits on a relay that is      *)
(* idle, asleep, stopped or already connected.                             *)
WaitsForSomething ==
    \A c \in Callers :
        answer[c] = "pending" => status \in {"Connecting", "Disconnected"}

(* "The connection failed, but another attempt will occur soon."           *)
DisconnectedIsTransient == status = "Disconnected" ~> status # "Disconnected"
=============================================================================
