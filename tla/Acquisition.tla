---------------------------- MODULE Acquisition -----------------------------
(***************************************************************************)
(* One bounded acquisition on one relay (relay/api/acquire_events.rs) and  *)
(* the auto-closing subscription under it (spawn_auto_closing_handler and  *)
(* handle_auto_closing of relay/inner.rs).  Four tasks work on it:         *)
(*   - the collector (acquire_inner) registers the subscription, sends the *)
(*     REQ and then gathers events within its budgets until an end;        *)
(*   - the receiver counts every raw EVENT, validates it and broadcasts    *)
(*     the valid ones;                                                     *)
(*   - the handler follows the broadcast, decides when the exit policy is  *)
(*     satisfied, and feeds the collector through a one-item channel;      *)
(*   - the setup guard cleans up when the collector leaves before there is *)
(*     a handler.                                                          *)
(* The receiver tells the collector directly (terminal.notify_one) that a  *)
(* budget is exhausted or input was lost; the collector then drains what   *)
(* was validated before.  One action is one step between two awaits.       *)
(*                                                                         *)
(* An event is its serialized length.  The relay is not trusted to follow  *)
(* NIP-01: once it knows the ID it may send any frame.                     *)
(***************************************************************************)
EXTENDS Naturals, Sequences, FiniteSets

CONSTANTS
    Events,         \* events the relay may send: their lengths in bytes
    MaxItems,       \* AcquisitionLimits::max_items
    MaxBytes,       \* AcquisitionLimits::max_event_bytes
    ExitEvents,     \* the number of events in the exit policies that count
    Policies,       \* exit policies a caller may choose
    Capacity,       \* of the notification channel of the relay
    MaxFrames,      \* bound of the model: frames received
    MaxSessions,    \* bound of the model: sessions
    MaxAuths        \* bound of the model: outcomes of NIP-42

AllPolicies == {"ExitOnEOSE", "WaitForEvents", "WaitForEventsAfterEOSE",
                "WaitDurationAfterEOSE"}

ASSUME EventsAssumption == Events \subseteq Nat \ {0}
ASSUME LimitsAssumption == MaxItems \in Nat \ {0} /\ MaxBytes \in Nat \ {0}
ASSUME PolicyAssumption == Policies \subseteq AllPolicies /\ ExitEvents \in Nat
ASSUME BoundsAssumption == Capacity \in Nat \ {0} /\ MaxFrames \in Nat
                           /\ MaxSessions \in Nat /\ MaxAuths \in Nat

VARIABLES
    policy,         \* the exit policy of the request
    cancelled,      \* the caller's cancellation signal
    cpc, result, draining,  \* the collector, its RelayAcquisition, raw_terminal
    raw, terminal,  \* RawEvidence, and the permit of its Notify
    rpc, frame,     \* the receiver and the EVENT it validates
    h,              \* the handler's locals
    notes, lagged,  \* its broadcast receiver; notifications were overwritten
    activity,       \* the one-item channel from the handler to the collector
    registered,     \* the ID is in AtomicRelay::subscriptions
    guard,          \* the cleanup spawned by SetupGuard
    connected, serving,     \* the status is Connected; a session is served
    out, open, known,       \* outbound queue; the relay has the REQ; has seen the ID
    frames, sessions, auths \* counters of the model's bounds

evidence == <<raw, terminal>>
caller   == <<policy, cancelled>>
collector == <<cpc, result, draining>>
receiver == <<rpc, frame>>
channel  == <<notes, lagged>>
link     == <<connected, serving, open, known, sessions>>
bounds   == <<frames, auths>>
vars     == <<policy, cancelled, cpc, result, draining, raw, terminal, rpc, frame, h,
              notes, lagged, activity, registered, guard, connected, serving, out, open,
              known, frames, sessions, auths>>

Nothing == 0

\* AcquisitionEnd; ReceiverClosed cannot happen: the relay outlives its
\* acquisitions, and the handler always reports unless it was cancelled.
Ends == {"Completed", "ExitLimitReached", "ItemBudgetExceeded", "ByteBudgetExceeded",
         "Cancelled", "TimedOut", "Disconnected", "ReceiveLoss", "InvalidMessage",
         "AuthenticationFailed", "Rejected", "RelayClosed", "Failed"}

ClosedReasons == {"none", "blocked", "rate-limited", "auth-required"}

Note(type, arg) == [type |-> type, arg |-> arg]

NewHandler == [pc |-> "none", hasRaw |-> FALSE, hand |-> Nothing, reason |-> "none",
               toClose |-> FALSE, eose |-> FALSE, count |-> 0, resubscribe |-> FALSE]

Listening == {"listening", "sending", "resending", "grace"}

TypeOK ==
    /\ policy \in AllPolicies /\ cancelled \in BOOLEAN
    /\ cpc \in {"new", "registering", "registered", "collecting", "done", "dropped"}
    /\ result.events \subseteq Events
    /\ result.end \in Ends \union {"none"} /\ (result.end # "none" <=> cpc = "done")
    /\ {result.received, result.bytes, result.items, result.duplicates} \subseteq Nat
    /\ draining \in BOOLEAN /\ terminal \in BOOLEAN
    /\ raw.phase \in {"Active", "Exhausted", "ExhaustedValid"}
    /\ raw.closed \in BOOLEAN /\ raw.rejected \in BOOLEAN
    /\ raw.items \in Nat /\ raw.forwarded \in Nat
    /\ rpc \in {"idle", "validating", "forwarded", "processed"}
    /\ frame \in Events \union {Nothing} /\ (frame = Nothing <=> rpc = "idle")
    /\ h.pc \in Listening \union {"none", "lookup", "ending", "reporting", "closing",
                                  "removing", "ended"}
    /\ h.hand \in Events \union {Nothing} /\ (h.hand # Nothing <=> h.pc = "sending")
    /\ h.reason \in Ends \union {"none"}
    /\ Len(notes) <= Capacity /\ lagged \in BOOLEAN /\ Len(activity) <= 1
    /\ registered \in BOOLEAN /\ guard \in {"none", "remove", "close", "ended"}
    /\ connected \in BOOLEAN /\ serving \in BOOLEAN
    /\ out \in Seq({"REQ", "CLOSE"})

Init ==
    /\ policy \in Policies /\ cancelled = FALSE
    /\ cpc = "new" /\ draining = FALSE
    /\ result = [events |-> {}, end |-> "none", received |-> 0, bytes |-> 0,
                 duplicates |-> 0, items |-> 0]
    /\ raw = [phase |-> "Active", closed |-> FALSE, items |-> 0, forwarded |-> 0,
              rejected |-> FALSE]
    /\ terminal = FALSE
    /\ rpc = "idle" /\ frame = Nothing
    /\ h = NewHandler
    /\ notes = <<>> /\ lagged = FALSE /\ activity = <<>>
    /\ registered = FALSE /\ guard = "none"
    /\ connected = TRUE /\ serving = TRUE
    /\ out = <<>> /\ open = FALSE /\ known = FALSE
    /\ frames = 0 /\ sessions = 1 /\ auths = 0

-----------------------------------------------------------------------------
(* The notification channel                                                *)

\* The broadcast receiver made before the registration exists: it is moved
\* from the collector into the handler.
Subscribed == cpc \in {"registering", "registered"} \/ h.pc \in Listening \union {"lookup"}

\* send_notification: a full channel overwrites its oldest entry.
Broadcast(n) ==
    IF ~Subscribed THEN UNCHANGED channel
    ELSE IF Len(notes) < Capacity THEN notes' = Append(notes, n) /\ UNCHANGED lagged
    ELSE notes' = Append(Tail(notes), n) /\ lagged' = TRUE

-----------------------------------------------------------------------------
(* The collector                                                           *)

CollectorGone == cpc \in {"done", "dropped"}

\* mutant: finish leaves the evidence open
Finish_KeepsOpen(res, end) ==
    /\ cpc' = "done"
    /\ result' = [res EXCEPT !.items = raw.items, !.end = end]
    /\ UNCHANGED raw

\* finish: lost input and exhausted budgets overrule an end that would tell
\* the caller it has everything; the evidence is frozen.
Finish(res, end) ==
    /\ cpc' = "done"
    /\ result' = [res EXCEPT !.items = raw.items,
                    !.end = IF (raw.rejected \/ raw.phase # "Active")
                               /\ end \in {"Completed", "ExitLimitReached"}
                            THEN IF raw.rejected THEN "InvalidMessage" ELSE "ItemBudgetExceeded"
                            ELSE end]
    /\ raw' = [raw EXCEPT !.closed = TRUE]

\* The receiver of the notifications is subscribed, then the registration
\* waits for the lock of the subscriptions.
Begin ==
    /\ cpc = "new" /\ ~cancelled
    /\ cpc' = "registering"
    /\ UNCHANGED <<caller, result, draining, evidence, receiver, h, channel, activity,
                   registered, guard, link, out, bounds>>

Register ==
    /\ cpc = "registering" /\ ~cancelled
    /\ cpc' = "registered" /\ registered' = TRUE
    /\ UNCHANGED <<caller, result, draining, evidence, receiver, h, channel, activity,
                   guard, link, out, bounds>>

\* The REQ is queued and the handler spawned; the guard is disarmed.
SendReq ==
    /\ cpc = "registered" /\ ~cancelled
    /\ out' = Append(out, "REQ")
    /\ cpc' = "collecting" /\ h' = [h EXCEPT !.pc = "lookup"]
    /\ UNCHANGED <<caller, result, draining, evidence, receiver, channel, activity,
                   registered, guard, link, bounds>>

\* mutant: the setup has no guard
AbandonSetup_NoGuard ==
    /\ IF cpc \in {"new", "registering", "registered"}
       THEN notes' = <<>> /\ lagged' = FALSE ELSE UNCHANGED channel
    /\ UNCHANGED guard

\* What the drop of the collector's locals starts before there is a handler:
\* the notification receiver goes and an armed SetupGuard spawns its cleanup.
AbandonSetup ==
    /\ IF cpc \in {"new", "registering", "registered"}
       THEN notes' = <<>> /\ lagged' = FALSE ELSE UNCHANGED channel
    /\ guard' = IF cpc = "registered" THEN "remove" ELSE guard

\* A select of acquire_inner is left through its first branches, or the REQ is
\* refused (ensure_operational, a full queue).
Interrupted(end) ==
    /\ cpc \in {"new", "registering", "registered", "collecting"}
    /\ \/ end = "Cancelled" /\ cancelled
       \/ end = "TimedOut" /\ ~cancelled /\ cpc # "new"
       \/ end = "Failed" /\ ~cancelled /\ cpc = "registered"
    /\ AbandonSetup
    /\ Finish(result, end)
    /\ UNCHANGED <<caller, draining, terminal, receiver, h, activity, registered, link,
                   out, bounds>>

\* The handle is dropped: the future of the collector is aborted at an await.
DropCollector ==
    /\ ~CollectorGone
    /\ AbandonSetup
    /\ cpc' = "dropped"
    /\ UNCHANGED <<caller, result, draining, evidence, receiver, h, activity, registered,
                   link, out, bounds>>

\* mutant: the last validated event is not waited for
Drained_Early(received) == received + 1 >= raw.forwarded

Drained(received) == received >= raw.forwarded

TerminalEnd == IF raw.rejected THEN "InvalidMessage" ELSE "ItemBudgetExceeded"

\* raw.terminal.notified(): before ending, drain what was validated earlier.
RawTerminal ==
    /\ cpc = "collecting" /\ ~cancelled /\ terminal /\ ~draining
    /\ terminal' = FALSE /\ draining' = TRUE
    /\ IF Drained(result.received)
       THEN Finish(result, TerminalEnd)
       ELSE UNCHANGED <<cpc, result, raw>>
    /\ UNCHANGED <<caller, receiver, h, channel, activity, registered, guard, link, out, bounds>>

\* accept_event counts the event, and keeps it if it is within both budgets.
Counted(e) ==
    [result EXCEPT !.received = @ + 1, !.bytes = @ + e]

Kept(res, e) ==
    [res EXCEPT !.events = @ \union {e},
                !.duplicates = IF e \in res.events THEN @ + 1 ELSE @]

\* item_budget: this is the event that overflowed the raw budget.
OverflowEvent == raw.phase = "ExhaustedValid" /\ result.received + 1 >= raw.forwarded

\* The biased select: the other branches come first.
CollectorListens == cpc = "collecting" /\ ~cancelled /\ (terminal => draining)

\* mutant: the limits are compared before the event is counted
CollectEvent_ChecksBefore ==
    /\ CollectorListens
    /\ activity # <<>> /\ Head(activity).type = "EVENT"
    /\ activity' = Tail(activity)
    /\ LET e   == Head(activity).arg
           res == Counted(e)
       IN  IF result.received > MaxItems
           THEN Finish(res, "ItemBudgetExceeded")
           ELSE IF result.bytes > MaxBytes
           THEN Finish(res, "ByteBudgetExceeded")
           ELSE IF draining /\ Drained(res.received)
           THEN Finish(Kept(res, e), TerminalEnd)
           ELSE result' = Kept(res, e) /\ UNCHANGED <<cpc, raw>>
    /\ UNCHANGED <<caller, draining, terminal, receiver, h, channel, registered, guard, link,
                   out, bounds>>

CollectEvent ==
    /\ CollectorListens
    /\ activity # <<>> /\ Head(activity).type = "EVENT"
    /\ activity' = Tail(activity)
    /\ LET e   == Head(activity).arg
           res == Counted(e)
       IN  IF OverflowEvent \/ res.received > MaxItems
           THEN Finish(res, "ItemBudgetExceeded")
           ELSE IF res.bytes > MaxBytes
           THEN Finish(res, "ByteBudgetExceeded")
           ELSE IF draining /\ Drained(res.received)
           THEN Finish(Kept(res, e), TerminalEnd)
           ELSE result' = Kept(res, e) /\ UNCHANGED <<cpc, raw>>
    /\ UNCHANGED <<caller, draining, terminal, receiver, h, channel, registered, guard, link,
                   out, bounds>>

CollectClosed ==
    /\ CollectorListens
    /\ activity # <<>> /\ Head(activity).type = "CLOSED"
    /\ activity' = Tail(activity)
    /\ Finish(result, Head(activity).arg)
    /\ UNCHANGED <<caller, draining, terminal, receiver, h, channel, registered, guard, link,
                   out, bounds>>

Cancel ==
    /\ ~cancelled /\ ~CollectorGone
    /\ cancelled' = TRUE
    /\ UNCHANGED <<policy, collector, evidence, receiver, h, channel, activity, registered,
                   guard, link, out, bounds>>

\* The task spawned by the drop of SetupGuard.
GuardRemoves ==
    /\ guard = "remove"
    /\ guard' = "close" /\ registered' = FALSE
    /\ UNCHANGED <<caller, collector, evidence, receiver, h, channel, activity, link, out, bounds>>

\* The CLOSE is refused like any message.
GuardCloses ==
    /\ guard = "close"
    /\ guard' = "ended"
    /\ out' \in {out, Append(out, "CLOSE")}
    /\ UNCHANGED <<caller, collector, evidence, receiver, h, channel, activity, registered,
                   link, bounds>>

-----------------------------------------------------------------------------
(* The receiver of the session: one frame after the other                  *)

CanReceive == serving /\ known /\ rpc = "idle" /\ frames < MaxFrames

\* record: an EVENT of the ID is counted before it is validated, until the
\* evidence is closed or its phase left Active.
RecordEvent(e) ==
    /\ CanReceive
    /\ frames' = frames + 1
    /\ IF registered /\ ~raw.closed /\ raw.phase = "Active" /\ ~raw.rejected
       THEN /\ raw' = [raw EXCEPT !.items = @ + 1,
                         !.phase = IF raw.items + 1 > MaxItems THEN "Exhausted" ELSE @]
            /\ rpc' = "validating" /\ frame' = e
       ELSE UNCHANGED <<raw, receiver>>
    /\ UNCHANGED <<caller, collector, terminal, h, channel, activity, registered, guard, link,
                   out, auths>>

\* The event is valid: forward counts it as on its way to the collector.
Forward ==
    /\ rpc = "validating"
    /\ rpc' = "forwarded"
    /\ raw' = IF raw.closed \/ raw.phase = "ExhaustedValid" THEN raw
              ELSE [raw EXCEPT !.forwarded = @ + 1,
                      !.phase = IF @ = "Exhausted" THEN "ExhaustedValid" ELSE @]
    /\ UNCHANGED <<caller, collector, terminal, frame, h, channel, activity, registered, guard,
                   link, out, bounds>>

\* mutant: an overflow by an invalid event is not told
Processed_ValidOnly == terminal' = (terminal \/ raw.phase = "ExhaustedValid")

\* processed, by the drop of RawFrame.
Processed == terminal' = (terminal \/ raw.phase # "Active")

\* The event is too large, expired, invalid, not admitted or deleted, its
\* filter does not match, or the subscription is gone by now.
RejectEvent ==
    /\ rpc = "validating"
    /\ Processed
    /\ rpc' = "idle" /\ frame' = Nothing
    /\ UNCHANGED <<caller, collector, raw, h, channel, activity, registered, guard, link, out,
                   bounds>>

FrameProcessed ==
    /\ rpc = "forwarded"
    /\ Processed
    /\ rpc' = "processed"
    /\ UNCHANGED <<caller, collector, raw, frame, h, channel, activity, registered, guard, link,
                   out, bounds>>

NotifyEvent ==
    /\ rpc = "processed"
    /\ Broadcast(Note("EVENT", frame))
    /\ rpc' = "idle" /\ frame' = Nothing
    /\ UNCHANGED <<caller, collector, evidence, h, activity, registered, guard, link, out, bounds>>

\* A frame that cannot be parsed and may have been this request's input.
RejectInput ==
    /\ CanReceive /\ registered /\ ~raw.closed /\ ~raw.rejected
    /\ frames' = frames + 1
    /\ raw' = [raw EXCEPT !.rejected = TRUE]
    /\ terminal' = TRUE
    /\ UNCHANGED <<caller, collector, receiver, h, channel, activity, registered, guard, link,
                   out, auths>>

\* mutant: EOSE leaves the evidence open
ReceiveEose_KeepsOpen ==
    /\ CanReceive
    /\ frames' = frames + 1
    /\ Broadcast(Note("EOSE", "none"))
    /\ UNCHANGED <<caller, collector, evidence, receiver, h, activity, registered, guard, link,
                   out, auths>>

\* EOSE closes the evidence if the policy exits on it, then it is broadcast.
ReceiveEose ==
    /\ CanReceive
    /\ frames' = frames + 1
    /\ raw' = [raw EXCEPT !.closed = @ \/ (registered /\ policy = "ExitOnEOSE")]
    /\ Broadcast(Note("EOSE", "none"))
    /\ UNCHANGED <<caller, collector, terminal, receiver, h, activity, registered, guard, link,
                   out, auths>>

\* A CLOSED removes the registration, unless a restoration may follow.
ReceiveClosed(reason) ==
    /\ CanReceive
    /\ frames' = frames + 1
    /\ registered' = (registered /\ reason \in {"rate-limited", "auth-required"})
    /\ open' = FALSE
    /\ Broadcast(Note("CLOSED", reason))
    /\ UNCHANGED <<caller, collector, evidence, receiver, h, activity, guard, connected,
                   serving, known, sessions, out, auths>>

-----------------------------------------------------------------------------
(* The session                                                             *)

\* The sender writes the next message.
SendWsMsg ==
    /\ connected /\ serving /\ out # <<>>
    /\ out' = Tail(out)
    /\ open' = (Head(out) = "REQ")
    /\ known' = (known \/ Head(out) = "REQ")
    /\ UNCHANGED <<caller, collector, evidence, receiver, h, channel, activity, registered,
                   guard, connected, serving, sessions, bounds>>

\* disconnect, a ban, or schedule_reconnect: the status changes first or last.
LoseConnection ==
    /\ connected
    /\ connected' = FALSE
    /\ Broadcast(Note("Disconnected", "none"))
    /\ UNCHANGED <<caller, collector, evidence, receiver, h, activity, registered, guard,
                   serving, open, known, sessions, out, bounds>>

\* The receiver's future is dropped, with the RawFrame of a frame it was
\* validating; there is no await between forward and send_notification.
SessionEnds ==
    /\ serving /\ rpc \in {"idle", "validating"}
    /\ serving' = FALSE /\ open' = FALSE
    /\ rpc' = "idle" /\ frame' = Nothing
    /\ IF rpc = "validating" THEN Processed ELSE UNCHANGED terminal
    /\ UNCHANGED <<caller, collector, raw, h, channel, activity, registered, guard, connected,
                   known, sessions, out, bounds>>

Reconnect ==
    /\ ~connected /\ ~serving /\ sessions < MaxSessions
    /\ connected' = TRUE /\ serving' = TRUE /\ sessions' = sessions + 1
    /\ UNCHANGED <<caller, collector, evidence, receiver, h, channel, activity, registered,
                   guard, open, known, out, bounds>>

\* Authenticated and AuthenticationFailed, whoever caused them.
AuthOutcome(type) ==
    /\ serving /\ Subscribed /\ auths < MaxAuths
    /\ auths' = auths + 1
    /\ Broadcast(Note(type, "none"))
    /\ UNCHANGED <<caller, collector, evidence, receiver, h, activity, registered, guard, link,
                   out, frames>>

-----------------------------------------------------------------------------
(* The handler                                                             *)

\* handle_auto_closing returns: its broadcast receiver goes with it.
Return(reason, toClose) ==
    /\ h' = [h EXCEPT !.pc = "ending", !.reason = reason, !.toClose = toClose, !.hand = Nothing]
    /\ notes' = <<>> /\ lagged' = FALSE

HandlerUnchanged == UNCHANGED <<caller, collector, receiver, terminal, guard, link, bounds>>

\* The handler keeps the evidence, if the ID is still registered.
LookUp ==
    /\ h.pc = "lookup"
    /\ h' = [h EXCEPT !.pc = "listening", !.hasRaw = registered]
    /\ HandlerUnchanged /\ UNCHANGED <<raw, channel, activity, registered, out>>

\* CancelOnDrop: the collector ended or was dropped.
HandlerCancelled ==
    /\ h.pc \in Listening /\ CollectorGone
    /\ Return("none", TRUE)
    /\ HandlerUnchanged /\ UNCHANGED <<raw, activity, registered, out>>

RecvLagged ==
    /\ h.pc \in {"listening", "grace"} /\ lagged
    /\ Return("ReceiveLoss", TRUE)
    /\ HandlerUnchanged /\ UNCHANGED <<raw, activity, registered, out>>

Recv(type) ==
    /\ h.pc \in {"listening", "grace"} /\ ~lagged
    /\ notes # <<>> /\ Head(notes).type = type
    /\ HandlerUnchanged /\ UNCHANGED <<raw, activity, registered, out>>

RecvEvent ==
    /\ Recv("EVENT")
    /\ notes' = Tail(notes) /\ UNCHANGED lagged
    /\ h' = [h EXCEPT !.pc = "sending", !.hand = Head(notes).arg]

\* The grace period of WaitDurationAfterEOSE follows the loop; the other
\* policies go on, counting or not.
InGrace == h.eose /\ policy = "WaitDurationAfterEOSE"

Counts == policy = "WaitForEvents" \/ (policy = "WaitForEventsAfterEOSE" /\ h.eose)

\* The event goes to the collector, or nowhere when that is gone; then the
\* exit policy is checked.
SendActivity ==
    /\ h.pc = "sending" /\ (activity = <<>> \/ CollectorGone)
    /\ activity' = IF CollectorGone THEN activity ELSE <<Note("EVENT", h.hand)>>
    /\ IF ~InGrace /\ Counts /\ h.count + 1 >= ExitEvents
       THEN Return("ExitLimitReached", TRUE)
       ELSE /\ h' = [h EXCEPT !.pc = IF InGrace THEN "grace" ELSE "listening", !.hand = Nothing,
                        !.count = IF ~InGrace /\ Counts THEN @ + 1 ELSE @]
            /\ UNCHANGED channel
    /\ HandlerUnchanged /\ UNCHANGED <<raw, registered, out>>

RecvEose ==
    /\ Recv("EOSE")
    /\ CASE h.pc = "listening" /\ policy = "ExitOnEOSE" -> Return("Completed", TRUE)
         [] h.pc = "listening" /\ policy # "ExitOnEOSE" ->
              /\ h' = [h EXCEPT !.eose = TRUE,
                         !.pc = IF policy = "WaitDurationAfterEOSE" THEN "grace" ELSE @]
              /\ notes' = Tail(notes) /\ UNCHANGED lagged
         [] OTHER -> notes' = Tail(notes) /\ UNCHANGED <<h, lagged>>

\* The grace period is over; an event still in hand is dropped.
GraceEnds ==
    /\ h.pc \in {"grace", "sending"} /\ InGrace
    /\ Return("Completed", TRUE)
    /\ HandlerUnchanged /\ UNCHANGED <<raw, activity, registered, out>>

RecvClosed ==
    /\ Recv("CLOSED")
    /\ LET reason == Head(notes).arg
       IN  CASE reason = "none" -> Return("RelayClosed", h.pc = "grace")
             [] reason = "auth-required" /\ h.pc = "listening" ->
                  /\ h' = [h EXCEPT !.resubscribe = TRUE]
                  /\ notes' = Tail(notes) /\ UNCHANGED lagged
             [] OTHER -> Return("Rejected", h.pc = "grace")

RecvStatus ==
    /\ Recv("Disconnected")
    /\ Return("Disconnected", h.pc = "grace")

RecvAuthenticated ==
    /\ Recv("Authenticated")
    /\ notes' = Tail(notes) /\ UNCHANGED lagged
    /\ h' = IF h.pc = "listening" /\ h.resubscribe
            THEN [h EXCEPT !.pc = "resending", !.resubscribe = FALSE] ELSE h

RecvAuthFailed ==
    /\ Recv("AuthenticationFailed")
    /\ IF h.pc = "listening" THEN Return("AuthenticationFailed", FALSE)
       ELSE notes' = Tail(notes) /\ UNCHANGED <<h, lagged>>

\* update_auto_closing_subscription needs the registration; the REQ can be
\* refused like any message.
Resubscribe ==
    /\ h.pc = "resending"
    /\ \/ /\ registered
          /\ out' = Append(out, "REQ")
          /\ h' = [h EXCEPT !.pc = "listening"]
          /\ UNCHANGED channel
       \/ Return("Rejected", FALSE) /\ UNCHANGED out
    /\ HandlerUnchanged /\ UNCHANGED <<raw, activity, registered>>

CloseEvidence ==
    /\ h.pc = "ending"
    /\ raw' = [raw EXCEPT !.closed = @ \/ h.hasRaw]
    /\ h' = [h EXCEPT !.pc = "reporting"]
    /\ HandlerUnchanged /\ UNCHANGED <<channel, activity, registered, out>>

\* mutant: the reason does not wait for the channel
Report_Unbounded ==
    /\ h.pc = "reporting"
    /\ activity' = IF h.reason = "none" \/ CollectorGone THEN activity
                   ELSE Append(activity, Note("CLOSED", h.reason))
    /\ h' = [h EXCEPT !.pc = "closing"]
    /\ HandlerUnchanged /\ UNCHANGED <<raw, channel, registered, out>>

\* The reason goes through the same channel, after the events.
Report ==
    /\ h.pc = "reporting" /\ (h.reason = "none" \/ activity = <<>> \/ CollectorGone)
    /\ activity' = IF h.reason = "none" \/ CollectorGone THEN activity
                   ELSE <<Note("CLOSED", h.reason)>>
    /\ h' = [h EXCEPT !.pc = "closing"]
    /\ HandlerUnchanged /\ UNCHANGED <<raw, channel, registered, out>>

SendClose ==
    /\ h.pc = "closing"
    /\ h' = [h EXCEPT !.pc = "removing"]
    /\ out' \in IF h.toClose THEN {out, Append(out, "CLOSE")} ELSE {out}
    /\ HandlerUnchanged /\ UNCHANGED <<raw, channel, activity, registered>>

RemoveSubscription ==
    /\ h.pc = "removing"
    /\ h' = [h EXCEPT !.pc = "ended"]
    /\ registered' = FALSE
    /\ HandlerUnchanged /\ UNCHANGED <<raw, channel, activity, out>>

HandlerStep ==
    \/ LookUp \/ HandlerCancelled \/ RecvLagged \/ RecvEvent \/ SendActivity \/ RecvEose
    \/ RecvClosed \/ RecvStatus \/ RecvAuthenticated \/ RecvAuthFailed \/ Resubscribe
    \/ CloseEvidence \/ Report \/ SendClose \/ RemoveSubscription

CollectorStep ==
    \/ Begin \/ Register \/ SendReq \/ RawTerminal \/ CollectEvent \/ CollectClosed
    \/ Interrupted("Cancelled")

Validation == Forward \/ FrameProcessed \/ NotifyEvent

Next ==
    \/ CollectorStep \/ HandlerStep \/ Validation \/ RejectEvent \/ GraceEnds
    \/ Interrupted("TimedOut") \/ Interrupted("Failed") \/ DropCollector \/ Cancel
    \/ GuardRemoves \/ GuardCloses
    \/ (\E e \in Events : RecordEvent(e)) \/ RejectInput \/ ReceiveEose
    \/ \E reason \in ClosedReasons : ReceiveClosed(reason)
    \/ SendWsMsg \/ LoseConnection \/ SessionEnds \/ Reconnect
    \/ \E type \in {"Authenticated", "AuthenticationFailed"} : AuthOutcome(type)

(***************************************************************************)
(* Tasks that can run are polled, and the checks of a frame return.  No    *)
(* timer, no relay and no caller is fair.                                  *)
(***************************************************************************)
Fairness ==
    /\ WF_vars(CollectorStep) /\ WF_vars(HandlerStep)
    /\ WF_vars(Validation \/ RejectEvent)
    /\ WF_vars(GuardRemoves) /\ WF_vars(GuardCloses)

Spec     == Init /\ [][Next]_vars
FairSpec == Spec /\ Fairness

-----------------------------------------------------------------------------
(* Properties                                                              *)

(* "Only Completed satisfies the chosen request exit policy": with the     *)
(* EOSE policy a completed acquisition has every event that was validated  *)
(* before EOSE, within its budgets, and no input of it was lost.           *)
CompletedIsWhole ==
    result.end = "Completed" =>
        /\ raw.phase = "Active" /\ ~raw.rejected /\ result.items <= MaxItems
        /\ policy = "ExitOnEOSE" => result.received = raw.forwarded

(* The budgets bound what is retained and counted, whatever the relay      *)
(* sends and however events wait in the channels: one item and one event   *)
(* over the limit are counted at most, none is kept.                       *)
WithinBudgets ==
    /\ TypeOK
    /\ raw.items <= MaxItems + 1 /\ result.received <= MaxItems + 1
    /\ Cardinality(result.events) + result.duplicates <= MaxItems
    /\ result.bytes <= MaxBytes
         \/ result.end \in {"ByteBudgetExceeded", "ItemBudgetExceeded"}

(* An end that blames the raw input is true.  "Drain previously validated  *)
(* notifications": when nothing but EOSE ends the subscription, everything *)
(* validated before the overflow or the loss is in the result.             *)
TerminalEndIsDrained ==
    /\ result.end = "ItemBudgetExceeded" => result.items > MaxItems
    /\ result.end = "InvalidMessage" => raw.rejected
    /\ policy = "ExitOnEOSE" /\ result.end \in {"ItemBudgetExceeded", "InvalidMessage"}
         => result.received = raw.forwarded

(* How an acquisition ends is the truth about its input.                   *)
EndsTruthfully == CompletedIsWhole /\ TerminalEndIsDrained

(* After the collector has ended the evidence is frozen: frames that are   *)
(* still validated change nothing the report tells.                        *)
EvidenceIsFrozen ==
    [][(cpc = "done") => raw' = raw /\ result' = result]_vars

(* An exhausted budget or lost input ends the acquisition by itself, even  *)
(* if no timeout fires and the relay sends nothing more.                   *)
ExhaustionEnds ==
    (cpc = "collecting" /\ (raw.phase # "Active" \/ raw.rejected)) ~> CollectorGone

(* However an acquisition is left, in setup or later, cancelled, dropped   *)
(* or refused, its subscription does not stay registered.                  *)
IsUnregistered == CollectorGone ~> [](~registered)

-----------------------------------------------------------------------------
(* The inductive invariant behind the theorems of AcquisitionProofs         *)

EventNotes == [type : {"EVENT"}, arg : Events]
Notices ==
    EventNotes \union [type : {"CLOSED"}, arg : ClosedReasons]
    \union [type : {"EOSE", "Disconnected", "Authenticated", "AuthenticationFailed"}, arg : {"none"}]
Activities == EventNotes \union [type : {"CLOSED"}, arg : Ends]

RawType ==
    [phase : {"Active", "Exhausted", "ExhaustedValid"}, closed : BOOLEAN,
     items : Nat, forwarded : Nat, rejected : BOOLEAN]
ResultType ==
    [events : SUBSET Events, end : Ends \union {"none"}, received : Nat, bytes : Nat,
     duplicates : Nat, items : Nat]
HandlerType ==
    [pc : Listening \union {"none", "lookup", "ending", "reporting", "closing", "removing", "ended"},
     hasRaw : BOOLEAN, hand : Events \union {Nothing}, reason : Ends \union {"none"},
     toClose : BOOLEAN, eose : BOOLEAN, count : Nat, resubscribe : BOOLEAN]

Typed ==
    /\ TypeOK
    /\ raw \in RawType /\ result \in ResultType /\ h \in HandlerType
    /\ notes \in Seq(Notices) /\ activity \in Seq(Activities)

\* What is counted, and what is kept of it, until the collector has ended and
\* once it has.
RawCounted ==
    /\ raw.items <= MaxItems + 1
    /\ raw.phase = "Active" => raw.items <= MaxItems
ResultCounted ==
    /\ IsFiniteSet(result.events)
    /\ Cardinality(result.events) + result.duplicates <= result.received
    /\ Cardinality(result.events) + result.duplicates <= MaxItems
    /\ result.received <= MaxItems + 1
    /\ cpc # "done" => result.received <= MaxItems /\ result.bytes <= MaxBytes
    /\ result.bytes <= MaxBytes
         \/ result.end \in {"ByteBudgetExceeded", "ItemBudgetExceeded"}
NoHandlerInSetup == cpc \in {"new", "registering", "registered"} => h.pc = "none"
BudgetInv ==
    /\ Typed /\ RawCounted /\ ResultCounted /\ NoHandlerInSetup
    /\ cpc = "done" => raw.closed

\* The EVENTs in the channel that were counted when they were forwarded: with
\* the EOSE policy, those in front of an EOSE.
Exit(note) == policy = "ExitOnEOSE" /\ note.type = "EOSE"
Due == {n \in DOMAIN notes : notes[n].type = "EVENT" /\ \A m \in 1 .. n : ~Exit(notes[m])}
ExitIsDue == \E n \in DOMAIN notes : Exit(notes[n])
One(b) == IF b THEN 1 ELSE 0
Fed == One(activity # <<>> /\ Head(activity).type = "EVENT")
InHand == One(h.pc = "sending")
Reads == h.pc \in Listening \union {"lookup"}
InReceiver == One(rpc \in {"forwarded", "processed"})

\* Nothing of the subscription arrives before its REQ.
SetupIsQuiet ==
    cpc \in {"new", "registering", "registered"} =>
        /\ out = <<>> /\ ~known /\ rpc = "idle" /\ activity = <<>> /\ guard = "none"
        /\ raw.forwarded = 0 /\ ~raw.closed /\ result.received = 0
        /\ \A n \in DOMAIN notes : notes[n].type \notin {"EVENT", "EOSE"}

\* What the receiver counts, and what it has told the collector.
EvidenceIsTrue ==
    /\ raw.forwarded + One(rpc = "validating") <= raw.items
    /\ raw.phase # "Active" => raw.items > MaxItems
    /\ raw.phase = "ExhaustedValid" => rpc # "validating"
    /\ terminal \/ draining => raw.phase # "Active" \/ raw.rejected

\* Nothing is forwarded any more.
Still == raw.closed \/ (~registered /\ rpc = "idle")

\* What was forwarded and is not collected is on its way, unless the handler
\* has lost notifications or has ended.
FlowIsWhole ==
    cpc = "collecting" =>
        /\ result.received + Fed + InHand <= raw.forwarded
        /\ Reads =>
            /\ raw.closed => policy = "ExitOnEOSE" /\ rpc = "idle"
            /\ ~lagged =>
                /\ raw.forwarded = result.received + Fed + InHand + Cardinality(Due) + InReceiver
                /\ raw.closed => ExitIsDue
                /\ ExitIsDue => Still

\* The reasons of the handler, on their way to the collector.
CanReport(reason) ==
    /\ reason \notin {"ItemBudgetExceeded", "InvalidMessage"}
    /\ reason = "ExitLimitReached" => policy # "ExitOnEOSE"
ReasonsAreTrue ==
    /\ CanReport(h.reason)
    /\ h.pc = "grace" => policy = "WaitDurationAfterEOSE"
    /\ activity # <<>> /\ Head(activity).type = "CLOSED" => CanReport(Head(activity).arg)
    /\ cpc = "collecting" /\ policy = "ExitOnEOSE" =>
        /\ h.pc \in {"ending", "reporting"} /\ h.reason = "Completed"
             => Still /\ raw.forwarded = result.received + Fed
        /\ activity # <<>> /\ Head(activity) = Note("CLOSED", "Completed")
             => Still /\ raw.forwarded = result.received

TruthInv ==
    BudgetInv /\ SetupIsQuiet /\ EvidenceIsTrue /\ FlowIsWhole /\ ReasonsAreTrue /\ EndsTruthfully
=============================================================================
