-------------------------- MODULE AcquisitionProofs --------------------------
(***************************************************************************)
(* BudgetInv is inductive: whatever the relay sends, for any limits and    *)
(* any capacity of the channels, an acquisition retains what its budgets   *)
(* allow and its evidence is frozen when it ends.  TruthInv adds the flow  *)
(* of events between the tasks, and that an end tells the truth.           *)
(***************************************************************************)
EXTENDS Acquisition, FiniteSetTheorems, FunctionTheorems, TLAPS

\* Typed, one part of the system after the other
CallerTyped == policy \in AllPolicies /\ cancelled \in BOOLEAN
CollectorTyped ==
    /\ cpc \in {"new", "registering", "registered", "collecting", "done", "dropped"}
    /\ result \in ResultType /\ (result.end # "none" <=> cpc = "done")
    /\ draining \in BOOLEAN
EvidenceTyped == raw \in RawType /\ terminal \in BOOLEAN
ReceiverTyped ==
    /\ rpc \in {"idle", "validating", "forwarded", "processed"}
    /\ frame \in Events \union {Nothing} /\ (frame = Nothing <=> rpc = "idle")
HandlerTyped == h \in HandlerType /\ (h.hand # Nothing <=> h.pc = "sending")
ChannelTyped == notes \in Seq(Notices) /\ Len(notes) <= Capacity /\ lagged \in BOOLEAN
ActivityTyped == activity \in Seq(Activities) /\ Len(activity) <= 1
SessionTyped ==
    /\ registered \in BOOLEAN /\ guard \in {"none", "remove", "close", "ended"}
    /\ connected \in BOOLEAN /\ serving \in BOOLEAN
    /\ out \in Seq({"REQ", "CLOSE"})
PartsTyped ==
    /\ CallerTyped /\ CollectorTyped /\ EvidenceTyped /\ ReceiverTyped /\ HandlerTyped
    /\ ChannelTyped /\ ActivityTyped /\ SessionTyped

LEMMA TypedByParts == Typed <=> PartsTyped
<1>1. Typed => PartsTyped
  BY DEF Typed, TypeOK, PartsTyped, CallerTyped, CollectorTyped, EvidenceTyped, ReceiverTyped,
         HandlerTyped, ChannelTyped, ActivityTyped, SessionTyped
<1>2. ASSUME PartsTyped PROVE Typed
  <2>1. raw \in RawType /\ result \in ResultType /\ h \in HandlerType
    BY <1>2 DEF PartsTyped, CollectorTyped, EvidenceTyped, HandlerTyped
  <2>2. /\ result.events \subseteq Events /\ result.end \in Ends \union {"none"}
        /\ {result.received, result.bytes, result.items, result.duplicates} \subseteq Nat
    BY <2>1 DEF ResultType
  <2>3. /\ raw.phase \in {"Active", "Exhausted", "ExhaustedValid"}
        /\ raw.closed \in BOOLEAN /\ raw.rejected \in BOOLEAN
        /\ raw.items \in Nat /\ raw.forwarded \in Nat
    BY <2>1 DEF RawType
  <2>4. /\ h.pc \in Listening \union {"none", "lookup", "ending", "reporting", "closing",
                                      "removing", "ended"}
        /\ h.hand \in Events \union {Nothing} /\ h.reason \in Ends \union {"none"}
    BY <2>1 DEF HandlerType
  <2> QED
    BY <1>2, <2>1, <2>2, <2>3, <2>4
       DEF Typed, TypeOK, PartsTyped, CallerTyped, CollectorTyped, EvidenceTyped, ReceiverTyped,
           HandlerTyped, ChannelTyped, ActivityTyped, SessionTyped
<1> QED BY <1>1, <1>2

\* No event has length zero.
LEMMA EventsAreSomething == Nothing \notin Events
BY EventsAssumption DEF Nothing

\* The initial state
LEMMA InitBudgets == Init => BudgetInv
<1> SUFFICES ASSUME Init PROVE BudgetInv
  OBVIOUS
<1>1. CallerTyped /\ EvidenceTyped /\ ReceiverTyped /\ SessionTyped
  <2>1. CallerTyped
    BY PolicyAssumption DEF Init, CallerTyped
  <2>2. EvidenceTyped
    BY DEF Init, EvidenceTyped, RawType
  <2>3. ReceiverTyped
    BY DEF Init, ReceiverTyped
  <2>4. SessionTyped
    <3>1. out = <<>> /\ <<>> \in Seq({"REQ", "CLOSE"})
      BY DEF Init
    <3> QED BY <3>1 DEF Init, SessionTyped
  <2> QED BY <2>1, <2>2, <2>3, <2>4
<1>2. CollectorTyped /\ HandlerTyped
  BY DEF Init, CollectorTyped, ResultType, HandlerTyped, HandlerType, NewHandler, Nothing
<1>3. ChannelTyped /\ ActivityTyped
  <2>1. <<>> \in Seq(Notices) /\ <<>> \in Seq(Activities)
    OBVIOUS
  <2>2. Len(<<>>) <= Capacity /\ Len(<<>>) <= 1
    BY BoundsAssumption
  <2>3. notes = <<>> /\ activity = <<>> /\ lagged \in BOOLEAN
    BY DEF Init
  <2> QED BY <2>1, <2>2, <2>3 DEF ChannelTyped, ActivityTyped
<1>4. IsFiniteSet(result.events) /\ Cardinality(result.events) = 0
  BY FS_EmptySet DEF Init
<1>5. RawCounted /\ ResultCounted
  BY <1>4, LimitsAssumption DEF Init, RawCounted, ResultCounted
<1> QED BY <1>1, <1>2, <1>3, <1>5, TypedByParts DEF Init, BudgetInv, PartsTyped, NoHandlerInSetup, NewHandler

-----------------------------------------------------------------------------
(* The parts that only few steps change                                    *)

\* What a step of each group leaves alone
LEMMA CallerKept ==
    ASSUME CallerTyped, Next
    PROVE  CallerTyped'
<1>1. CASE UNCHANGED caller
  BY <1>1 DEF CallerTyped, caller
<1>2. CASE Cancel
  BY <1>2 DEF CallerTyped, Cancel
<1> QED
  BY <1>1, <1>2
     DEF Next, CollectorStep, HandlerStep, Validation, Begin, Register, SendReq, RawTerminal,
         CollectEvent, CollectClosed, Interrupted, LookUp, HandlerCancelled, RecvLagged, Recv,
         RecvEvent, SendActivity, RecvEose, RecvClosed, RecvStatus, RecvAuthenticated,
         RecvAuthFailed, Resubscribe, CloseEvidence, Report, SendClose, RemoveSubscription,
         HandlerUnchanged, Forward, FrameProcessed, NotifyEvent, RejectEvent, GraceEnds,
         DropCollector, GuardRemoves, GuardCloses, RecordEvent, RejectInput, ReceiveEose,
         ReceiveClosed, SendWsMsg, LoseConnection, SessionEnds, Reconnect, AuthOutcome

LEMMA ReceiverKept ==
    ASSUME ReceiverTyped, Next
    PROVE  ReceiverTyped'
<1>1. CASE UNCHANGED receiver
  BY <1>1 DEF ReceiverTyped, receiver
<1>2. ASSUME NEW e \in Events, RecordEvent(e) PROVE ReceiverTyped'
  BY <1>2, EventsAreSomething DEF ReceiverTyped, RecordEvent, receiver
<1>3. CASE Forward \/ RejectEvent \/ FrameProcessed \/ NotifyEvent \/ SessionEnds
  BY <1>3 DEF ReceiverTyped, Forward, RejectEvent, FrameProcessed, NotifyEvent, SessionEnds
<1> QED
  BY <1>1, <1>2, <1>3
     DEF Next, CollectorStep, HandlerStep, Validation, Begin, Register, SendReq, RawTerminal,
         CollectEvent, CollectClosed, Interrupted, LookUp, HandlerCancelled, RecvLagged, Recv,
         RecvEvent, SendActivity, RecvEose, RecvClosed, RecvStatus, RecvAuthenticated,
         RecvAuthFailed, Resubscribe, CloseEvidence, Report, SendClose, RemoveSubscription,
         HandlerUnchanged, GraceEnds, DropCollector, Cancel, GuardRemoves, GuardCloses,
         RejectInput, ReceiveEose, ReceiveClosed, SendWsMsg, LoseConnection, Reconnect, AuthOutcome

LEMMA SessionKept ==
    ASSUME SessionTyped, Next
    PROVE  SessionTyped'
<1>1. CASE UNCHANGED <<registered, guard, connected, serving, out>>
  BY <1>1 DEF SessionTyped
<1>2. CASE Register \/ GuardRemoves \/ RemoveSubscription \/ LoseConnection \/ SessionEnds \/ Reconnect
  BY <1>2 DEF SessionTyped, Register, GuardRemoves, RemoveSubscription, HandlerUnchanged,
              LoseConnection, SessionEnds, Reconnect, link
<1>3. ASSUME NEW reason, ReceiveClosed(reason) PROVE SessionTyped'
  BY <1>3 DEF SessionTyped, ReceiveClosed
<1>4. ASSUME AbandonSetup, UNCHANGED <<registered, link, out>> PROVE SessionTyped'
  BY <1>4 DEF SessionTyped, AbandonSetup, link
<1>5. CASE SendReq \/ GuardCloses \/ SendWsMsg \/ Resubscribe \/ SendClose
  <2>1. out' \in Seq({"REQ", "CLOSE"})
    <3>1. out \in Seq({"REQ", "CLOSE"})
      BY DEF SessionTyped
    <3>2. out # <<>> => Tail(out) \in Seq({"REQ", "CLOSE"})
      BY <3>1
    <3>3. Append(out, "REQ") \in Seq({"REQ", "CLOSE"}) /\ Append(out, "CLOSE") \in Seq({"REQ", "CLOSE"})
      BY <3>1
    <3>4. out' \in {out, Append(out, "REQ"), Append(out, "CLOSE")} \/ (out # <<>> /\ out' = Tail(out))
      BY <1>5 DEF SendReq, GuardCloses, SendWsMsg, Resubscribe, SendClose
    <3> QED BY <3>1, <3>2, <3>3, <3>4
  <2> QED
    BY <1>5, <2>1 DEF SessionTyped, SendReq, GuardCloses, SendWsMsg, Resubscribe, SendClose,
                      HandlerUnchanged, link
<1> QED
  BY <1>1, <1>2, <1>3, <1>4, <1>5
     DEF Next, CollectorStep, HandlerStep, Validation, Begin, RawTerminal,
         CollectEvent, CollectClosed, Interrupted, LookUp, HandlerCancelled, RecvLagged, Recv,
         RecvEvent, SendActivity, RecvEose, RecvClosed, RecvStatus, RecvAuthenticated,
         RecvAuthFailed, CloseEvidence, Report, HandlerUnchanged, Forward, FrameProcessed,
         NotifyEvent, RejectEvent, GraceEnds, DropCollector, Cancel, RecordEvent, RejectInput,
         ReceiveEose, AuthOutcome, link

-----------------------------------------------------------------------------
(* The channels and the handler                                            *)

\* What is broadcast fits, the oldest notification giving way.
LEMMA BroadcastFits ==
    ASSUME ChannelTyped, NEW n \in Notices, Broadcast(n)
    PROVE  ChannelTyped'
<1>1. CASE UNCHANGED channel
  BY <1>1 DEF ChannelTyped, channel
<1>2. CASE Len(notes) < Capacity /\ notes' = Append(notes, n) /\ UNCHANGED lagged
  BY <1>2, BoundsAssumption DEF ChannelTyped
<1>3. CASE ~(Len(notes) < Capacity) /\ notes' = Append(Tail(notes), n) /\ lagged' = TRUE
  <2>1. notes \in Seq(Notices) /\ Len(notes) <= Capacity /\ Len(notes) # 0
    BY <1>3, BoundsAssumption DEF ChannelTyped
  <2>2. Tail(notes) \in Seq(Notices) /\ Len(Tail(notes)) = Len(notes) - 1
    BY <2>1
  <2>3. notes' \in Seq(Notices) /\ Len(notes') = Len(notes)
    BY <1>3, <2>1, <2>2
  <2> QED BY <1>3, <2>1, <2>3 DEF ChannelTyped
<1> QED BY <1>1, <1>2, <1>3 DEF Broadcast

\* The handler empties its part of the channel, reads from it, or waits.
LEMMA ReadingFits ==
    ASSUME ChannelTyped,
           \/ notes' = <<>> /\ lagged' = FALSE
           \/ notes # <<>> /\ notes' = Tail(notes) /\ UNCHANGED lagged
           \/ UNCHANGED channel
    PROVE  ChannelTyped'
<1>1. CASE notes' = <<>> /\ lagged' = FALSE
  <2>1. <<>> \in Seq(Notices)
    OBVIOUS
  <2>2. Len(<<>>) <= Capacity
    BY BoundsAssumption
  <2> QED BY <1>1, <2>1, <2>2 DEF ChannelTyped
<1>2. CASE notes # <<>> /\ notes' = Tail(notes) /\ UNCHANGED lagged
  <2>1. notes \in Seq(Notices) /\ Tail(notes) \in Seq(Notices) /\ Len(Tail(notes)) = Len(notes) - 1
    BY <1>2 DEF ChannelTyped
  <2> QED BY <1>2, <2>1, BoundsAssumption DEF ChannelTyped
<1>3. CASE UNCHANGED channel
  BY <1>3 DEF ChannelTyped, channel
<1> QED BY <1>1, <1>2, <1>3

LEMMA ChannelKept ==
    ASSUME ChannelTyped, ReceiverTyped, Next
    PROVE  ChannelTyped'
<1>1. CASE NotifyEvent
  <2>1. Note("EVENT", frame) \in Notices
    BY <1>1 DEF NotifyEvent, ReceiverTyped, Note, Notices, EventNotes
  <2> QED BY <1>1, <2>1, BroadcastFits DEF NotifyEvent
<1>2. CASE ReceiveEose \/ LoseConnection
  <2>1. Note("EOSE", "none") \in Notices /\ Note("Disconnected", "none") \in Notices
    BY DEF Note, Notices
  <2> QED BY <1>2, <2>1, BroadcastFits DEF ReceiveEose, LoseConnection
<1>3. ASSUME NEW reason \in ClosedReasons, ReceiveClosed(reason) PROVE ChannelTyped'
  <2>1. Note("CLOSED", reason) \in Notices
    BY DEF Note, Notices
  <2> QED BY <1>3, <2>1, BroadcastFits DEF ReceiveClosed
<1>4. ASSUME NEW type \in {"Authenticated", "AuthenticationFailed"}, AuthOutcome(type) PROVE ChannelTyped'
  <2>1. Note(type, "none") \in Notices
    BY DEF Note, Notices
  <2> QED BY <1>4, <2>1, BroadcastFits DEF AuthOutcome
<1>5. CASE HandlerStep \/ GraceEnds
  BY <1>5, ReadingFits
     DEF HandlerStep, LookUp, HandlerCancelled, RecvLagged, Recv, RecvEvent, SendActivity,
         RecvEose, RecvClosed, RecvStatus, RecvAuthenticated, RecvAuthFailed, Resubscribe,
         CloseEvidence, Report, SendClose, RemoveSubscription, GraceEnds, Return, channel
<1>6. CASE AbandonSetup
  BY <1>6, ReadingFits DEF AbandonSetup
<1>7. CASE UNCHANGED channel
  BY <1>7, ReadingFits
<1> QED
  BY <1>1, <1>2, <1>3, <1>4, <1>5, <1>6, <1>7
     DEF Next, CollectorStep, Validation, Begin, Register, SendReq, RawTerminal, CollectEvent,
         CollectClosed, Interrupted, Forward, FrameProcessed, RejectEvent, DropCollector, Cancel,
         GuardRemoves, GuardCloses, RecordEvent, RejectInput, SendWsMsg, SessionEnds, Reconnect

LEMMA ActivityKept ==
    ASSUME ActivityTyped, HandlerTyped, Next
    PROVE  ActivityTyped'
<1>1. CASE UNCHANGED activity
  BY <1>1 DEF ActivityTyped
<1>2. CASE CollectEvent \/ CollectClosed
  <2>1. activity \in Seq(Activities) /\ activity # <<>> /\ activity' = Tail(activity)
    BY <1>2 DEF ActivityTyped, CollectEvent, CollectClosed
  <2>2. Tail(activity) \in Seq(Activities) /\ Len(Tail(activity)) = Len(activity) - 1
    BY <2>1
  <2> QED BY <2>1, <2>2 DEF ActivityTyped
<1>3. ASSUME NEW n \in Activities, activity' = <<n>> PROVE ActivityTyped'
  BY <1>3 DEF ActivityTyped
<1>4. CASE SendActivity
  <2>1. h.pc = "sending" => Note("EVENT", h.hand) \in Activities
    BY DEF HandlerTyped, HandlerType, Note, Activities, EventNotes
  <2> QED BY <1>1, <1>3, <1>4, <2>1 DEF SendActivity
<1>5. CASE Report
  <2>1. h.reason # "none" => Note("CLOSED", h.reason) \in Activities
    BY DEF HandlerTyped, HandlerType, Note, Activities
  <2> QED BY <1>1, <1>3, <1>5, <2>1 DEF Report
<1> QED
  BY <1>1, <1>2, <1>4, <1>5
     DEF Next, CollectorStep, HandlerStep, Validation, Begin, Register, SendReq, RawTerminal,
         Interrupted, LookUp, HandlerCancelled, RecvLagged, Recv, RecvEvent, RecvEose, RecvClosed,
         RecvStatus, RecvAuthenticated, RecvAuthFailed, Resubscribe, CloseEvidence, SendClose,
         RemoveSubscription, Forward, FrameProcessed, NotifyEvent, RejectEvent, GraceEnds,
         DropCollector, Cancel, GuardRemoves, GuardCloses, RecordEvent, RejectInput, ReceiveEose,
         ReceiveClosed, SendWsMsg, LoseConnection, SessionEnds, Reconnect, AuthOutcome

\* What each way of going on makes of the handler
LEMMA ReturnIsTyped ==
    ASSUME HandlerTyped, NEW reason \in Ends \union {"none"}, NEW toClose \in BOOLEAN,
           Return(reason, toClose)
    PROVE  HandlerTyped'
BY DEF HandlerTyped, HandlerType, Return

LEMMA HandlerKept ==
    ASSUME HandlerTyped, ChannelTyped, SessionTyped, NoHandlerInSetup, Next
    PROVE  HandlerTyped'
<1>1. CASE UNCHANGED h
  BY <1>1 DEF HandlerTyped
<1>2. CASE SendReq \/ LookUp \/ CloseEvidence \/ Report \/ SendClose \/ RemoveSubscription
  <2>1. CASE SendReq
    BY <2>1 DEF HandlerTyped, HandlerType, Listening, SendReq, NoHandlerInSetup
  <2>2. CASE LookUp
    BY <2>2 DEF HandlerTyped, HandlerType, SessionTyped, Listening, LookUp
  <2>3. CASE CloseEvidence \/ Report
    BY <2>3 DEF HandlerTyped, HandlerType, CloseEvidence, Report
  <2>4. CASE SendClose \/ RemoveSubscription
    BY <2>4 DEF HandlerTyped, HandlerType, SendClose, RemoveSubscription
  <2> QED BY <1>2, <2>1, <2>2, <2>3, <2>4
<1>3. CASE HandlerCancelled \/ RecvLagged \/ GraceEnds \/ RecvStatus
  BY <1>3, ReturnIsTyped DEF HandlerCancelled, RecvLagged, GraceEnds, RecvStatus, Ends
<1>4. CASE RecvEvent
  <2>1. notes \in Seq(Notices) /\ notes # <<>> /\ Head(notes).type = "EVENT"
    BY <1>4 DEF RecvEvent, Recv, ChannelTyped
  <2>2. Head(notes) \in Notices
    BY <2>1
  <2>3. Head(notes).arg \in Events
    BY <2>1, <2>2 DEF Notices, EventNotes
  <2> QED BY <1>4, <2>3, EventsAreSomething DEF RecvEvent, HandlerTyped, HandlerType, Listening
<1>5. CASE SendActivity
  <2>1. CASE Return("ExitLimitReached", TRUE)
    BY <2>1, ReturnIsTyped DEF Ends
  <2>2. CASE h' = [h EXCEPT !.pc = IF InGrace THEN "grace" ELSE "listening", !.hand = Nothing,
                      !.count = IF ~InGrace /\ Counts THEN @ + 1 ELSE @]
    <3>1. (IF ~InGrace /\ Counts THEN h.count + 1 ELSE h.count) \in Nat
      BY DEF HandlerTyped, HandlerType
    <3>2. (IF InGrace THEN "grace" ELSE "listening") \in Listening \ {"sending"}
      BY DEF Listening
    <3> QED BY <2>2, <3>1, <3>2 DEF HandlerTyped, HandlerType
  <2> QED BY <1>5, <2>1, <2>2 DEF SendActivity
<1>6. CASE RecvEose
  <2>1. CASE Return("Completed", TRUE)
    BY <2>1, ReturnIsTyped DEF Ends
  <2>2. CASE /\ h.pc = "listening"
             /\ h' = [h EXCEPT !.eose = TRUE,
                        !.pc = IF policy = "WaitDurationAfterEOSE" THEN "grace" ELSE @]
    BY <2>2 DEF HandlerTyped, HandlerType, Listening
  <2> QED BY <1>1, <1>6, <2>1, <2>2 DEF RecvEose
<1>7. CASE RecvClosed
  <2>1. ASSUME NEW r \in {"RelayClosed", "Rejected"}, Return(r, h.pc = "grace")
        PROVE  HandlerTyped'
    <3>1. (h.pc = "grace") \in BOOLEAN /\ r \in Ends \union {"none"}
      BY DEF Ends
    <3> QED BY <2>1, <3>1, ReturnIsTyped
  <2>2. CASE h' = [h EXCEPT !.resubscribe = TRUE]
    BY <2>2 DEF HandlerTyped, HandlerType
  <2> QED BY <1>7, <2>1, <2>2 DEF RecvClosed
<1>8. CASE RecvAuthenticated
  <2>1. CASE h.pc = "listening" /\ h' = [h EXCEPT !.pc = "resending", !.resubscribe = FALSE]
    BY <2>1 DEF HandlerTyped, HandlerType, Listening
  <2> QED BY <1>1, <1>8, <2>1 DEF RecvAuthenticated
<1>9. CASE RecvAuthFailed
  BY <1>1, <1>9, ReturnIsTyped DEF RecvAuthFailed, Ends
<1>10. CASE Resubscribe
  <2>1. CASE Return("Rejected", FALSE)
    BY <2>1, ReturnIsTyped DEF Ends
  <2>2. CASE h.pc = "resending" /\ h' = [h EXCEPT !.pc = "listening"]
    BY <2>2 DEF HandlerTyped, HandlerType, Listening
  <2> QED BY <1>10, <2>1, <2>2 DEF Resubscribe
<1> QED
  BY <1>1, <1>2, <1>3, <1>4, <1>5, <1>6, <1>7, <1>8, <1>9, <1>10
     DEF Next, CollectorStep, HandlerStep, Validation, Begin, Register, RawTerminal, CollectEvent,
         CollectClosed, Interrupted, Forward, FrameProcessed, NotifyEvent, RejectEvent,
         DropCollector, Cancel, GuardRemoves, GuardCloses, RecordEvent, RejectInput, ReceiveEose,
         ReceiveClosed, SendWsMsg, LoseConnection, SessionEnds, Reconnect, AuthOutcome

LEMMA NoHandlerInSetupKept ==
    ASSUME CollectorTyped, NoHandlerInSetup, Next
    PROVE  NoHandlerInSetup'
<1>1. CASE UNCHANGED h /\ (cpc' = cpc \/ Begin \/ Register)
  BY <1>1 DEF NoHandlerInSetup, Begin, Register
<1>2. CASE cpc' \in {"collecting", "done", "dropped"}
  BY <1>2 DEF NoHandlerInSetup
<1>3. CASE h.pc # "none" /\ cpc' = cpc
  BY <1>3 DEF NoHandlerInSetup
<1>4. CASE CollectEvent \/ RawTerminal
  <2>1. cpc = "collecting" /\ (cpc' = cpc \/ cpc' = "done")
    BY <1>4 DEF CollectEvent, CollectorListens, RawTerminal, Finish
  <2> QED BY <1>2, <2>1
<1>5. CASE HandlerStep \/ GraceEnds
  BY <1>3, <1>5
     DEF HandlerStep, LookUp, HandlerCancelled, RecvLagged, Recv, RecvEvent, SendActivity,
         RecvEose, RecvClosed, RecvStatus, RecvAuthenticated, RecvAuthFailed, Resubscribe,
         CloseEvidence, Report, SendClose, RemoveSubscription, GraceEnds, HandlerUnchanged,
         collector, Listening
<1>6. CASE SendReq \/ CollectClosed \/ DropCollector
  BY <1>2, <1>6 DEF SendReq, CollectClosed, Finish, DropCollector
<1>7. ASSUME NEW end, Interrupted(end) PROVE NoHandlerInSetup'
  BY <1>2, <1>7 DEF Interrupted, Finish
<1>8. CASE UNCHANGED h /\ cpc' = cpc
  BY <1>8 DEF NoHandlerInSetup
<1>9. CASE Begin \/ Register
  BY <1>1, <1>9 DEF Begin, Register
<1> QED
  BY <1>4, <1>5, <1>6, <1>7, <1>8, <1>9
     DEF Next, CollectorStep, Validation, Forward, FrameProcessed, NotifyEvent, RejectEvent,
         Cancel, GuardRemoves, GuardCloses, RecordEvent, RejectInput, ReceiveEose, ReceiveClosed,
         SendWsMsg, LoseConnection, SessionEnds, Reconnect, AuthOutcome, collector

-----------------------------------------------------------------------------
(* The evidence and the result                                             *)

\* The collector ends with a result.
LEMMA FinishIsTyped ==
    ASSUME EvidenceTyped, NEW res \in ResultType, NEW end \in Ends, Finish(res, end)
    PROVE  /\ result' \in ResultType /\ result'.end \in Ends /\ cpc' = "done"
           /\ result'.events = res.events /\ result'.received = res.received
           /\ result'.bytes = res.bytes /\ result'.duplicates = res.duplicates
           /\ end \in {"ByteBudgetExceeded", "ItemBudgetExceeded"} => result'.end = end
           /\ raw' = [raw EXCEPT !.closed = TRUE]
<1>1. raw.items \in Nat
  BY DEF EvidenceTyped, RawType
<1>2. PICK last \in Ends :
        /\ result' = [res EXCEPT !.items = raw.items, !.end = last]
        /\ end \in {"ByteBudgetExceeded", "ItemBudgetExceeded"} => last = end
  BY DEF Finish, Ends
<1> QED BY <1>1, <1>2 DEF Finish, ResultType

\* An event is counted, and kept.
LEMMA CountedIsTyped ==
    ASSUME result \in ResultType, NEW e \in Events
    PROVE  /\ Counted(e) \in ResultType
           /\ Counted(e).events = result.events /\ Counted(e).duplicates = result.duplicates
           /\ Counted(e).received = result.received + 1 /\ Counted(e).bytes = result.bytes + e
           /\ Counted(e).end = result.end
<1>1. result.received + 1 \in Nat /\ result.bytes + e \in Nat
  BY EventsAssumption DEF ResultType
<1> QED BY <1>1 DEF Counted, ResultType

LEMMA KeptIsTyped ==
    ASSUME NEW res \in ResultType, NEW e \in Events, IsFiniteSet(res.events)
    PROVE  /\ Kept(res, e) \in ResultType /\ IsFiniteSet(Kept(res, e).events)
           /\ Cardinality(Kept(res, e).events) + Kept(res, e).duplicates
                = Cardinality(res.events) + res.duplicates + 1
           /\ Kept(res, e).received = res.received /\ Kept(res, e).bytes = res.bytes
           /\ Kept(res, e).end = res.end
<1>1. /\ IsFiniteSet(res.events \union {e})
      /\ Cardinality(res.events \union {e})
           = IF e \in res.events THEN Cardinality(res.events) ELSE Cardinality(res.events) + 1
  BY FS_AddElement
<1>2. Cardinality(res.events) \in Nat
  BY FS_CardinalityType
<1>3. /\ Kept(res, e).events = res.events \union {e}
      /\ Kept(res, e).duplicates = IF e \in res.events THEN res.duplicates + 1 ELSE res.duplicates
      /\ Kept(res, e).received = res.received /\ Kept(res, e).bytes = res.bytes
      /\ Kept(res, e).end = res.end
  BY DEF Kept, ResultType
<1>4. Kept(res, e) \in ResultType
  <2>1. (IF e \in res.events THEN res.duplicates + 1 ELSE res.duplicates) \in Nat
    BY DEF ResultType
  <2> QED BY <2>1 DEF Kept, ResultType
<1>5. res.duplicates \in Nat
  BY DEF ResultType
<1> QED BY <1>1, <1>2, <1>3, <1>4, <1>5

\* The result until the end, and the evidence the end freezes
Collected == CollectorTyped /\ ResultCounted /\ (cpc = "done" => raw.closed)

\* The collector ends with what it had, or with an event more that is kept.
LEMMA EndsWithinBudgets ==
    ASSUME Collected, EvidenceTyped, cpc # "done", NEW end \in Ends, Finish(result, end),
           UNCHANGED draining
    PROVE  Collected'
<1>1. result \in ResultType
  BY DEF Collected, CollectorTyped
<1>2. /\ result' \in ResultType /\ result'.end \in Ends /\ cpc' = "done"
      /\ result'.events = result.events /\ result'.received = result.received
      /\ result'.bytes = result.bytes /\ result'.duplicates = result.duplicates
      /\ raw' = [raw EXCEPT !.closed = TRUE]
  BY <1>1, FinishIsTyped
<1>3. raw'.closed /\ result'.end # "none"
  BY <1>2 DEF EvidenceTyped, RawType, Ends
<1>4. result.received <= MaxItems /\ result.bytes <= MaxBytes
  BY DEF Collected, ResultCounted
<1>5. ResultCounted'
  BY <1>2, <1>4 DEF Collected, ResultCounted
<1> QED BY <1>2, <1>3, <1>5 DEF Collected, CollectorTyped

LEMMA EventsWithinBudgets ==
    ASSUME Collected, EvidenceTyped, ActivityTyped, CollectEvent
    PROVE  Collected'
<1> DEFINE e == Head(activity).arg
           res == Counted(e)
           kept == Kept(res, e)
<1>1. cpc = "collecting" /\ UNCHANGED draining
  BY DEF CollectEvent, CollectorListens
<1>2. e \in Events
  <2>1. Head(activity) \in Activities /\ Head(activity).type = "EVENT"
    BY DEF CollectEvent, ActivityTyped
  <2> QED BY <2>1 DEF Activities, EventNotes
<1>3. result \in ResultType /\ IsFiniteSet(result.events)
  BY DEF Collected, CollectorTyped, ResultCounted
<1>4. /\ res \in ResultType
      /\ res.events = result.events /\ res.duplicates = result.duplicates
      /\ res.received = result.received + 1 /\ res.bytes = result.bytes + e
      /\ res.end = result.end
  BY <1>2, <1>3, CountedIsTyped
<1> HIDE DEF res
<1>5. /\ kept \in ResultType /\ IsFiniteSet(kept.events)
      /\ Cardinality(kept.events) + kept.duplicates
           = Cardinality(result.events) + result.duplicates + 1
      /\ kept.received = result.received + 1 /\ kept.bytes = result.bytes + e
      /\ kept.end = result.end
  BY <1>2, <1>3, <1>4, KeptIsTyped
<1>6. /\ Cardinality(result.events) + result.duplicates <= result.received
      /\ result.received <= MaxItems /\ result.bytes <= MaxBytes
  BY <1>1 DEF Collected, ResultCounted
<1>7. /\ result.received \in Nat /\ result.duplicates \in Nat /\ Cardinality(result.events) \in Nat
      /\ result.bytes \in Nat /\ result.end = "none"
  BY <1>1, <1>3, FS_CardinalityType DEF ResultType, Collected, CollectorTyped
<1> HIDE DEF kept
<1>11. ASSUME ~(res.received > MaxItems), ~(res.bytes > MaxBytes)
       PROVE  /\ result.received + 1 <= MaxItems /\ result.bytes + e <= MaxBytes
              /\ Cardinality(kept.events) + kept.duplicates <= result.received + 1
              /\ Cardinality(kept.events) + kept.duplicates <= MaxItems
              /\ result.received + 1 <= MaxItems + 1
  <2>1. e \in Nat /\ MaxItems \in Nat /\ MaxBytes \in Nat
    BY <1>2, EventsAssumption, LimitsAssumption
  <2>2. result.received + 1 <= MaxItems /\ result.bytes + e <= MaxBytes
    BY <1>4, <1>7, <1>11, <2>1
  <2>3. Cardinality(result.events) + result.duplicates + 1 <= result.received + 1
    BY <1>6, <1>7
  <2>4. Cardinality(result.events) + result.duplicates + 1 <= MaxItems
    BY <1>6, <1>7, <2>1, <2>2
  <2> QED BY <1>5, <1>7, <2>1, <2>2, <2>3, <2>4
<1>8. ASSUME NEW over \in {"ItemBudgetExceeded", "ByteBudgetExceeded"}, Finish(res, over)
      PROVE  Collected'
  <2>1. over \in Ends
    BY DEF Ends
  <2>2. /\ result' \in ResultType /\ result'.end = over /\ cpc' = "done"
        /\ result'.events = result.events /\ result'.received = result.received + 1
        /\ result'.duplicates = result.duplicates
        /\ raw' = [raw EXCEPT !.closed = TRUE]
    BY <1>4, <1>8, <2>1, FinishIsTyped
  <2>3. raw'.closed /\ result'.end # "none"
    BY <2>2 DEF EvidenceTyped, RawType
  <2>4. ResultCounted'
    BY <1>3, <1>6, <1>7, <2>2, LimitsAssumption DEF ResultCounted
  <2> QED BY <1>1, <2>2, <2>3, <2>4 DEF Collected, CollectorTyped
<1>9. CASE ~(res.received > MaxItems) /\ ~(res.bytes > MaxBytes) /\ Finish(kept, TerminalEnd)
  <2>1. TerminalEnd \in Ends
    BY DEF TerminalEnd, Ends
  <2>2. /\ result' \in ResultType /\ result'.end \in Ends /\ cpc' = "done"
        /\ result'.events = kept.events /\ result'.received = result.received + 1
        /\ result'.bytes = result.bytes + e /\ result'.duplicates = kept.duplicates
        /\ raw' = [raw EXCEPT !.closed = TRUE]
    BY <1>5, <1>9, <2>1, FinishIsTyped
  <2>3. raw'.closed /\ result'.end # "none"
    BY <2>2 DEF EvidenceTyped, RawType, Ends
  <2>4. ResultCounted'
    BY <1>5, <1>9, <1>11, <2>2 DEF ResultCounted
  <2> QED BY <1>1, <2>2, <2>3, <2>4 DEF Collected, CollectorTyped
<1>10. CASE ~(res.received > MaxItems) /\ ~(res.bytes > MaxBytes) /\ result' = kept /\ UNCHANGED <<cpc, raw>>
  <2>1. ResultCounted'
    BY <1>5, <1>10, <1>11 DEF ResultCounted
  <2> QED BY <1>1, <1>5, <1>7, <1>10, <2>1 DEF Collected, CollectorTyped
<1> QED BY <1>8, <1>9, <1>10 DEF CollectEvent, e, res, kept

LEMMA CollectedKept ==
    ASSUME Collected, EvidenceTyped, ActivityTyped, Next
    PROVE  Collected'
<1>1. CASE UNCHANGED collector /\ (raw.closed => raw'.closed)
  BY <1>1 DEF Collected, CollectorTyped, ResultCounted, collector
<1>2. CASE Begin \/ Register \/ SendReq \/ DropCollector
  <2>1. cpc' # "done" /\ cpc # "done" /\ UNCHANGED <<result, draining, raw>>
    BY <1>2 DEF Begin, Register, SendReq, DropCollector, CollectorGone, evidence
  <2>2. cpc' \in {"new", "registering", "registered", "collecting", "dropped"}
    BY <1>2 DEF Begin, Register, SendReq, DropCollector
  <2> QED BY <2>1, <2>2 DEF Collected, CollectorTyped, ResultCounted
<1>3. ASSUME NEW end \in {"Cancelled", "TimedOut", "Failed"}, Interrupted(end) PROVE Collected'
  <2>1. end \in Ends /\ cpc # "done" /\ Finish(result, end) /\ UNCHANGED draining
    BY <1>3 DEF Interrupted, Ends
  <2> QED BY <2>1, EndsWithinBudgets
<1>4. CASE RawTerminal
  <2>1. CASE Finish(result, TerminalEnd)
    <3>1. TerminalEnd \in Ends /\ cpc # "done" /\ draining' = TRUE
      BY <1>4 DEF TerminalEnd, Ends, RawTerminal
    <3>2. result \in ResultType
      BY DEF Collected, CollectorTyped
    <3>3. /\ result' \in ResultType /\ result'.end \in Ends /\ cpc' = "done"
          /\ result'.events = result.events /\ result'.received = result.received
          /\ result'.bytes = result.bytes /\ result'.duplicates = result.duplicates
          /\ raw' = [raw EXCEPT !.closed = TRUE]
      BY <2>1, <3>1, <3>2, FinishIsTyped
    <3>4. raw'.closed /\ result'.end # "none"
      BY <3>3 DEF EvidenceTyped, RawType, Ends
    <3>5. ResultCounted'
      BY <3>1, <3>3 DEF Collected, ResultCounted
    <3> QED BY <3>1, <3>3, <3>4, <3>5 DEF Collected, CollectorTyped
  <2>2. CASE UNCHANGED <<cpc, result, raw>>
    BY <1>4, <2>2 DEF RawTerminal, Collected, CollectorTyped, ResultCounted
  <2> QED BY <1>4, <2>1, <2>2 DEF RawTerminal
<1>5. CASE CollectEvent
  BY <1>5, EventsWithinBudgets
<1>6. CASE CollectClosed
  <2>1. Head(activity) \in Activities /\ Head(activity).type = "CLOSED"
    BY <1>6 DEF CollectClosed, ActivityTyped
  <2>2. Head(activity).arg \in Ends
    BY <2>1 DEF Activities, EventNotes
  <2>3. cpc # "done" /\ Finish(result, Head(activity).arg) /\ UNCHANGED draining
    BY <1>6 DEF CollectClosed, CollectorListens
  <2> QED BY <2>2, <2>3, EndsWithinBudgets
<1>7. CASE UNCHANGED <<collector, raw>>
  BY <1>1, <1>7
<1>8. CASE ReceiveEose \/ CloseEvidence \/ Forward \/ RejectInput
  BY <1>1, <1>8 DEF ReceiveEose, CloseEvidence, Forward, RejectInput, HandlerUnchanged,
                    EvidenceTyped, RawType
<1>9. ASSUME NEW e, RecordEvent(e) PROVE Collected'
  BY <1>1, <1>9 DEF RecordEvent, EvidenceTyped, RawType
<1> QED
  BY <1>2, <1>3, <1>4, <1>5, <1>6, <1>7, <1>8, <1>9
     DEF Next, CollectorStep, HandlerStep, Validation, LookUp, HandlerCancelled, RecvLagged, Recv,
         RecvEvent, SendActivity, RecvEose, RecvClosed, RecvStatus, RecvAuthenticated,
         RecvAuthFailed, Resubscribe, Report, SendClose, RemoveSubscription, HandlerUnchanged,
         FrameProcessed, NotifyEvent, RejectEvent, GraceEnds, Cancel, GuardRemoves, GuardCloses,
         ReceiveClosed, SendWsMsg, LoseConnection, SessionEnds, Reconnect, AuthOutcome, evidence

\* The evidence counts one event over the limit at most.
LEMMA EvidenceKept ==
    ASSUME EvidenceTyped, RawCounted, HandlerTyped, Next
    PROVE  EvidenceTyped' /\ RawCounted'
<1>1. ASSUME UNCHANGED raw, terminal' \in BOOLEAN PROVE EvidenceTyped' /\ RawCounted'
  BY <1>1 DEF EvidenceTyped, RawCounted
<1>2. ASSUME NEW c \in BOOLEAN, raw' = [raw EXCEPT !.closed = c], terminal' \in BOOLEAN
      PROVE  EvidenceTyped' /\ RawCounted'
  BY <1>2 DEF EvidenceTyped, RawCounted, RawType
<1>3. ASSUME NEW res, NEW end, Finish(res, end), terminal' \in BOOLEAN
      PROVE  EvidenceTyped' /\ RawCounted'
  BY <1>2, <1>3 DEF Finish
<1>4. (raw.phase # "Active") \in BOOLEAN /\ terminal \in BOOLEAN /\ raw.closed \in BOOLEAN
      /\ raw.rejected \in BOOLEAN
  BY DEF EvidenceTyped, RawType
<1>5. CASE RawTerminal \/ CollectEvent \/ CollectClosed
  <2>1. terminal' \in BOOLEAN
    BY <1>4, <1>5 DEF RawTerminal, CollectEvent, CollectClosed
  <2> QED BY <1>1, <1>3, <1>5, <2>1 DEF RawTerminal, CollectEvent, CollectClosed
<1>6. ASSUME NEW end, Interrupted(end) PROVE EvidenceTyped' /\ RawCounted'
  BY <1>3, <1>4, <1>6 DEF Interrupted
<1>7. ASSUME NEW e \in Events, RecordEvent(e) PROVE EvidenceTyped' /\ RawCounted'
  <2>1. CASE UNCHANGED raw
    BY <1>1, <1>4, <1>7, <2>1 DEF RecordEvent
  <2>2. CASE /\ raw.phase = "Active"
             /\ raw' = [raw EXCEPT !.items = @ + 1,
                          !.phase = IF raw.items + 1 > MaxItems THEN "Exhausted" ELSE @]
    <3>1. raw.items \in Nat /\ raw.items <= MaxItems /\ MaxItems \in Nat
      BY <2>2, LimitsAssumption DEF EvidenceTyped, RawType, RawCounted
    <3>2. /\ raw' \in RawType /\ raw'.items = raw.items + 1
          /\ raw'.phase = IF raw.items + 1 > MaxItems THEN "Exhausted" ELSE raw.phase
      <4>1. PICK p \in {"Active", "Exhausted", "ExhaustedValid"} :
              /\ p = IF raw.items + 1 > MaxItems THEN "Exhausted" ELSE raw.phase
              /\ raw' = [raw EXCEPT !.items = @ + 1, !.phase = p]
        BY <2>2
      <4>2. raw.items + 1 \in Nat
        BY <3>1
      <4> QED BY <4>1, <4>2 DEF EvidenceTyped, RawType
    <3>3. terminal' \in BOOLEAN
      BY <1>4, <1>7 DEF RecordEvent
    <3> QED BY <2>2, <3>1, <3>2, <3>3 DEF EvidenceTyped, RawCounted
  <2> QED BY <1>7, <2>1, <2>2 DEF RecordEvent
<1>8. CASE Forward
  <2>1. CASE UNCHANGED raw
    BY <1>1, <1>4, <1>8, <2>1 DEF Forward
  <2>2. CASE raw' = [raw EXCEPT !.forwarded = @ + 1,
                       !.phase = IF @ = "Exhausted" THEN "ExhaustedValid" ELSE @]
    <3>1. raw' \in RawType /\ raw'.items = raw.items /\ (raw'.phase = "Active" => raw.phase = "Active")
      <4>1. PICK p \in {"Active", "Exhausted", "ExhaustedValid"} :
              /\ p = "Active" => raw.phase = "Active"
              /\ raw' = [raw EXCEPT !.forwarded = @ + 1, !.phase = p]
        BY <2>2 DEF EvidenceTyped, RawType
      <4>2. raw.forwarded + 1 \in Nat
        BY DEF EvidenceTyped, RawType
      <4> QED BY <4>1, <4>2 DEF EvidenceTyped, RawType
    <3> QED BY <1>4, <1>8, <3>1 DEF Forward, EvidenceTyped, RawCounted
  <2> QED BY <1>8, <2>1, <2>2 DEF Forward
<1>9. CASE RejectEvent \/ FrameProcessed \/ SessionEnds
  <2>1. UNCHANGED raw /\ (UNCHANGED terminal \/ Processed)
    BY <1>9 DEF RejectEvent, FrameProcessed, SessionEnds
  <2>2. terminal' \in BOOLEAN
    BY <1>4, <2>1 DEF Processed
  <2> QED BY <1>1, <2>1, <2>2
<1>10. CASE RejectInput
  BY <1>10 DEF RejectInput, EvidenceTyped, RawCounted, RawType
<1>11. CASE ReceiveEose
  <2>1. (raw.closed \/ (registered /\ policy = "ExitOnEOSE")) \in BOOLEAN
    BY <1>4
  <2> QED BY <1>2, <1>4, <1>11, <2>1 DEF ReceiveEose
<1>12. CASE CloseEvidence
  <2>1. (raw.closed \/ h.hasRaw) \in BOOLEAN
    BY <1>4
  <2> QED BY <1>2, <1>4, <1>12, <2>1 DEF CloseEvidence, HandlerUnchanged
<1>13. CASE UNCHANGED <<raw, terminal>>
  BY <1>1, <1>4, <1>13
<1> QED
  BY <1>5, <1>6, <1>7, <1>8, <1>9, <1>10, <1>11, <1>12, <1>13
     DEF Next, CollectorStep, HandlerStep, Validation, Begin, Register, SendReq, LookUp,
         HandlerCancelled, RecvLagged, Recv, RecvEvent, SendActivity, RecvEose, RecvClosed,
         RecvStatus, RecvAuthenticated, RecvAuthFailed, Resubscribe, Report, SendClose,
         RemoveSubscription, HandlerUnchanged, NotifyEvent, GraceEnds, DropCollector, Cancel,
         GuardRemoves, GuardCloses, ReceiveClosed, SendWsMsg, LoseConnection, Reconnect,
         AuthOutcome, evidence

-----------------------------------------------------------------------------
(* Theorems                                                                *)

LEMMA BudgetsByParts ==
    BudgetInv <=> PartsTyped /\ RawCounted /\ Collected /\ NoHandlerInSetup
BY TypedByParts DEF BudgetInv, PartsTyped, Collected

LEMMA NextBudgets == BudgetInv /\ [Next]_vars => BudgetInv'
<1>1. CASE BudgetInv /\ Next
  <2>1. PartsTyped /\ RawCounted /\ Collected /\ NoHandlerInSetup
    BY <1>1, BudgetsByParts
  <2>2. CallerTyped' /\ ReceiverTyped' /\ SessionTyped'
    BY <1>1, <2>1, CallerKept, ReceiverKept, SessionKept DEF PartsTyped
  <2>3. ChannelTyped' /\ ActivityTyped' /\ HandlerTyped'
    BY <1>1, <2>1, ChannelKept, ActivityKept, HandlerKept DEF PartsTyped
  <2>4. EvidenceTyped' /\ RawCounted' /\ Collected' /\ NoHandlerInSetup'
    BY <1>1, <2>1, EvidenceKept, CollectedKept, NoHandlerInSetupKept DEF PartsTyped
  <2>5. PartsTyped'
    BY <2>2, <2>3, <2>4 DEF PartsTyped, Collected
  <2>6. (BudgetInv <=> PartsTyped /\ RawCounted /\ Collected /\ NoHandlerInSetup)'
    BY BudgetsByParts, PTL
  <2> QED BY <2>4, <2>5, <2>6
<1>2. CASE BudgetInv /\ UNCHANGED vars
  BY <1>2 DEF BudgetInv, Typed, TypeOK, RawCounted, ResultCounted, NoHandlerInSetup, vars
<1> QED BY <1>1, <1>2

\* What the report tells is frozen when the collector has ended.
LEMMA FrozenWhenDone ==
    ASSUME BudgetInv, Next, cpc = "done"
    PROVE  raw' = raw /\ result' = result
<1>1. raw \in RawType /\ raw.closed
  BY DEF BudgetInv, Typed
<1>2. CASE UNCHANGED <<raw, result>>
  BY <1>2
<1>3. CASE ReceiveEose \/ CloseEvidence
  <2>1. raw' = [raw EXCEPT !.closed = TRUE] /\ result' = result
    BY <1>1, <1>3 DEF ReceiveEose, CloseEvidence, HandlerUnchanged, collector
  <2>2. raw.closed = TRUE
    BY <1>1 DEF RawType
  <2> QED BY <1>1, <2>1, <2>2 DEF RawType
<1>4. ~CollectorStep
  BY DEF CollectorStep, Begin, Register, SendReq, RawTerminal, CollectEvent, CollectClosed,
              CollectorListens, Interrupted
<1>5. ASSUME NEW end, Interrupted(end) PROVE FALSE
  BY <1>5 DEF Interrupted
<1>6. ASSUME NEW e, RecordEvent(e) PROVE raw' = raw /\ result' = result
  BY <1>1, <1>6 DEF RecordEvent, collector
<1> QED
  BY <1>1, <1>2, <1>3, <1>4, <1>5, <1>6
     DEF Next, HandlerStep, Validation, LookUp, HandlerCancelled, RecvLagged, Recv, RecvEvent,
         SendActivity, RecvEose, RecvClosed, RecvStatus, RecvAuthenticated, RecvAuthFailed,
         Resubscribe, Report, SendClose, RemoveSubscription, HandlerUnchanged, Forward,
         FrameProcessed, NotifyEvent, RejectEvent, GraceEnds, DropCollector, Cancel,
         GuardRemoves, GuardCloses, RejectInput, ReceiveClosed, SendWsMsg, LoseConnection,
         SessionEnds, Reconnect, AuthOutcome, collector, evidence

\* The locals of the tasks of an acquisition have their types, and what is
\* counted stays within the limits (BudgetInv); the invariant of the others.
THEOREM BudgetInvariant == Spec => []BudgetInv
BY InitBudgets, NextBudgets, PTL DEF Spec

\* The budgets bound what is retained and counted, whatever the relay sends and
\* however events wait in the channels (accept_event, item_budget, record).
THEOREM BudgetsHold == Spec => []WithinBudgets
<1>1. BudgetInv => WithinBudgets
  BY DEF BudgetInv, Typed, RawCounted, ResultCounted, WithinBudgets
<1> QED BY <1>1, BudgetInvariant, PTL

\* Once the collector has ended, frames that are still validated change
\* nothing the report tells (finish, RawEvidence::close).
THEOREM EvidenceStaysFrozen == Spec => EvidenceIsFrozen
<1>1. BudgetInv /\ [Next]_vars => [(cpc = "done") => raw' = raw /\ result' = result]_vars
  BY FrozenWhenDone
<1> QED BY <1>1, BudgetInvariant, PTL DEF Spec, EvidenceIsFrozen
-----------------------------------------------------------------------------
(* The channel: what an EOSE in it divides                                 *)

\* Due and ExitIsDue, of any channel
Front(q) == {n \in DOMAIN q : q[n].type = "EVENT" /\ \A m \in 1 .. n : ~Exit(q[m])}
Exits(q) == \E n \in DOMAIN q : Exit(q[n])

LEMMA DueIsFront ==
    ASSUME policy' = policy
    PROVE  /\ Due = Front(notes) /\ (ExitIsDue <=> Exits(notes))
           /\ Due' = Front(notes') /\ (ExitIsDue' <=> Exits(notes'))
BY DEF Due, Front, Exits, ExitIsDue, Exit

LEMMA FrontIsFinite ==
    ASSUME NEW S, NEW q \in Seq(S)
    PROVE  IsFiniteSet(Front(q)) /\ Cardinality(Front(q)) \in Nat
<1>1. Front(q) \subseteq 1 .. Len(q) /\ Len(q) \in Nat
  BY DEF Front
<1>2. IsFiniteSet(1 .. Len(q))
  BY <1>1, FS_Interval
<1>3. IsFiniteSet(Front(q))
  BY <1>1, <1>2, FS_Subset
<1> QED BY <1>3, FS_CardinalityType

\* A notification more: an event is due unless an EOSE is in front of it.
LEMMA FrontAppend ==
    ASSUME NEW S, NEW q \in Seq(S), NEW x \in S
    PROVE  /\ Exits(Append(q, x)) <=> Exits(q) \/ Exit(x)
           /\ Cardinality(Front(Append(q, x)))
                = Cardinality(Front(q)) + One(x.type = "EVENT" /\ ~Exits(q))
<1> DEFINE n == Len(q) + 1
           p == Append(q, x)
<1>1. DOMAIN p = (1 .. Len(q)) \union {n} /\ DOMAIN q = 1 .. Len(q) /\ Len(q) \in Nat
  OBVIOUS
<1>2. \A i \in 1 .. Len(q) : p[i] = q[i]
  OBVIOUS
<1>3. p[n] = x /\ n \notin 1 .. Len(q)
  OBVIOUS
<1> HIDE DEF p
<1>4. Exits(p) <=> Exits(q) \/ Exit(x)
  BY <1>1, <1>2, <1>3 DEF Exits
<1>5. \A i \in 1 .. Len(q) : i \in Front(p) <=> i \in Front(q)
  <2> SUFFICES ASSUME NEW i \in 1 .. Len(q) PROVE i \in Front(p) <=> i \in Front(q)
    OBVIOUS
  <2>1. \A m \in 1 .. i : p[m] = q[m]
    BY <1>1, <1>2
  <2> QED BY <1>1, <1>2, <2>1 DEF Front
<1>6. n \in Front(p) <=> x.type = "EVENT" /\ ~Exits(q)
  <2>1. x.type = "EVENT" => ~Exit(x)
    BY DEF Exit
  <2>2. 1 .. n = (1 .. Len(q)) \union {n}
    BY <1>1
  <2>3. (\A m \in 1 .. n : ~Exit(p[m])) <=> (\A m \in 1 .. Len(q) : ~Exit(q[m])) /\ ~Exit(x)
    BY <1>2, <1>3, <2>2
  <2> QED BY <1>1, <1>3, <2>1, <2>3 DEF Front, Exits
<1>7. IsFiniteSet(Front(q)) /\ Cardinality(Front(q)) \in Nat
  BY FrontIsFinite
<1>8. Front(q) \subseteq 1 .. Len(q) /\ Front(p) \subseteq (1 .. Len(q)) \union {n}
  BY <1>1 DEF Front
<1>9. CASE x.type = "EVENT" /\ ~Exits(q)
  <2>1. Front(p) = Front(q) \union {n} /\ n \notin Front(q)
    BY <1>3, <1>5, <1>6, <1>8, <1>9
  <2>2. Cardinality(Front(q) \union {n}) = Cardinality(Front(q)) + 1
    BY <1>7, <2>1, FS_AddElement
  <2> QED BY <1>4, <1>9, <2>1, <2>2 DEF One, p
<1>10. CASE ~(x.type = "EVENT" /\ ~Exits(q))
  <2>1. Front(p) = Front(q)
    BY <1>5, <1>6, <1>8, <1>10
  <2> QED BY <1>4, <1>7, <1>10, <2>1 DEF One, p
<1> QED BY <1>9, <1>10

\* The notification in front is read.
LEMMA FrontTail ==
    ASSUME NEW S, NEW q \in Seq(S), q # <<>>, ~Exit(Head(q))
    PROVE  /\ Exits(q) <=> Exits(Tail(q))
           /\ Cardinality(Front(q)) = Cardinality(Front(Tail(q))) + One(Head(q).type = "EVENT")
<1> DEFINE t == Tail(q)
           T == Front(t)
           R == {i \in Front(q) : i > 1}
           f == [i \in T |-> i + 1]
<1>1. /\ Len(q) \in Nat \ {0} /\ DOMAIN q = 1 .. Len(q) /\ t \in Seq(S)
      /\ DOMAIN t = 1 .. (Len(q) - 1) /\ Head(q) = q[1]
  OBVIOUS
<1>2. \A i \in 1 .. (Len(q) - 1) : t[i] = q[i + 1]
  OBVIOUS
<1> HIDE DEF t
<1>3. Exits(q) <=> Exits(t)
  <2>1. ASSUME NEW i \in DOMAIN q, Exit(q[i]) PROVE Exits(t)
    <3>1. i # 1 /\ i - 1 \in 1 .. (Len(q) - 1) /\ (i - 1) + 1 = i
      BY <1>1, <2>1
    <3> QED BY <1>1, <1>2, <2>1, <3>1 DEF Exits
  <2>2. ASSUME NEW i \in DOMAIN t, Exit(t[i]) PROVE Exits(q)
    <3>1. i + 1 \in DOMAIN q /\ q[i + 1] = t[i]
      BY <1>1, <1>2
    <3> QED BY <2>2, <3>1 DEF Exits
  <2> QED BY <2>1, <2>2 DEF Exits
<1>4. \A i \in T : i \in Int /\ i + 1 \in R
  <2> SUFFICES ASSUME NEW i \in T PROVE i \in Int /\ i + 1 \in R
    OBVIOUS
  <2>1. i \in 1 .. (Len(q) - 1) /\ t[i].type = "EVENT" /\ \A m \in 1 .. i : ~Exit(t[m])
    BY <1>1 DEF Front
  <2>2. i + 1 \in DOMAIN q /\ i + 1 > 1 /\ q[i + 1].type = "EVENT"
    BY <1>1, <1>2, <2>1
  <2>3. ASSUME NEW m \in 1 .. (i + 1) PROVE ~Exit(q[m])
    <3>1. CASE m = 1
      BY <1>1, <3>1
    <3>2. CASE m # 1
      <4>1. m - 1 \in 1 .. i /\ m - 1 \in 1 .. (Len(q) - 1) /\ (m - 1) + 1 = m
        BY <1>1, <2>1, <3>2
      <4> QED BY <1>2, <2>1, <4>1
    <3> QED BY <3>1, <3>2
  <2> QED BY <2>1, <2>2, <2>3 DEF Front
<1>5. \A j \in R : j - 1 \in T /\ j \in Int
  <2> SUFFICES ASSUME NEW j \in R PROVE j - 1 \in T /\ j \in Int
    OBVIOUS
  <2>1. j \in 2 .. Len(q) /\ q[j].type = "EVENT" /\ \A m \in 1 .. j : ~Exit(q[m])
    BY <1>1 DEF Front
  <2>2. j - 1 \in DOMAIN t /\ t[j - 1] = q[j]
    BY <1>1, <1>2, <2>1
  <2>3. ASSUME NEW m \in 1 .. (j - 1) PROVE ~Exit(t[m])
    <3>1. m \in 1 .. (Len(q) - 1) /\ m + 1 \in 1 .. j
      BY <1>1, <2>1
    <3> QED BY <1>2, <2>1, <3>1
  <2> QED BY <2>1, <2>2, <2>3 DEF Front
<1>6. f \in Bijection(T, R)
  <2>1. f \in [T -> R]
    BY <1>4
  <2>2. \A a, b \in T : f[a] = f[b] => a = b
    BY <1>4
  <2>3. \A j \in R : \E i \in T : f[i] = j
    <3> SUFFICES ASSUME NEW j \in R PROVE \E i \in T : f[i] = j
      OBVIOUS
    <3>1. j - 1 \in T /\ f[j - 1] = j
      BY <1>5
    <3> QED BY <3>1
  <2> QED BY <2>1, <2>2, <2>3, Fun_IsBij
<1>7. Cardinality(R) = Cardinality(T) /\ IsFiniteSet(R)
  <2>1. IsFiniteSet(T)
    BY <1>1, FrontIsFinite
  <2>2. ExistsBijection(T, R)
    BY <1>6, Fun_ExistsBij
  <2> QED BY <2>1, <2>2, FS_Bijection
<1>8. 1 \in Front(q) <=> Head(q).type = "EVENT"
  BY <1>1 DEF Front, Exit
<1>9. Front(q) \subseteq 1 .. Len(q) /\ Cardinality(T) \in Nat
  BY <1>1, FrontIsFinite DEF Front
<1>10. CASE Head(q).type = "EVENT"
  <2>1. Front(q) = R \union {1} /\ 1 \notin R
    BY <1>8, <1>9, <1>10
  <2>2. Cardinality(R \union {1}) = Cardinality(R) + 1
    BY <1>7, <2>1, FS_AddElement
  <2> QED BY <1>3, <1>7, <1>10, <2>1, <2>2 DEF One, t
<1>11. CASE Head(q).type # "EVENT"
  <2>1. Front(q) = R
    BY <1>8, <1>9, <1>11
  <2>2. One(Head(q).type = "EVENT") = 0
    BY <1>11 DEF One
  <2> HIDE DEF R, T
  <2>3. Cardinality(Front(q)) = Cardinality(T) + 0
    BY <1>7, <1>9, <2>1
  <2> QED BY <1>3, <2>2, <2>3 DEF t, T
<1> QED BY <1>10, <1>11

\* Behind an EOSE nothing is due.
LEMMA FrontOfExit ==
    ASSUME NEW S, NEW q \in Seq(S), q # <<>>, Exit(Head(q))
    PROVE  Exits(q) /\ Cardinality(Front(q)) = 0
<1>1. 1 \in DOMAIN q /\ Head(q) = q[1] /\ DOMAIN q = 1 .. Len(q)
  OBVIOUS
<1>2. Front(q) = {}
  BY <1>1 DEF Front
<1> QED BY <1>1, <1>2, FS_EmptySet DEF Exits
-----------------------------------------------------------------------------
(* The setup, and the evidence                                             *)

InSetup == cpc \in {"new", "registering", "registered"}

LEMMA BroadcastInSetup ==
    ASSUME notes \in Seq(Notices), NEW n, n.type \notin {"EVENT", "EOSE"}, Broadcast(n),
           \A i \in DOMAIN notes : notes[i].type \notin {"EVENT", "EOSE"}
    PROVE  \A i \in DOMAIN notes' : notes'[i].type \notin {"EVENT", "EOSE"}
<1>1. CASE UNCHANGED channel
  BY <1>1 DEF channel
<1>2. CASE notes' = Append(notes, n)
  BY <1>2
<1>3. CASE notes' = Append(Tail(notes), n) /\ Len(notes) # 0
  <2>1. \A i \in DOMAIN Tail(notes) : i + 1 \in DOMAIN notes /\ Tail(notes)[i] = notes[i + 1]
    BY <1>3
  <2>2. Tail(notes) \in Seq(Notices)
    BY <1>3
  <2> QED BY <1>3, <2>1, <2>2
<1> QED BY <1>1, <1>2, <1>3, BoundsAssumption DEF Broadcast

LEMMA SetupIsQuietKept ==
    ASSUME BudgetInv, SetupIsQuiet, Next
    PROVE  SetupIsQuiet'
<1> SUFFICES ASSUME InSetup' PROVE SetupIsQuiet'
  BY DEF InSetup, SetupIsQuiet
<1>1. ~Interrupted("Cancelled") /\ ~Interrupted("TimedOut") /\ ~Interrupted("Failed")
      /\ ~DropCollector /\ ~SendReq /\ ~CollectClosed
  BY DEF InSetup, Interrupted, Finish, DropCollector, SendReq, CollectClosed
<1>2. ~RawTerminal /\ ~CollectEvent
  BY DEF InSetup, RawTerminal, CollectEvent, CollectorListens, Finish
<1>3. (cpc' = cpc \/ Begin \/ Register)
  BY <1>1, <1>2
     DEF Next, CollectorStep, HandlerStep, Validation, LookUp, HandlerCancelled, RecvLagged, Recv,
         RecvEvent, SendActivity, RecvEose, RecvClosed, RecvStatus, RecvAuthenticated,
         RecvAuthFailed, Resubscribe, CloseEvidence, Report, SendClose, RemoveSubscription,
         HandlerUnchanged, Forward, FrameProcessed, NotifyEvent, RejectEvent, GraceEnds, Cancel,
         GuardRemoves, GuardCloses, RecordEvent, RejectInput, ReceiveEose, ReceiveClosed,
         SendWsMsg, LoseConnection, SessionEnds, Reconnect, AuthOutcome, collector
<1>4. InSetup
  BY <1>3 DEF InSetup, Begin, Register
<1>5. /\ out = <<>> /\ ~known /\ rpc = "idle" /\ activity = <<>> /\ guard = "none"
      /\ raw.forwarded = 0 /\ ~raw.closed /\ result.received = 0
      /\ \A n \in DOMAIN notes : notes[n].type \notin {"EVENT", "EOSE"}
  BY <1>4 DEF InSetup, SetupIsQuiet
<1>6. h.pc = "none" /\ notes \in Seq(Notices)
  BY <1>4 DEF InSetup, BudgetInv, NoHandlerInSetup, Typed
<1>7. ~HandlerStep /\ ~GraceEnds
  BY <1>6 DEF HandlerStep, LookUp, HandlerCancelled, RecvLagged, Recv, RecvEvent, SendActivity,
              RecvEose, RecvClosed, RecvStatus, RecvAuthenticated, RecvAuthFailed, Resubscribe,
              CloseEvidence, Report, SendClose, RemoveSubscription, GraceEnds, Listening
<1>8. /\ ~Validation /\ ~RejectEvent /\ ~RejectInput /\ ~ReceiveEose
      /\ \A e : ~RecordEvent(e) /\ \A reason : ~ReceiveClosed(reason)
  BY <1>5 DEF Validation, Forward, FrameProcessed, NotifyEvent, RejectEvent, RejectInput,
              ReceiveEose, RecordEvent, ReceiveClosed, CanReceive
<1>9. ~GuardRemoves /\ ~GuardCloses /\ ~SendWsMsg
  BY <1>5 DEF GuardRemoves, GuardCloses, SendWsMsg
<1>10. CASE UNCHANGED <<out, known, rpc, activity, guard, raw, result, notes>>
  BY <1>5, <1>10 DEF SetupIsQuiet
<1>11. ASSUME NEW n, Broadcast(n), n.type \notin {"EVENT", "EOSE"},
              UNCHANGED <<out, known, rpc, activity, guard, raw, result>>
       PROVE  SetupIsQuiet'
  <2>1. \A i \in DOMAIN notes' : notes'[i].type \notin {"EVENT", "EOSE"}
    BY <1>5, <1>6, <1>11, BroadcastInSetup
  <2> QED BY <1>5, <1>11, <2>1 DEF SetupIsQuiet
<1>12. CASE LoseConnection
  <2>1. Note("Disconnected", "none").type \notin {"EVENT", "EOSE"}
    BY DEF Note
  <2> QED BY <1>11, <1>12, <2>1 DEF LoseConnection, collector, evidence, receiver
<1>13. ASSUME NEW type \in {"Authenticated", "AuthenticationFailed"}, AuthOutcome(type)
       PROVE  SetupIsQuiet'
  <2>1. Note(type, "none").type \notin {"EVENT", "EOSE"}
    BY DEF Note
  <2> QED BY <1>11, <1>13, <2>1 DEF AuthOutcome, collector, evidence, receiver, link
<1>14. CASE SessionEnds
  BY <1>5, <1>10, <1>14 DEF SessionEnds, collector, channel
<1>15. CASE Begin \/ Register \/ Cancel \/ Reconnect
  BY <1>10, <1>15 DEF Begin, Register, Cancel, Reconnect, collector, evidence, receiver, channel, link
<1> QED
  BY <1>1, <1>2, <1>7, <1>8, <1>9, <1>12, <1>13, <1>14, <1>15 DEF Next, CollectorStep

\* An event is counted once when it is recorded and once when it is forwarded;
\* the collector is told of nothing that is not so.
LEMMA EvidenceIsTrueKept ==
    ASSUME BudgetInv, EvidenceIsTrue, Next
    PROVE  EvidenceIsTrue'
<1>1. /\ raw \in RawType /\ raw.items \in Nat /\ raw.forwarded \in Nat /\ MaxItems \in Nat
      /\ raw.closed \in BOOLEAN
      /\ rpc \in {"idle", "validating", "forwarded", "processed"}
  BY LimitsAssumption DEF BudgetInv, Typed, TypeOK, RawType
<1>2. \A b \in BOOLEAN : One(b) = IF b THEN 1 ELSE 0
  BY DEF One
<1>3. ASSUME /\ raw'.items = raw.items /\ raw'.forwarded = raw.forwarded
             /\ raw'.phase = raw.phase /\ (raw.rejected => raw'.rejected)
             /\ rpc' = rpc \/ rpc' # "validating"
             /\ terminal' \/ draining' => terminal \/ draining \/ raw.phase # "Active"
      PROVE  EvidenceIsTrue'
  <2>1. One(rpc' = "validating") <= One(rpc = "validating")
        /\ One(rpc' = "validating") \in Nat /\ One(rpc = "validating") \in Nat
    BY <1>3 DEF One
  <2>2. raw.forwarded + One(rpc = "validating") <= raw.items
    BY DEF EvidenceIsTrue
  <2>3. raw.forwarded + One(rpc' = "validating") <= raw.items
    BY <1>1, <2>1, <2>2
  <2> QED BY <1>3, <2>3 DEF EvidenceIsTrue
<1>4. CASE UNCHANGED <<raw, terminal, draining, rpc>>
  BY <1>3, <1>4
<1>5. ASSUME NEW res, NEW end, Finish(res, end), UNCHANGED rpc,
             terminal' \/ draining' => terminal \/ draining
      PROVE  EvidenceIsTrue'
  BY <1>1, <1>3, <1>5 DEF Finish, RawType
<1>6. ASSUME NEW end, Interrupted(end) PROVE EvidenceIsTrue'
  BY <1>5, <1>6 DEF Interrupted, receiver
<1>7. CASE RawTerminal \/ CollectEvent \/ CollectClosed
  <2>1. UNCHANGED rpc /\ (terminal' \/ draining' => terminal \/ draining)
    BY <1>7 DEF RawTerminal, CollectEvent, CollectClosed, receiver
  <2>2. UNCHANGED raw \/ \E res, end : Finish(res, end)
    BY <1>7 DEF RawTerminal, CollectEvent, CollectClosed
  <2> QED BY <1>3, <1>5, <2>1, <2>2
<1>8. ASSUME NEW e, RecordEvent(e) PROVE EvidenceIsTrue'
  <2>1. CASE UNCHANGED <<raw, receiver>>
    BY <1>4, <1>8, <2>1 DEF RecordEvent, collector, receiver
  <2>2. CASE /\ raw.phase = "Active" /\ ~raw.rejected /\ rpc = "idle" /\ rpc' = "validating"
             /\ raw' = [raw EXCEPT !.items = @ + 1,
                          !.phase = IF raw.items + 1 > MaxItems THEN "Exhausted" ELSE @]
    <3>1. /\ raw'.items = raw.items + 1 /\ raw'.forwarded = raw.forwarded
          /\ raw'.phase \in {"Active", "Exhausted"} /\ raw'.rejected = raw.rejected
          /\ raw'.phase # "Active" => raw.items + 1 > MaxItems
      BY <1>1, <2>2 DEF RawType
    <3>2. ~(terminal' \/ draining')
      BY <1>8, <2>2 DEF RecordEvent, collector, EvidenceIsTrue
    <3>3. One(rpc = "validating") = 0 /\ One(rpc' = "validating") = 1
      BY <2>2 DEF One
    <3>4. raw.forwarded + One(rpc = "validating") <= raw.items
      BY DEF EvidenceIsTrue
    <3>5. raw'.forwarded + One(rpc' = "validating") <= raw'.items
      BY <1>1, <3>1, <3>3, <3>4
    <3> QED BY <3>1, <3>2, <3>5 DEF EvidenceIsTrue
  <2> QED BY <1>8, <2>1, <2>2 DEF RecordEvent, CanReceive
<1>9. CASE Forward
  <2>1. CASE UNCHANGED raw
    BY <1>3, <1>9, <2>1 DEF Forward, collector
  <2>2. CASE raw' = [raw EXCEPT !.forwarded = @ + 1,
                       !.phase = IF @ = "Exhausted" THEN "ExhaustedValid" ELSE @]
    <3>1. /\ raw'.items = raw.items /\ raw'.forwarded = raw.forwarded + 1
          /\ raw'.rejected = raw.rejected /\ (raw'.phase # "Active" <=> raw.phase # "Active")
      BY <1>1, <2>2 DEF RawType
    <3>2. One(rpc = "validating") = 1 /\ One(rpc' = "validating") = 0 /\ rpc' # "validating"
      BY <1>9 DEF One, Forward
    <3>3. raw.forwarded + One(rpc = "validating") <= raw.items
      BY DEF EvidenceIsTrue
    <3>4. raw'.forwarded + One(rpc' = "validating") <= raw'.items
      BY <1>1, <3>1, <3>2, <3>3
    <3> QED BY <1>9, <3>1, <3>2, <3>4 DEF EvidenceIsTrue, Forward, collector
  <2> QED BY <1>9, <2>1, <2>2 DEF Forward
<1>10. CASE RejectEvent \/ FrameProcessed \/ SessionEnds
  BY <1>3, <1>10 DEF RejectEvent, FrameProcessed, SessionEnds, Processed, collector
<1>11. CASE RejectInput
  <2>1. /\ raw'.items = raw.items /\ raw'.forwarded = raw.forwarded
        /\ raw'.phase = raw.phase /\ raw'.rejected
    BY <1>1, <1>11 DEF RejectInput, RawType
  <2> QED BY <1>11, <2>1 DEF RejectInput, EvidenceIsTrue, receiver, collector
<1>12. CASE ReceiveEose \/ CloseEvidence
  <2>1. /\ raw'.items = raw.items /\ raw'.forwarded = raw.forwarded
        /\ raw'.phase = raw.phase /\ raw'.rejected = raw.rejected
    BY <1>1, <1>12 DEF ReceiveEose, CloseEvidence, RawType
  <2> QED
    BY <1>3, <1>12, <2>1 DEF ReceiveEose, CloseEvidence, HandlerUnchanged, receiver, collector
<1>13. CASE NotifyEvent
  BY <1>3, <1>13 DEF NotifyEvent, collector, evidence
<1> QED
  BY <1>4, <1>6, <1>7, <1>8, <1>9, <1>10, <1>11, <1>12, <1>13
     DEF Next, CollectorStep, HandlerStep, Validation, Begin, Register, SendReq, LookUp,
         HandlerCancelled, RecvLagged, Recv, RecvEvent, SendActivity, RecvEose, RecvClosed,
         RecvStatus, RecvAuthenticated, RecvAuthFailed, Resubscribe, Report, SendClose,
         RemoveSubscription, HandlerUnchanged, GraceEnds, DropCollector, Cancel, GuardRemoves,
         GuardCloses, ReceiveClosed, SendWsMsg, LoseConnection, Reconnect, AuthOutcome,
         collector, evidence, receiver
-----------------------------------------------------------------------------
(* What was forwarded, on its way to the collector                         *)

LEMMA FlowNumbers ==
    ASSUME Typed
    PROVE  /\ result.received \in Nat /\ raw.forwarded \in Nat
           /\ Fed \in {0, 1} /\ InHand \in {0, 1} /\ InReceiver \in {0, 1}
           /\ notes \in Seq(Notices) /\ Cardinality(Due) \in Nat /\ raw.closed \in BOOLEAN
<1>1. result.received \in Nat /\ raw.forwarded \in Nat /\ raw.closed \in BOOLEAN
  BY DEF Typed, ResultType, RawType
<1>2. Fed \in {0, 1} /\ InHand \in {0, 1} /\ InReceiver \in {0, 1}
  BY DEF Fed, InHand, InReceiver, One
<1>3. notes \in Seq(Notices)
  BY DEF Typed
<1>4. Cardinality(Front(notes)) \in Nat /\ Due = Front(notes)
  BY <1>3, FrontIsFinite DEF Due, Front
<1> QED BY <1>1, <1>2, <1>3, <1>4

\* The handler has returned: only what it has handed over is left.
LEMMA FlowLeaves ==
    ASSUME ~Reads', result'.received + Fed' + InHand' <= raw'.forwarded
    PROVE  FlowIsWhole'
BY DEF FlowIsWhole

LEMMA FlowOnReturn ==
    ASSUME Typed, FlowIsWhole, cpc = "collecting", NEW reason, NEW toClose,
           Return(reason, toClose), UNCHANGED <<result, raw, activity>>
    PROVE  FlowIsWhole'
<1>1. h'.pc = "ending"
  BY DEF Return, Typed, HandlerType
<1>2. ~Reads' /\ InHand' = 0 /\ Fed' = Fed
  BY <1>1 DEF Reads, InHand, One, Fed, Listening
<1>3. result.received + Fed + InHand <= raw.forwarded
  BY DEF FlowIsWhole
<1>4. result'.received + Fed' + InHand' <= raw'.forwarded
  BY <1>2, <1>3, FlowNumbers
<1> QED BY <1>2, <1>4, FlowLeaves

\* Nothing moves.
LEMMA FlowStays ==
    ASSUME Typed, FlowIsWhole, cpc = "collecting", policy' = policy,
           UNCHANGED <<notes, lagged, activity>>, result'.received = result.received,
           raw'.closed = raw.closed, raw'.forwarded = raw.forwarded,
           h'.pc = "sending" <=> h.pc = "sending", Reads' => Reads, InReceiver' = InReceiver,
           registered' => registered, Still /\ rpc = "idle" => rpc' = "idle"
    PROVE  FlowIsWhole'
<1>1. InHand' = InHand /\ Fed' = Fed
  BY DEF InHand, Fed
<1>2. Due' = Due /\ (ExitIsDue' <=> ExitIsDue)
  BY DueIsFront
<1>3. Still => Still' \/ rpc # "idle"
  BY DEF Still
<1>4. Reads /\ ~lagged /\ ExitIsDue => Still'
  <2> SUFFICES ASSUME Reads, ~lagged, ExitIsDue PROVE Still'
    OBVIOUS
  <2>1. Still /\ (raw.closed => rpc = "idle")
    BY DEF FlowIsWhole
  <2> QED BY <2>1 DEF Still
<1>5. Reads /\ raw.closed => policy = "ExitOnEOSE" /\ rpc' = "idle"
  BY DEF FlowIsWhole, Still
<1> QED BY <1>1, <1>2, <1>4, <1>5 DEF FlowIsWhole

\* The handler reads a notification that is no exit.
LEMMA FlowOnRead ==
    ASSUME Typed, FlowIsWhole, cpc = "collecting", policy' = policy,
           UNCHANGED <<result, raw, activity, rpc, registered>>,
           Reads, Reads', ~lagged, h.pc # "sending", notes # <<>>, ~Exit(Head(notes)),
           notes' = Tail(notes), h'.pc = "sending" <=> Head(notes).type = "EVENT"
    PROVE  FlowIsWhole'
<1>1. /\ result.received + Fed + InHand <= raw.forwarded
      /\ raw.closed => policy = "ExitOnEOSE" /\ rpc = "idle"
      /\ raw.forwarded = result.received + Fed + InHand + Cardinality(Due) + InReceiver
      /\ raw.closed => ExitIsDue
      /\ ExitIsDue => Still
  BY DEF FlowIsWhole
<1>2. InHand = 0 /\ InHand' = One(Head(notes).type = "EVENT")
  BY DEF InHand, One
<1>3. Fed' = Fed /\ InReceiver' = InReceiver /\ (Still' <=> Still)
  BY DEF Fed, InReceiver, Still
<1>4. /\ Exits(notes) <=> Exits(Tail(notes))
      /\ Cardinality(Front(notes)) = Cardinality(Front(Tail(notes))) + One(Head(notes).type = "EVENT")
  BY FlowNumbers, FrontTail
<1>5. Tail(notes) \in Seq(Notices)
  BY FlowNumbers
<1>6. Cardinality(Front(Tail(notes))) \in Nat
  BY <1>5, FrontIsFinite
<1>7. (ExitIsDue' <=> ExitIsDue) /\ Cardinality(Due) = Cardinality(Due') + InHand'
      /\ Cardinality(Due') \in Nat
  BY <1>2, <1>4, <1>6, DueIsFront
<1>8. raw.forwarded = result.received + Fed + InHand' + Cardinality(Due') + InReceiver
      /\ InHand' \in {0, 1}
  <2>1. InHand' \in {0, 1}
    BY <1>2 DEF One
  <2>2. /\ result.received \in Nat /\ raw.forwarded \in Nat /\ Fed \in Nat /\ InReceiver \in Nat
    BY FlowNumbers
  <2>3. raw.forwarded = result.received + Fed + Cardinality(Due) + InReceiver
    BY <1>1, <1>2, <2>2
  <2> QED BY <1>7, <2>1, <2>2, <2>3
<1>9. result.received + Fed + InHand' <= raw.forwarded
  BY <1>7, <1>8, FlowNumbers
<1> QED BY <1>1, <1>3, <1>7, <1>8, <1>9 DEF FlowIsWhole

\* Something else than an event is broadcast.
LEMMA FlowOnBroadcast ==
    ASSUME Typed, FlowIsWhole, cpc = "collecting", policy' = policy,
           NEW n \in Notices, n.type # "EVENT", Broadcast(n),
           UNCHANGED <<result, activity, rpc, h>>, registered' => registered,
           raw'.forwarded = raw.forwarded,
           raw'.closed <=> raw.closed \/ (registered /\ Exit(n)),
           Exit(n) => rpc = "idle"
    PROVE  FlowIsWhole'
<1>1. /\ result.received + Fed + InHand <= raw.forwarded
      /\ Reads =>
            /\ raw.closed => policy = "ExitOnEOSE" /\ rpc = "idle"
            /\ ~lagged =>
                /\ raw.forwarded = result.received + Fed + InHand + Cardinality(Due) + InReceiver
                /\ raw.closed => ExitIsDue
                /\ ExitIsDue => Still
  BY DEF FlowIsWhole
<1>2. Fed' = Fed /\ InHand' = InHand /\ InReceiver' = InReceiver /\ (Reads' <=> Reads)
  BY DEF Fed, InHand, InReceiver, Reads
<1>3. CASE ~Reads
  BY <1>1, <1>2, <1>3, FlowLeaves
<1>4. CASE Reads /\ ~lagged'
  <2>1. notes' = Append(notes, n) /\ ~lagged
    BY <1>4 DEF Broadcast, Subscribed, Reads
  <2>2. /\ Exits(Append(notes, n)) <=> Exits(notes) \/ Exit(n)
        /\ Cardinality(Front(Append(notes, n)))
             = Cardinality(Front(notes)) + One(n.type = "EVENT" /\ ~Exits(notes))
    BY FlowNumbers, FrontAppend
  <2>3. One(n.type = "EVENT" /\ ~Exits(notes)) = 0
    BY DEF One
  <2>4. Cardinality(Due) \in Nat
    BY FlowNumbers
  <2>5. (ExitIsDue' <=> ExitIsDue \/ Exit(n)) /\ Cardinality(Due') = Cardinality(Due)
    BY <2>1, <2>2, <2>3, <2>4, DueIsFront
  <2>6. Exit(n) => Still'
    BY DEF Still
  <2>7. Still => Still'
    BY DEF Still
  <2>8. Exit(n) => policy = "ExitOnEOSE"
    BY DEF Exit
  <2> QED BY <1>1, <1>2, <1>4, <2>1, <2>5, <2>6, <2>7, <2>8 DEF FlowIsWhole
<1>5. CASE Reads /\ lagged'
  BY <1>1, <1>2, <1>5 DEF FlowIsWhole, Exit
<1> QED BY <1>3, <1>4, <1>5

\* A valid event is counted as on its way, and then broadcast.
LEMMA FlowOnForward ==
    ASSUME Typed, EvidenceIsTrue, FlowIsWhole, cpc = "collecting", Forward
    PROVE  FlowIsWhole'
<1>1. /\ result.received + Fed + InHand <= raw.forwarded
      /\ Reads =>
            /\ raw.closed => policy = "ExitOnEOSE" /\ rpc = "idle"
            /\ ~lagged =>
                /\ raw.forwarded = result.received + Fed + InHand + Cardinality(Due) + InReceiver
                /\ raw.closed => ExitIsDue
                /\ ExitIsDue => Still
  BY DEF FlowIsWhole
<1>2. /\ policy' = policy /\ rpc = "validating" /\ rpc' = "forwarded"
      /\ UNCHANGED <<result, activity, h, notes, lagged, registered>>
  BY DEF Forward, caller, collector, channel
<1>3. Fed' = Fed /\ InHand' = InHand /\ (Reads' <=> Reads) /\ InReceiver = 0 /\ InReceiver' = 1
  BY <1>2 DEF Fed, InHand, InReceiver, Reads, One
<1>4. /\ raw'.forwarded \in {raw.forwarded, raw.forwarded + 1}
      /\ ~raw.closed => raw'.forwarded = raw.forwarded + 1 /\ ~raw'.closed
  BY <1>2 DEF Forward, Typed, RawType, EvidenceIsTrue
<1>5. result'.received + Fed' + InHand' <= raw'.forwarded
  BY <1>1, <1>2, <1>3, <1>4, FlowNumbers
<1>6. CASE ~Reads
  BY <1>3, <1>5, <1>6, FlowLeaves
<1>7. CASE Reads
  <2>1. ~raw.closed
    BY <1>1, <1>2, <1>7
  <2>2. Due' = Due /\ (ExitIsDue' <=> ExitIsDue)
    BY <1>2, DueIsFront
  <2>3. ~lagged => ~ExitIsDue
    BY <1>1, <1>2, <1>7, <2>1 DEF Still
  <2>4. ~lagged => raw'.forwarded = result.received + Fed + InHand + Cardinality(Due) + 1
    BY <1>1, <1>3, <1>4, <1>7, <2>1, FlowNumbers
  <2> QED BY <1>2, <1>3, <1>4, <1>5, <2>1, <2>2, <2>3, <2>4 DEF FlowIsWhole
<1> QED BY <1>6, <1>7

LEMMA FlowOnNotify ==
    ASSUME Typed, FlowIsWhole, cpc = "collecting", NotifyEvent
    PROVE  FlowIsWhole'
<1> DEFINE n == Note("EVENT", frame)
<1>1. /\ result.received + Fed + InHand <= raw.forwarded
      /\ Reads =>
            /\ raw.closed => policy = "ExitOnEOSE" /\ rpc = "idle"
            /\ ~lagged =>
                /\ raw.forwarded = result.received + Fed + InHand + Cardinality(Due) + InReceiver
                /\ raw.closed => ExitIsDue
                /\ ExitIsDue => Still
  BY DEF FlowIsWhole
<1>2. /\ policy' = policy /\ rpc = "processed" /\ rpc' = "idle" /\ Broadcast(n)
      /\ UNCHANGED <<result, raw, activity, h, registered>>
  BY DEF NotifyEvent, caller, collector, evidence
<1>3. n \in Notices /\ n.type = "EVENT" /\ ~Exit(n)
  BY <1>2 DEF Typed, TypeOK, Note, Notices, EventNotes, Exit
<1> HIDE DEF n
<1>4. Fed' = Fed /\ InHand' = InHand /\ (Reads' <=> Reads) /\ InReceiver = 1 /\ InReceiver' = 0
  BY <1>2 DEF Fed, InHand, InReceiver, Reads, One
<1>5. CASE ~Reads
  BY <1>1, <1>2, <1>4, <1>5, FlowLeaves
<1>6. CASE Reads
  <2>1. ~raw.closed
    BY <1>1, <1>2, <1>6
  <2>2. ASSUME ~lagged'
        PROVE  /\ raw.forwarded = result.received + Fed + InHand + Cardinality(Due')
               /\ ~ExitIsDue'
    <3>1. notes' = Append(notes, n) /\ ~lagged
      BY <1>2, <1>6, <2>2 DEF Broadcast, Subscribed, Reads
    <3>2. ~ExitIsDue
      BY <1>1, <1>2, <1>6, <2>1, <3>1 DEF Still
    <3>3. /\ Exits(Append(notes, n)) <=> Exits(notes) \/ Exit(n)
          /\ Cardinality(Front(Append(notes, n)))
               = Cardinality(Front(notes)) + One(n.type = "EVENT" /\ ~Exits(notes))
      BY <1>3, FlowNumbers, FrontAppend
    <3>4. Cardinality(Due') = Cardinality(Due) + 1 /\ ~ExitIsDue'
      BY <1>2, <1>3, <3>1, <3>2, <3>3, DueIsFront DEF One
    <3>5. raw.forwarded = result.received + Fed + InHand + Cardinality(Due) + 1
      BY <1>1, <1>4, <1>6, <3>1
    <3>6. /\ result.received \in Nat /\ Fed \in Nat /\ InHand \in Nat /\ Cardinality(Due) \in Nat
      BY FlowNumbers
    <3> QED BY <3>4, <3>5, <3>6
  <2>3. ~lagged' => raw.forwarded = result.received + Fed + InHand + Cardinality(Due') + 0
    <3>1. raw.forwarded \in Nat
      BY FlowNumbers
    <3> QED BY <2>2, <3>1
  <2> QED BY <1>1, <1>2, <1>4, <2>1, <2>2, <2>3 DEF FlowIsWhole
<1> QED BY <1>5, <1>6
\* The handler hands an event over, or reports why it ended; the collector
\* takes it.
LEMMA FlowOnSend ==
    ASSUME Typed, FlowIsWhole, cpc = "collecting", SendActivity
    PROVE  FlowIsWhole'
<1>1. /\ policy' = policy /\ activity = <<>> /\ activity' = <<Note("EVENT", h.hand)>>
      /\ h.pc = "sending" /\ UNCHANGED <<result, raw, rpc, registered>>
  BY DEF SendActivity, CollectorGone, HandlerUnchanged, caller, collector, receiver
<1>2. Fed = 0 /\ Fed' = 1 /\ InHand = 1
  BY <1>1 DEF Fed, InHand, One, Note
<1>3. h'.pc \in {"ending", "grace", "listening"} /\ Reads
  BY <1>1 DEF SendActivity, Return, Typed, HandlerType, Reads, Listening
<1>4. InHand' = 0 /\ InReceiver' = InReceiver
  BY <1>1, <1>3 DEF InHand, InReceiver, One
<1>5. result.received + Fed + InHand <= raw.forwarded
  BY DEF FlowIsWhole
<1>6. result'.received + Fed' + InHand' <= raw'.forwarded
  BY <1>1, <1>2, <1>4, <1>5, FlowNumbers
<1>7. CASE h'.pc = "ending"
  BY <1>6, <1>7, FlowLeaves DEF Reads, Listening
<1>8. CASE h'.pc # "ending"
  <2>1. UNCHANGED <<notes, lagged>>
    BY <1>8 DEF SendActivity, Return, Typed, HandlerType, channel
  <2>2. Due' = Due /\ (ExitIsDue' <=> ExitIsDue) /\ (Still' <=> Still)
    BY <1>1, <2>1, DueIsFront DEF Still
  <2>3. ~lagged => raw'.forwarded = result'.received + Fed' + InHand' + Cardinality(Due') + InReceiver'
    BY <1>1, <1>2, <1>3, <1>4, <2>2, FlowNumbers DEF FlowIsWhole
  <2> QED BY <1>1, <1>3, <1>6, <2>1, <2>2, <2>3 DEF FlowIsWhole
<1> QED BY <1>7, <1>8

LEMMA FlowOnReport ==
    ASSUME Typed, FlowIsWhole, cpc = "collecting", Report
    PROVE  FlowIsWhole'
<1>1. /\ activity' = activity \/ activity' = <<Note("CLOSED", h.reason)>>
      /\ h.pc = "reporting" /\ h'.pc = "closing" /\ UNCHANGED <<result, raw>>
  BY DEF Report, HandlerUnchanged, collector, Typed, HandlerType
<1>2. Fed' <= Fed /\ InHand = 0 /\ InHand' = 0 /\ ~Reads' /\ Fed' \in {0, 1}
  BY <1>1 DEF Fed, InHand, One, Note, Reads, Listening
<1>3. result.received + Fed + InHand <= raw.forwarded
  BY DEF FlowIsWhole
<1>4. result'.received + Fed' + InHand' <= raw'.forwarded
  BY <1>1, <1>2, <1>3, FlowNumbers
<1> QED BY <1>2, <1>4, FlowLeaves

LEMMA FlowOnCollect ==
    ASSUME Typed, FlowIsWhole, cpc = "collecting", cpc' # "done", CollectEvent
    PROVE  FlowIsWhole'
<1>1. /\ policy' = policy /\ activity # <<>> /\ Head(activity).type = "EVENT"
      /\ activity' = Tail(activity) /\ UNCHANGED <<raw, h, rpc, notes, lagged, registered>>
      /\ result' = Kept(Counted(Head(activity).arg), Head(activity).arg)
  BY DEF CollectEvent, Finish, caller, receiver, channel
<1>2. result'.received = result.received + 1
  BY <1>1 DEF Kept, Counted, Typed, ResultType
<1>3. activity' = <<>>
  <2>1. activity \in Seq(Activities) /\ Len(activity) <= 1
    BY DEF Typed, TypeOK
  <2> QED BY <1>1, <2>1
<1>4. Fed = 1 /\ Fed' = 0 /\ InHand' = InHand /\ InReceiver' = InReceiver /\ (Reads' <=> Reads)
  BY <1>1, <1>3 DEF Fed, One, InHand, InReceiver, Reads
<1>5. Due' = Due /\ (ExitIsDue' <=> ExitIsDue) /\ (Still' <=> Still)
  BY <1>1, DueIsFront DEF Still
<1>6. result'.received + Fed' + InHand' = result.received + Fed + InHand
  BY <1>2, <1>4, FlowNumbers
<1> QED BY <1>1, <1>4, <1>5, <1>6 DEF FlowIsWhole

\* The REQ is queued: nothing is on its way.
LEMMA FlowOnRequest ==
    ASSUME Typed, SetupIsQuiet, SendReq
    PROVE  FlowIsWhole'
<1>1. /\ rpc = "idle" /\ activity = <<>> /\ raw.forwarded = 0 /\ ~raw.closed
      /\ result.received = 0 /\ \A n \in DOMAIN notes : notes[n].type \notin {"EVENT", "EOSE"}
  BY DEF SetupIsQuiet, SendReq
<1>2. /\ policy' = policy /\ h'.pc = "lookup"
      /\ UNCHANGED <<result, raw, rpc, notes, activity>>
  BY DEF SendReq, caller, evidence, receiver, channel, Typed, HandlerType
<1>3. Fed' = 0 /\ InHand' = 0 /\ InReceiver' = 0
  BY <1>1, <1>2 DEF Fed, InHand, InReceiver, One
<1>4. Due = {} /\ ~ExitIsDue
  BY <1>1 DEF Due, ExitIsDue, Exit
<1>5. Cardinality(Due') = 0 /\ ~ExitIsDue'
  BY <1>2, <1>4, DueIsFront, FS_EmptySet
<1> QED BY <1>1, <1>2, <1>3, <1>5 DEF FlowIsWhole

LEMMA FlowIsWholeKept ==
    ASSUME BudgetInv, SetupIsQuiet, EvidenceIsTrue, FlowIsWhole, ReasonsAreTrue, Next
    PROVE  FlowIsWhole'
<1> SUFFICES ASSUME cpc' = "collecting" PROVE FlowIsWhole'
  BY DEF FlowIsWhole
<1>1. Typed
  BY DEF BudgetInv
<1>2. ~Interrupted("Cancelled") /\ ~Interrupted("TimedOut") /\ ~Interrupted("Failed")
      /\ ~DropCollector /\ ~CollectClosed /\ ~Begin /\ ~Register
  BY DEF Interrupted, Finish, DropCollector, CollectClosed, Begin, Register
<1>3. CASE SendReq
  BY <1>1, <1>3, FlowOnRequest
<1>4. cpc = "collecting" \/ SendReq
  BY <1>2
     DEF Next, CollectorStep, HandlerStep, Validation, RawTerminal, CollectEvent,
         CollectorListens, LookUp, HandlerCancelled, RecvLagged, Recv,
         RecvEvent, SendActivity, RecvEose, RecvClosed, RecvStatus, RecvAuthenticated,
         RecvAuthFailed, Resubscribe, CloseEvidence, Report, SendClose, RemoveSubscription,
         HandlerUnchanged, Forward, FrameProcessed, NotifyEvent, RejectEvent, GraceEnds, Cancel,
         GuardRemoves, GuardCloses, RecordEvent, RejectInput, ReceiveEose, ReceiveClosed,
         SendWsMsg, LoseConnection, SessionEnds, Reconnect, AuthOutcome, collector
<1> SUFFICES ASSUME cpc = "collecting" PROVE FlowIsWhole'
  BY <1>3, <1>4
<1>5. policy' = policy
  BY <1>2
     DEF Next, CollectorStep, HandlerStep, Validation, SendReq, RawTerminal, CollectEvent,
         LookUp, HandlerCancelled, RecvLagged, Recv,
         RecvEvent, SendActivity, RecvEose, RecvClosed, RecvStatus, RecvAuthenticated,
         RecvAuthFailed, Resubscribe, CloseEvidence, Report, SendClose, RemoveSubscription,
         HandlerUnchanged, Forward, FrameProcessed, NotifyEvent, RejectEvent, GraceEnds, Cancel,
         GuardRemoves, GuardCloses, RecordEvent, RejectInput, ReceiveEose, ReceiveClosed,
         SendWsMsg, LoseConnection, SessionEnds, Reconnect, AuthOutcome, caller
<1>6. CASE UNCHANGED <<result, h, notes, lagged, activity>> /\ (registered' => registered)
           /\ raw'.closed = raw.closed /\ raw'.forwarded = raw.forwarded
           /\ InReceiver' = InReceiver /\ (Still /\ rpc = "idle" => rpc' = "idle")
  BY <1>1, <1>5, <1>6, FlowStays DEF Reads
<1>7. CASE Cancel \/ GuardRemoves \/ GuardCloses \/ SendWsMsg \/ Reconnect
  BY <1>6, <1>7
     DEF Cancel, GuardRemoves, GuardCloses, SendWsMsg, Reconnect, collector, evidence, receiver,
         channel, InReceiver, SessionTyped
<1>8. CASE RejectEvent \/ FrameProcessed \/ SessionEnds
  <2>1. InReceiver' = InReceiver /\ (rpc = "idle" => rpc' = "idle")
    BY <1>8 DEF RejectEvent, FrameProcessed, SessionEnds, InReceiver, One
  <2> QED BY <1>6, <1>8, <2>1 DEF RejectEvent, FrameProcessed, SessionEnds, collector, channel
<1>9. ASSUME NEW e \in Events, RecordEvent(e) PROVE FlowIsWhole'
  <2>1. InReceiver' = InReceiver
    BY <1>9 DEF RecordEvent, CanReceive, InReceiver, receiver
  <2>2. Still /\ rpc = "idle" => rpc' = "idle"
    BY <1>9 DEF RecordEvent, Still, receiver
  <2>3. raw'.closed = raw.closed /\ raw'.forwarded = raw.forwarded
    BY <1>1, <1>9 DEF RecordEvent, Typed, RawType
  <2> QED BY <1>6, <1>9, <2>1, <2>2, <2>3 DEF RecordEvent, collector, channel
<1>10. CASE RejectInput
  <2>1. raw'.closed = raw.closed /\ raw'.forwarded = raw.forwarded
    BY <1>1, <1>10 DEF RejectInput, Typed, RawType
  <2> QED BY <1>6, <1>10, <2>1 DEF RejectInput, collector, channel, receiver, InReceiver
<1>11. CASE RawTerminal
  <2>1. UNCHANGED <<result, raw>>
    BY <1>11 DEF RawTerminal, Finish
  <2> QED BY <1>6, <1>11, <2>1 DEF RawTerminal, channel, receiver, InReceiver
<1>12. CASE CollectEvent
  BY <1>1, <1>12, FlowOnCollect
<1>13. CASE Validation
  BY <1>1, <1>8, <1>13, FlowOnForward, FlowOnNotify DEF Validation
<1>14. CASE ReceiveEose
  <2>1. /\ Note("EOSE", "none") \in Notices /\ Note("EOSE", "none").type # "EVENT"
        /\ Exit(Note("EOSE", "none")) <=> policy = "ExitOnEOSE"
    BY DEF Note, Notices, Exit
  <2>2. /\ raw'.forwarded = raw.forwarded
        /\ raw'.closed <=> raw.closed \/ (registered /\ policy = "ExitOnEOSE")
    BY <1>1, <1>14 DEF ReceiveEose, Typed, RawType
  <2>3. Broadcast(Note("EOSE", "none")) /\ rpc = "idle" /\ UNCHANGED <<result, activity, rpc, h, registered>>
    BY <1>14 DEF ReceiveEose, CanReceive, collector, receiver
  <2> QED BY <1>1, <1>5, <2>1, <2>2, <2>3, FlowOnBroadcast
<1>15. ASSUME NEW type \in {"CLOSED", "Disconnected", "Authenticated", "AuthenticationFailed"},
              NEW arg, Note(type, arg) \in Notices, Broadcast(Note(type, arg)),
              UNCHANGED <<result, raw, activity, rpc, h>>, registered' => registered
       PROVE  FlowIsWhole'
  <2>1. Note(type, arg).type # "EVENT" /\ ~Exit(Note(type, arg))
    BY DEF Note, Exit
  <2> QED BY <1>1, <1>5, <1>15, <2>1, FlowOnBroadcast
<1>16. ASSUME NEW reason \in ClosedReasons, ReceiveClosed(reason) PROVE FlowIsWhole'
  <2>1. Note("CLOSED", reason) \in Notices
    BY DEF Note, Notices
  <2> QED BY <1>15, <1>16, <2>1 DEF ReceiveClosed, collector, evidence, receiver
<1>17. CASE LoseConnection
  <2>1. Note("Disconnected", "none") \in Notices
    BY DEF Note, Notices
  <2> QED BY <1>15, <1>17, <2>1 DEF LoseConnection, collector, evidence, receiver
<1>18. ASSUME NEW type \in {"Authenticated", "AuthenticationFailed"}, AuthOutcome(type)
       PROVE  FlowIsWhole'
  <2>1. Note(type, "none") \in Notices
    BY DEF Note, Notices
  <2> QED BY <1>15, <1>18, <2>1 DEF AuthOutcome, collector, evidence, receiver
<1>19. ASSUME NEW reason, NEW toClose, Return(reason, toClose), UNCHANGED <<result, raw, activity>>
       PROVE  FlowIsWhole'
  BY <1>1, <1>19, FlowOnReturn
<1>20. ASSUME NEW type, Recv(type), notes' = Tail(notes), UNCHANGED lagged,
              type # "EOSE" \/ policy # "ExitOnEOSE",
              h'.pc \in Listening, h'.pc = "sending" <=> type = "EVENT"
       PROVE  FlowIsWhole'
  <2>1. ~Exit(Head(notes)) /\ Reads /\ Reads' /\ h.pc # "sending"
    BY <1>20 DEF Recv, Exit, Reads, Listening
  <2> QED
    BY <1>1, <1>5, <1>20, <2>1, FlowOnRead DEF Recv, HandlerUnchanged, collector, receiver
<1>21. CASE HandlerStep \/ GraceEnds
  <2>1. CASE LookUp \/ CloseEvidence \/ SendClose \/ RemoveSubscription
    <3>1. /\ raw'.closed = raw.closed \/ CloseEvidence
          /\ raw'.forwarded = raw.forwarded
          /\ UNCHANGED <<result, notes, lagged, activity, rpc>> /\ (registered' => registered)
      <4>1. CASE CloseEvidence
        BY <1>1, <4>1 DEF CloseEvidence, HandlerUnchanged, collector, channel, receiver, Typed, RawType
      <4>2. CASE ~CloseEvidence
        BY <2>1, <4>2
           DEF LookUp, SendClose, RemoveSubscription, HandlerUnchanged, collector, channel, receiver
      <4> QED BY <4>1, <4>2
    <3>2. /\ h.pc # "sending" /\ h'.pc # "sending"
          /\ h'.pc = "listening" \/ h'.pc \in {"reporting", "removing", "ended"}
          /\ h'.pc = "listening" => h.pc = "lookup"
          /\ CloseEvidence => h'.pc = "reporting"
      BY <1>1, <2>1
         DEF LookUp, CloseEvidence, SendClose, RemoveSubscription, Typed, HandlerType
    <3>3. (Reads' => Reads) /\ (CloseEvidence => ~Reads')
      BY <3>2 DEF Reads, Listening
    <3>4. CASE CloseEvidence
      <4>1. Fed' = Fed /\ InHand' = InHand
        BY <3>1, <3>2 DEF Fed, InHand, One
      <4> QED BY <3>1, <3>4, <3>3, <4>1, FlowLeaves DEF FlowIsWhole
    <3>5. CASE ~CloseEvidence
      <4>1. InReceiver' = InReceiver
        BY <3>1 DEF InReceiver
      <4> QED BY <1>1, <1>5, <3>1, <3>5, <3>2, <3>3, <4>1, FlowStays
    <3> QED BY <3>4, <3>5
  <2>2. CASE HandlerCancelled
    BY <2>2 DEF HandlerCancelled, CollectorGone
  <2>3. CASE RecvLagged \/ RecvStatus \/ GraceEnds
    BY <1>19, <2>3 DEF RecvLagged, RecvStatus, GraceEnds, Recv, HandlerUnchanged, collector
  <2>4. CASE RecvEvent
    <3>1. h'.pc = "sending"
      BY <1>1, <2>4 DEF RecvEvent, Typed, HandlerType
    <3> QED BY <1>20, <2>4, <3>1 DEF RecvEvent, Listening
  <2>5. CASE SendActivity
    BY <1>1, <2>5, FlowOnSend
  <2>6. CASE RecvEose
    <3>1. CASE Return("Completed", TRUE)
      BY <1>19, <2>6, <3>1 DEF RecvEose, Recv, HandlerUnchanged, collector
    <3>2. CASE ~Return("Completed", TRUE)
      <4>1. Recv("EOSE") /\ notes' = Tail(notes) /\ UNCHANGED lagged /\ policy # "ExitOnEOSE"
        BY <2>6, <3>2 DEF RecvEose, Recv, ReasonsAreTrue
      <4>2. h'.pc \in {"listening", "grace"}
        BY <1>1, <2>6, <3>2 DEF RecvEose, Recv, Typed, HandlerType
      <4> QED BY <1>20, <4>1, <4>2 DEF Listening
    <3> QED BY <3>1, <3>2
  <2>7. CASE RecvClosed
    <3>1. CASE \E reason, toClose : Return(reason, toClose)
      BY <1>19, <2>7, <3>1 DEF RecvClosed, Recv, HandlerUnchanged, collector
    <3>2. CASE ~\E reason, toClose : Return(reason, toClose)
      <4>1. /\ Recv("CLOSED") /\ notes' = Tail(notes) /\ UNCHANGED lagged
            /\ h.pc = "listening" /\ h' = [h EXCEPT !.resubscribe = TRUE]
        BY <2>7, <3>2 DEF RecvClosed
      <4>2. h'.pc = "listening"
        BY <1>1, <4>1 DEF Typed, HandlerType
      <4> QED BY <1>20, <4>1, <4>2 DEF Listening
    <3> QED BY <3>1, <3>2
  <2>8. CASE RecvAuthenticated
    <3>1. h'.pc \in {"listening", "grace", "resending"}
      BY <1>1, <2>8 DEF RecvAuthenticated, Recv, Typed, HandlerType
    <3> QED BY <1>20, <2>8, <3>1 DEF RecvAuthenticated, Listening
  <2>9. CASE RecvAuthFailed
    <3>1. CASE Return("AuthenticationFailed", FALSE)
      BY <1>19, <2>9, <3>1 DEF RecvAuthFailed, Recv, HandlerUnchanged, collector
    <3>2. CASE h.pc = "grace" /\ notes' = Tail(notes) /\ UNCHANGED <<h, lagged>>
      BY <1>20, <2>9, <3>2 DEF RecvAuthFailed, Listening
    <3> QED BY <2>9, <3>1, <3>2 DEF RecvAuthFailed, Recv
  <2>10. CASE Resubscribe
    <3>1. CASE Return("Rejected", FALSE)
      BY <1>19, <2>10, <3>1 DEF Resubscribe, HandlerUnchanged, collector
    <3>2. CASE h' = [h EXCEPT !.pc = "listening"] /\ UNCHANGED channel
      <4>1. h.pc = "resending" /\ h'.pc = "listening"
        BY <1>1, <2>10, <3>2 DEF Resubscribe, Typed, HandlerType
      <4>2. Reads /\ UNCHANGED <<result, raw, rpc, activity, registered, notes, lagged>>
        BY <2>10, <3>2, <4>1
           DEF Resubscribe, HandlerUnchanged, collector, receiver, channel, Reads, Listening
      <4>3. InReceiver' = InReceiver
        BY <4>2 DEF InReceiver
      <4> QED BY <1>1, <1>5, <4>1, <4>2, <4>3, FlowStays
    <3> QED BY <2>10, <3>1, <3>2 DEF Resubscribe
  <2>11. CASE Report
    BY <1>1, <2>11, FlowOnReport
  <2> QED
    BY <1>21, <2>1, <2>2, <2>3, <2>4, <2>5, <2>6, <2>7, <2>8, <2>9, <2>10, <2>11 DEF HandlerStep
<1> QED
  BY <1>2, <1>3, <1>7, <1>8, <1>9, <1>10, <1>11, <1>12, <1>13, <1>14, <1>16, <1>17, <1>18, <1>21
     DEF Next, CollectorStep
-----------------------------------------------------------------------------
(* The reasons, and the end                                                *)

LEMMA PolicyKept ==
    ASSUME Next
    PROVE  policy' = policy
BY DEF Next, CollectorStep, HandlerStep, Validation, Begin, Register, SendReq, RawTerminal,
       CollectEvent, CollectClosed, Interrupted, LookUp, HandlerCancelled, RecvLagged, Recv,
       RecvEvent, SendActivity, RecvEose, RecvClosed, RecvStatus, RecvAuthenticated,
       RecvAuthFailed, Resubscribe, CloseEvidence, Report, SendClose, RemoveSubscription,
       HandlerUnchanged, Forward, FrameProcessed, NotifyEvent, RejectEvent, GraceEnds,
       DropCollector, Cancel, GuardRemoves, GuardCloses, RecordEvent, RejectInput, ReceiveEose,
       ReceiveClosed, SendWsMsg, LoseConnection, SessionEnds, Reconnect, AuthOutcome, caller

\* Once nothing is forwarded any more, nothing is.
LEMMA StillStays ==
    ASSUME Typed, cpc = "collecting", Still, Next
    PROVE  Still' /\ raw'.forwarded = raw.forwarded
<1>1. raw \in RawType /\ raw.closed \in BOOLEAN /\ h \in HandlerType
  BY DEF Typed, RawType
<1>2. ASSUME raw'.closed = raw.closed \/ raw'.closed, raw'.forwarded = raw.forwarded,
             registered' => registered, raw'.closed \/ registered \/ rpc' = "idle"
      PROVE  Still' /\ raw'.forwarded = raw.forwarded
  BY <1>1, <1>2 DEF Still
<1>3. CASE UNCHANGED <<raw, registered, rpc>>
  BY <1>3 DEF Still
<1>4. ASSUME NEW res, NEW end, Finish(res, end), UNCHANGED <<registered, rpc>>
      PROVE  Still' /\ raw'.forwarded = raw.forwarded
  BY <1>1, <1>4 DEF Finish, RawType, Still
<1>5. ~Begin /\ ~Register /\ ~SendReq
  BY DEF Begin, Register, SendReq
<1>6. CASE RawTerminal \/ CollectEvent \/ CollectClosed
  BY <1>3, <1>4, <1>6 DEF RawTerminal, CollectEvent, CollectClosed, receiver
<1>7. ASSUME NEW end, Interrupted(end) PROVE Still' /\ raw'.forwarded = raw.forwarded
  BY <1>4, <1>7 DEF Interrupted, receiver
<1>8. CASE DropCollector \/ SendWsMsg \/ LoseConnection \/ Reconnect \/ Cancel \/ GuardCloses
  BY <1>3, <1>8 DEF DropCollector, SendWsMsg, LoseConnection, Reconnect, Cancel, GuardCloses,
                    evidence, receiver
<1>9. CASE GuardRemoves \/ RemoveSubscription \/ \E reason \in ClosedReasons : ReceiveClosed(reason)
  BY <1>9 DEF GuardRemoves, RemoveSubscription, ReceiveClosed, HandlerUnchanged, evidence,
              receiver, Still
<1>10. ASSUME NEW type, AuthOutcome(type) PROVE Still' /\ raw'.forwarded = raw.forwarded
  BY <1>3, <1>10 DEF AuthOutcome, evidence, receiver
<1>11. ASSUME NEW e, RecordEvent(e) PROVE Still' /\ raw'.forwarded = raw.forwarded
  <2>1. UNCHANGED <<raw, rpc, registered>>
    BY <1>11 DEF RecordEvent, receiver, Still
  <2> QED BY <1>3, <2>1
<1>12. CASE RejectInput \/ ReceiveEose \/ CloseEvidence
  BY <1>1, <1>12 DEF RejectInput, ReceiveEose, CloseEvidence, HandlerUnchanged, receiver,
                     RawType, HandlerType, Still
<1>13. CASE Forward
  BY <1>13 DEF Forward, Still
<1>14. CASE FrameProcessed \/ NotifyEvent \/ RejectEvent \/ SessionEnds
  BY <1>14 DEF FrameProcessed, NotifyEvent, RejectEvent, SessionEnds, evidence, Still
<1>15. CASE (HandlerStep /\ ~CloseEvidence /\ ~RemoveSubscription) \/ GraceEnds
  BY <1>3, <1>15
     DEF HandlerStep, LookUp, HandlerCancelled, RecvLagged, Recv, RecvEvent, SendActivity,
         RecvEose, RecvClosed, RecvStatus, RecvAuthenticated, RecvAuthFailed, Resubscribe,
         Report, SendClose, HandlerUnchanged, GraceEnds, receiver
<1> QED
  BY <1>5, <1>6, <1>7, <1>8, <1>9, <1>10, <1>11, <1>12, <1>13, <1>14, <1>15
     DEF Next, CollectorStep, Validation

\* What each way of going on makes of the reason and of the grace period
LEMMA HandlerReasons ==
    ASSUME Typed, ReasonsAreTrue, Next
    PROVE  /\ CanReport(h'.reason)
           /\ h'.pc = "grace" => policy = "WaitDurationAfterEOSE"
<1>1. CanReport(h.reason) /\ (h.pc = "grace" => policy = "WaitDurationAfterEOSE")
      /\ h \in HandlerType
  BY DEF ReasonsAreTrue, Typed
<1>2. CASE h' = h
  BY <1>1, <1>2
<1>3. ASSUME NEW reason, NEW toClose, Return(reason, toClose), CanReport(reason)
      PROVE  CanReport(h'.reason) /\ (h'.pc = "grace" => policy = "WaitDurationAfterEOSE")
  BY <1>1, <1>3 DEF Return, HandlerType
<1>4. /\ CanReport("none") /\ CanReport("ReceiveLoss") /\ CanReport("Completed")
      /\ CanReport("RelayClosed") /\ CanReport("Rejected") /\ CanReport("Disconnected")
      /\ CanReport("AuthenticationFailed")
      /\ Counts => CanReport("ExitLimitReached")
  BY DEF CanReport, Counts
<1>5. ASSUME h'.reason = h.reason,
             h'.pc = "grace" => h.pc = "grace" \/ policy = "WaitDurationAfterEOSE"
      PROVE  CanReport(h'.reason) /\ (h'.pc = "grace" => policy = "WaitDurationAfterEOSE")
  BY <1>1, <1>5
<1>6. CASE SendReq \/ LookUp \/ CloseEvidence \/ Report \/ SendClose \/ RemoveSubscription \/ RecvEvent
  BY <1>1, <1>5, <1>6
     DEF SendReq, LookUp, CloseEvidence, Report, SendClose, RemoveSubscription, RecvEvent, HandlerType
<1>7. CASE HandlerCancelled \/ RecvLagged \/ RecvStatus \/ GraceEnds
  BY <1>3, <1>4, <1>7 DEF HandlerCancelled, RecvLagged, RecvStatus, GraceEnds
<1>8. CASE SendActivity
  <2>1. CASE Counts /\ Return("ExitLimitReached", TRUE)
    BY <1>3, <1>4, <2>1
  <2>2. CASE h' = [h EXCEPT !.pc = IF InGrace THEN "grace" ELSE "listening", !.hand = Nothing,
                      !.count = IF ~InGrace /\ Counts THEN @ + 1 ELSE @]
    <3>1. h'.reason = h.reason /\ h'.pc = IF InGrace THEN "grace" ELSE "listening"
      BY <1>1, <2>2 DEF HandlerType
    <3> QED BY <1>5, <3>1 DEF InGrace
  <2> QED BY <1>8, <2>1, <2>2 DEF SendActivity
<1>9. CASE RecvEose
  <2>1. CASE Return("Completed", TRUE)
    BY <1>3, <1>4, <2>1
  <2>2. CASE h' = [h EXCEPT !.eose = TRUE,
                     !.pc = IF policy = "WaitDurationAfterEOSE" THEN "grace" ELSE @]
    <3>1. h'.reason = h.reason /\ h'.pc = IF policy = "WaitDurationAfterEOSE" THEN "grace" ELSE h.pc
      BY <1>1, <2>2 DEF HandlerType
    <3> QED BY <1>5, <3>1
  <2> QED BY <1>2, <1>9, <2>1, <2>2 DEF RecvEose
<1>10. CASE RecvClosed
  <2>1. CASE h' = [h EXCEPT !.resubscribe = TRUE]
    BY <1>1, <1>5, <2>1 DEF HandlerType
  <2> QED BY <1>3, <1>4, <1>10, <2>1 DEF RecvClosed
<1>11. CASE RecvAuthenticated \/ RecvAuthFailed
  <2>1. CASE h' = [h EXCEPT !.pc = "resending", !.resubscribe = FALSE]
    BY <1>1, <1>5, <2>1 DEF HandlerType
  <2> QED BY <1>2, <1>3, <1>4, <1>11, <2>1 DEF RecvAuthenticated, RecvAuthFailed
<1>12. CASE Resubscribe
  <2>1. CASE h' = [h EXCEPT !.pc = "listening"]
    BY <1>1, <1>5, <2>1 DEF HandlerType
  <2> QED BY <1>3, <1>4, <1>12, <2>1 DEF Resubscribe
<1> QED
  BY <1>2, <1>6, <1>7, <1>8, <1>9, <1>10, <1>11, <1>12
     DEF Next, CollectorStep, HandlerStep, Validation, Begin, Register, RawTerminal, CollectEvent,
         CollectClosed, Interrupted, Forward, FrameProcessed, NotifyEvent, RejectEvent,
         DropCollector, Cancel, GuardRemoves, GuardCloses, RecordEvent, RejectInput, ReceiveEose,
         ReceiveClosed, SendWsMsg, LoseConnection, SessionEnds, Reconnect, AuthOutcome

\* The EOSE that exits: everything is in front of it, and nothing follows.
LEMMA CompletedOnEose ==
    ASSUME Typed, FlowIsWhole, cpc = "collecting", policy = "ExitOnEOSE", RecvEose,
           h.pc = "listening"
    PROVE  Still /\ raw.forwarded = result.received + Fed
<1>1. Reads /\ ~lagged /\ notes # <<>> /\ Exit(Head(notes)) /\ InHand = 0
  BY DEF RecvEose, Recv, Reads, Listening, Exit, InHand, One
<1>2. Exits(notes) /\ Cardinality(Front(notes)) = 0
  BY <1>1, FlowNumbers, FrontOfExit
<1>3. ExitIsDue /\ Cardinality(Due) = 0
  BY <1>2 DEF Due, Front, ExitIsDue, Exits
<1>4. /\ raw.forwarded = result.received + Fed + InHand + Cardinality(Due) + InReceiver
      /\ Still /\ (raw.closed => rpc = "idle")
  BY <1>1, <1>3 DEF FlowIsWhole
<1>5. InReceiver = 0
  BY <1>4 DEF Still, InReceiver, One
<1> QED BY <1>1, <1>3, <1>4, <1>5, FlowNumbers

LEMMA ReasonsAreTrueKept ==
    ASSUME BudgetInv, SetupIsQuiet, FlowIsWhole, ReasonsAreTrue, Next
    PROVE  ReasonsAreTrue'
<1>1. policy' = policy
  BY PolicyKept
<1>2. Typed /\ h \in HandlerType
  BY DEF BudgetInv, Typed
<1>3. CanReport(h.reason)' /\ (h.pc = "grace" => policy = "WaitDurationAfterEOSE")'
  BY <1>1, <1>2, HandlerReasons DEF CanReport
<1>4. \/ activity' = activity
      \/ CollectEvent \/ CollectClosed
      \/ SendActivity /\ activity' = <<Note("EVENT", h.hand)>>
      \/ Report /\ activity' = <<Note("CLOSED", h.reason)>>
  BY DEF Next, CollectorStep, HandlerStep, Validation, Begin, Register, SendReq, RawTerminal,
         Interrupted, LookUp, HandlerCancelled, RecvLagged, Recv, RecvEvent, SendActivity,
         RecvEose, RecvClosed, RecvStatus, RecvAuthenticated, RecvAuthFailed, Resubscribe,
         CloseEvidence, Report, SendClose, RemoveSubscription, Forward, FrameProcessed,
         NotifyEvent, RejectEvent, GraceEnds, DropCollector, Cancel, GuardRemoves, GuardCloses,
         RecordEvent, RejectInput, ReceiveEose, ReceiveClosed, SendWsMsg, LoseConnection,
         SessionEnds, Reconnect, AuthOutcome
<1>5. CollectEvent \/ CollectClosed => activity' = <<>>
  <2>1. activity \in Seq(Activities) /\ Len(activity) <= 1
    BY <1>2 DEF Typed, TypeOK
  <2> QED BY <2>1 DEF CollectEvent, CollectClosed
<1>6. (activity # <<>> /\ Head(activity).type = "CLOSED" => CanReport(Head(activity).arg))'
  <2> SUFFICES ASSUME activity' # <<>>, Head(activity').type = "CLOSED"
               PROVE  CanReport(Head(activity').arg)
    BY <1>1 DEF CanReport
  <2>1. CASE activity' = activity
    BY <2>1 DEF ReasonsAreTrue
  <2>2. CASE activity' = <<Note("CLOSED", h.reason)>>
    BY <2>2 DEF ReasonsAreTrue, Note
  <2> QED BY <1>4, <1>5, <2>1, <2>2 DEF Note
<1>7. ASSUME cpc' = "collecting", policy = "ExitOnEOSE"
      PROVE  /\ h'.pc \in {"ending", "reporting"} /\ h'.reason = "Completed"
                  => Still' /\ raw'.forwarded = result'.received + Fed'
             /\ activity' # <<>> /\ Head(activity') = Note("CLOSED", "Completed")
                  => Still' /\ raw'.forwarded = result'.received
  <2>1. CASE SendReq
    <3>1. h'.pc = "lookup" /\ activity' = <<>>
      BY <1>2, <2>1 DEF SendReq, SetupIsQuiet, HandlerType
    <3> QED BY <3>1
  <2>2. CASE ~SendReq
    <3>1. ~CollectClosed /\ ~DropCollector /\ ~Begin /\ ~Register
          /\ ~Interrupted("Cancelled") /\ ~Interrupted("TimedOut") /\ ~Interrupted("Failed")
      BY <1>7 DEF CollectClosed, Finish, DropCollector, Begin, Register, Interrupted
    <3>2. cpc = "collecting" /\ (result' = result \/ CollectEvent)
      BY <1>7, <2>2, <3>1
         DEF Next, CollectorStep, HandlerStep, Validation, RawTerminal, CollectEvent,
             CollectorListens, LookUp, HandlerCancelled, RecvLagged, Recv, RecvEvent,
             SendActivity, RecvEose, RecvClosed, RecvStatus, RecvAuthenticated, RecvAuthFailed,
             Resubscribe, CloseEvidence, Report, SendClose, RemoveSubscription, HandlerUnchanged,
             Forward, FrameProcessed, NotifyEvent, RejectEvent, GraceEnds, Cancel, GuardRemoves,
             GuardCloses, RecordEvent, RejectInput, ReceiveEose, ReceiveClosed, SendWsMsg,
             LoseConnection, SessionEnds, Reconnect, AuthOutcome, collector, Finish
    <3>3. Still => Still' /\ raw'.forwarded = raw.forwarded
      BY <1>2, <3>2, StillStays
    <3>4. /\ h.pc \in {"ending", "reporting"} /\ h.reason = "Completed"
                => Still /\ raw.forwarded = result.received + Fed
          /\ activity # <<>> /\ Head(activity) = Note("CLOSED", "Completed")
                => Still /\ raw.forwarded = result.received
      BY <1>7, <3>2 DEF ReasonsAreTrue
    <3>5. CollectEvent => Fed = 1 /\ Fed' = 0 /\ result'.received = result.received + 1
      <4> SUFFICES ASSUME CollectEvent PROVE Fed = 1 /\ Fed' = 0 /\ result'.received = result.received + 1
        OBVIOUS
      <4>1. result' = Kept(Counted(Head(activity).arg), Head(activity).arg)
        BY <1>7 DEF CollectEvent, Finish
      <4>2. result'.received = result.received + 1
        BY <1>2, <4>1 DEF Kept, Counted, Typed, ResultType
      <4> QED BY <1>5, <4>2 DEF CollectEvent, Fed, One
    <3>6. \/ h' = h
          \/ h'.pc \notin {"ending", "reporting"}
          \/ h'.reason # "Completed"
          \/ CloseEvidence
          \/ RecvEose /\ h.pc = "listening"
      <4>1. ~GraceEnds
        BY <1>7 DEF GraceEnds, InGrace
      <4>2. ASSUME NEW reason, NEW toClose, Return(reason, toClose), reason # "Completed"
            PROVE  h'.reason # "Completed"
        BY <1>2, <4>2 DEF Return, HandlerType
      <4>3. CASE Report \/ SendClose \/ RemoveSubscription \/ LookUp \/ RecvEvent
        BY <1>2, <4>3 DEF Report, SendClose, RemoveSubscription, LookUp, RecvEvent, HandlerType
      <4>4. CASE HandlerCancelled \/ RecvLagged \/ RecvStatus
        BY <4>2, <4>4 DEF HandlerCancelled, RecvLagged, RecvStatus
      <4>5. CASE SendActivity
        BY <1>2, <4>2, <4>5 DEF SendActivity, HandlerType
      <4>6. CASE RecvEose
        BY <1>7, <4>6 DEF RecvEose, Recv
      <4>7. CASE RecvClosed \/ RecvAuthenticated \/ RecvAuthFailed \/ Resubscribe
        BY <1>2, <4>2, <4>7
           DEF RecvClosed, RecvAuthenticated, RecvAuthFailed, Resubscribe, Recv, HandlerType
      <4> QED
        BY <2>2, <3>1, <4>1, <4>3, <4>4, <4>5, <4>6, <4>7
           DEF Next, CollectorStep, HandlerStep, Validation, RawTerminal, CollectEvent, Forward,
               FrameProcessed, NotifyEvent, RejectEvent, Cancel, GuardRemoves, GuardCloses,
               RecordEvent, RejectInput, ReceiveEose, ReceiveClosed, SendWsMsg, LoseConnection,
               SessionEnds, Reconnect, AuthOutcome
    <3>7. ASSUME h'.pc \in {"ending", "reporting"}, h'.reason = "Completed"
          PROVE  Still' /\ raw'.forwarded = result'.received + Fed'
      <4>1. Still /\ raw.forwarded = result.received + Fed
        <5>1. CASE h' = h
          BY <3>4, <3>7, <5>1
        <5>2. CASE CloseEvidence
          BY <1>2, <3>4, <3>7, <5>2 DEF CloseEvidence, HandlerType
        <5>3. CASE RecvEose /\ h.pc = "listening"
          BY <1>2, <1>7, <3>2, <5>3, CompletedOnEose
        <5> QED BY <3>6, <3>7, <5>1, <5>2, <5>3
      <4>2. CASE CollectEvent
        BY <1>2, <3>3, <3>5, <4>1, <4>2, FlowNumbers
      <4>3. CASE ~CollectEvent
        <5>1. (~Report /\ ~SendActivity) \/ activity' = activity
          <6>1. Report => h'.pc = "closing"
            BY <1>2 DEF Report, HandlerType
          <6>2. SendActivity => h'.pc \in {"listening", "grace"} \/ h'.reason = "ExitLimitReached"
            BY <1>2 DEF SendActivity, Return, HandlerType
          <6> QED BY <3>7, <6>1, <6>2
        <5>2. activity' = activity
          BY <1>4, <3>1, <4>3, <5>1
        <5> QED BY <3>2, <3>3, <4>1, <4>3, <5>2 DEF Fed
      <4> QED BY <4>2, <4>3
    <3>8. ASSUME activity' # <<>>, Head(activity') = Note("CLOSED", "Completed")
          PROVE  Still' /\ raw'.forwarded = result'.received
      <4>1. ~CollectEvent
        BY <1>5, <3>8
      <4>2. CASE activity' = activity
        BY <3>2, <3>3, <3>4, <3>8, <4>1, <4>2
      <4>3. CASE Report /\ activity' = <<Note("CLOSED", h.reason)>>
        <5>1. h.pc = "reporting" /\ h.reason = "Completed" /\ activity = <<>>
          BY <3>2, <3>8, <4>3 DEF Report, Note, CollectorGone
        <5>2. Still /\ raw.forwarded = result.received + Fed /\ Fed = 0
          BY <3>4, <5>1 DEF Fed, One
        <5> QED BY <1>2, <3>2, <3>3, <4>1, <5>2, FlowNumbers
      <4> QED BY <1>4, <3>1, <3>8, <4>1, <4>2, <4>3 DEF Note
    <3> QED BY <3>7, <3>8
  <2> QED BY <2>1, <2>2
<1> QED BY <1>1, <1>3, <1>6, <1>7 DEF ReasonsAreTrue
\* An end is true if what it says of the input is.
LEMMA FinishIsTrue ==
    ASSUME BudgetInv, EvidenceIsTrue, policy' = policy,
           NEW res \in ResultType, NEW end \in Ends, Finish(res, end),
           end = "ItemBudgetExceeded" => raw.items > MaxItems,
           end = "InvalidMessage" => raw.rejected,
           end = "ExitLimitReached" => policy # "ExitOnEOSE",
           policy = "ExitOnEOSE" /\ end \in {"Completed", "ItemBudgetExceeded", "InvalidMessage"}
             => res.received = raw.forwarded
    PROVE  EndsTruthfully'
<1>1. raw \in RawType /\ raw.items \in Nat /\ MaxItems \in Nat
  BY LimitsAssumption DEF BudgetInv, Typed, RawType
<1>2. /\ raw.phase # "Active" => raw.items > MaxItems
      /\ raw.phase = "Active" => raw.items <= MaxItems
  BY DEF EvidenceIsTrue, BudgetInv, RawCounted
<1>3. /\ raw'.phase = raw.phase /\ raw'.rejected = raw.rejected
      /\ raw'.items = raw.items /\ raw'.forwarded = raw.forwarded
  BY <1>1 DEF Finish, RawType
<1> DEFINE overruled == /\ raw.rejected \/ raw.phase # "Active"
                        /\ end \in {"Completed", "ExitLimitReached"}
<1>4. /\ result'.items = raw.items /\ result'.received = res.received
      /\ result'.end = IF overruled
                       THEN IF raw.rejected THEN "InvalidMessage" ELSE "ItemBudgetExceeded"
                       ELSE end
  BY DEF Finish, ResultType
<1>5. CASE overruled
  <2>1. result'.end \in {"InvalidMessage", "ItemBudgetExceeded"}
        /\ (result'.end = "InvalidMessage" <=> raw.rejected)
    BY <1>1, <1>4, <1>5 DEF RawType
  <2>2. policy = "ExitOnEOSE" => res.received = raw.forwarded
    BY <1>5
  <2>3. result'.end = "ItemBudgetExceeded" => raw.items > MaxItems
    BY <1>2, <1>5, <2>1
  <2> QED
    BY <1>3, <1>4, <2>1, <2>2, <2>3 DEF EndsTruthfully, CompletedIsWhole, TerminalEndIsDrained
<1>6. CASE ~overruled
  <2>1. result'.end = end
    BY <1>4, <1>6
  <2>2. end = "Completed" => raw.phase = "Active" /\ ~raw.rejected
    BY <1>6
  <2> QED
    BY <1>2, <1>3, <1>4, <2>1, <2>2 DEF EndsTruthfully, CompletedIsWhole, TerminalEndIsDrained
<1> QED BY <1>5, <1>6

\* An event is taken, and ends the acquisition: it is the last on its way.
LEMMA CollectEndsTruthfully ==
    ASSUME BudgetInv, EvidenceIsTrue, FlowIsWhole, CollectEvent, cpc' = "done"
    PROVE  EndsTruthfully'
<1> DEFINE e == Head(activity).arg
           res == Counted(e)
<1>1. cpc = "collecting" /\ policy' = policy /\ activity # <<>> /\ Head(activity).type = "EVENT"
  BY DEF CollectEvent, CollectorListens, caller
<1>2. Typed /\ result \in ResultType /\ IsFiniteSet(result.events) /\ activity \in Seq(Activities)
  BY DEF BudgetInv, Typed, ResultCounted
<1>3. e \in Events
  <2>1. Head(activity) \in Activities
    BY <1>1, <1>2
  <2> QED BY <1>1, <2>1 DEF Activities, EventNotes
<1>4. res \in ResultType /\ res.received = result.received + 1 /\ res.events = result.events
  BY <1>2, <1>3, CountedIsTyped
<1>5. Kept(res, e) \in ResultType /\ Kept(res, e).received = result.received + 1
  BY <1>2, <1>3, <1>4, KeptIsTyped
<1>6. Fed = 1 /\ Fed \in Nat /\ InHand \in Nat /\ result.received \in Nat /\ raw.forwarded \in Nat
      /\ raw.items \in Nat /\ MaxItems \in Nat
  BY <1>1, <1>2, FlowNumbers, LimitsAssumption DEF Fed, One, Typed, RawType
<1>7. result.received + 1 <= raw.forwarded
  BY <1>1, <1>6 DEF FlowIsWhole
<1>8. raw.forwarded <= raw.items /\ raw.items <= MaxItems + 1
  <2>1. raw.forwarded + One(rpc = "validating") <= raw.items /\ One(rpc = "validating") \in {0, 1}
    BY DEF EvidenceIsTrue, One
  <2> QED BY <1>6, <2>1 DEF BudgetInv, RawCounted
<1> HIDE DEF res, e
<1>9. CASE (OverflowEvent \/ res.received > MaxItems) /\ Finish(res, "ItemBudgetExceeded")
  <2>1. raw.items > MaxItems /\ res.received = raw.forwarded
    <3>1. CASE OverflowEvent
      BY <1>4, <1>6, <1>7, <3>1 DEF OverflowEvent, EvidenceIsTrue
    <3>2. CASE res.received > MaxItems
      BY <1>4, <1>6, <1>7, <1>8, <3>2
    <3> QED BY <1>9, <3>1, <3>2
  <2> QED BY <1>1, <1>4, <1>9, <2>1, FinishIsTrue DEF Ends
<1>10. CASE Finish(res, "ByteBudgetExceeded")
  BY <1>1, <1>4, <1>10, FinishIsTrue DEF Ends
<1>11. CASE draining /\ Drained(res.received) /\ Finish(Kept(res, e), TerminalEnd)
  <2>1. Kept(res, e).received = raw.forwarded
    BY <1>4, <1>5, <1>6, <1>7, <1>11 DEF Drained
  <2>2. /\ TerminalEnd \in {"ItemBudgetExceeded", "InvalidMessage"}
        /\ TerminalEnd = "ItemBudgetExceeded" => raw.items > MaxItems
        /\ TerminalEnd = "InvalidMessage" => raw.rejected
    BY <1>11 DEF TerminalEnd, EvidenceIsTrue
  <2>3. TerminalEnd \in Ends
    BY <2>2 DEF Ends
  <2> QED BY <1>1, <1>5, <1>11, <2>1, <2>2, <2>3, FinishIsTrue
<1> QED
  BY <1>1, <1>9, <1>10, <1>11 DEF CollectEvent, res, e

LEMMA EndsTruthfullyKept ==
    ASSUME BudgetInv, BudgetInv', EvidenceIsTrue, FlowIsWhole, ReasonsAreTrue, EndsTruthfully, Next
    PROVE  EndsTruthfully'
<1>1. policy' = policy
  BY PolicyKept
<1>2. CASE cpc' # "done"
  <2>1. result'.end = "none"
    BY <1>2 DEF BudgetInv, Typed, TypeOK
  <2> QED BY <2>1 DEF EndsTruthfully, CompletedIsWhole, TerminalEndIsDrained
<1>3. CASE cpc = "done"
  BY <1>1, <1>3, FrozenWhenDone DEF EndsTruthfully, CompletedIsWhole, TerminalEndIsDrained
<1>4. result \in ResultType /\ Typed
  BY DEF BudgetInv, Typed
<1>5. ASSUME NEW end \in {"Cancelled", "TimedOut", "Failed"}, Interrupted(end)
      PROVE  EndsTruthfully'
  BY <1>1, <1>4, <1>5, FinishIsTrue DEF Interrupted, Ends
<1>6. CASE RawTerminal /\ cpc' = "done"
  <2>1. cpc = "collecting" /\ terminal /\ Drained(result.received) /\ Finish(result, TerminalEnd)
    BY <1>6 DEF RawTerminal
  <2>2. result.received = raw.forwarded
    <3>1. result.received + Fed + InHand <= raw.forwarded
      BY <2>1 DEF FlowIsWhole
    <3> QED BY <1>4, <2>1, <3>1, FlowNumbers DEF Drained
  <2>3. /\ TerminalEnd \in {"ItemBudgetExceeded", "InvalidMessage"}
        /\ TerminalEnd = "ItemBudgetExceeded" => raw.items > MaxItems
        /\ TerminalEnd = "InvalidMessage" => raw.rejected
    BY <2>1 DEF TerminalEnd, EvidenceIsTrue
  <2>4. TerminalEnd \in Ends
    BY <2>3 DEF Ends
  <2> QED BY <1>1, <1>4, <2>1, <2>2, <2>3, <2>4, FinishIsTrue
<1>7. CASE CollectEvent /\ cpc' = "done"
  BY <1>7, CollectEndsTruthfully
<1>8. CASE CollectClosed
  <2>1. /\ cpc = "collecting" /\ activity # <<>> /\ Head(activity).type = "CLOSED"
        /\ Finish(result, Head(activity).arg) /\ activity \in Seq(Activities)
    BY <1>4, <1>8 DEF CollectClosed, CollectorListens, Typed
  <2>2. Head(activity) \in Activities
    BY <2>1
  <2>3. Head(activity).arg \in Ends /\ Head(activity) = Note("CLOSED", Head(activity).arg)
    BY <2>1, <2>2 DEF Activities, EventNotes, Note
  <2>4. CanReport(Head(activity).arg)
    BY <2>1 DEF ReasonsAreTrue
  <2>5. policy = "ExitOnEOSE" /\ Head(activity).arg = "Completed"
          => result.received = raw.forwarded
    BY <2>1, <2>3 DEF ReasonsAreTrue
  <2> QED BY <1>1, <1>4, <2>1, <2>3, <2>4, <2>5, FinishIsTrue DEF CanReport
<1>9. CASE DropCollector \/ Begin \/ Register \/ SendReq
  BY <1>2, <1>9 DEF DropCollector, Begin, Register, SendReq
<1>10. cpc' = cpc \/ RawTerminal \/ CollectEvent \/ CollectClosed \/ DropCollector \/ Begin
       \/ Register \/ SendReq \/ \E end \in {"Cancelled", "TimedOut", "Failed"} : Interrupted(end)
  BY DEF Next, CollectorStep, HandlerStep, Validation, LookUp, HandlerCancelled, RecvLagged, Recv,
         RecvEvent, SendActivity, RecvEose, RecvClosed, RecvStatus, RecvAuthenticated,
         RecvAuthFailed, Resubscribe, CloseEvidence, Report, SendClose, RemoveSubscription,
         HandlerUnchanged, Forward, FrameProcessed, NotifyEvent, RejectEvent, GraceEnds, Cancel,
         GuardRemoves, GuardCloses, RecordEvent, RejectInput, ReceiveEose, ReceiveClosed,
         SendWsMsg, LoseConnection, SessionEnds, Reconnect, AuthOutcome, collector
<1> QED BY <1>2, <1>3, <1>5, <1>6, <1>7, <1>8, <1>9, <1>10

LEMMA InitTruth == Init => TruthInv
<1> SUFFICES ASSUME Init PROVE TruthInv
  OBVIOUS
<1>1. BudgetInv
  BY InitBudgets
<1>2. SetupIsQuiet
  BY DEF Init, SetupIsQuiet
<1>3. EvidenceIsTrue
  BY DEF Init, EvidenceIsTrue, One
<1>4. FlowIsWhole
  BY DEF Init, FlowIsWhole
<1>5. ReasonsAreTrue
  BY DEF Init, ReasonsAreTrue, CanReport, NewHandler
<1>6. EndsTruthfully
  BY DEF Init, EndsTruthfully, CompletedIsWhole, TerminalEndIsDrained
<1> QED BY <1>1, <1>2, <1>3, <1>4, <1>5, <1>6 DEF TruthInv

LEMMA NextTruth == TruthInv /\ [Next]_vars => TruthInv'
<1>1. CASE TruthInv /\ Next
  <2>1. BudgetInv /\ SetupIsQuiet /\ EvidenceIsTrue /\ FlowIsWhole /\ ReasonsAreTrue /\ EndsTruthfully
    BY <1>1 DEF TruthInv
  <2>2. BudgetInv'
    BY <1>1, <2>1, NextBudgets
  <2>3. SetupIsQuiet' /\ EvidenceIsTrue'
    BY <1>1, <2>1, SetupIsQuietKept, EvidenceIsTrueKept
  <2>4. FlowIsWhole' /\ ReasonsAreTrue' /\ EndsTruthfully'
    BY <1>1, <2>1, <2>2, FlowIsWholeKept, ReasonsAreTrueKept, EndsTruthfullyKept
  <2> QED BY <2>2, <2>3, <2>4 DEF TruthInv
<1>2. CASE TruthInv /\ UNCHANGED vars
  <2>1. BudgetInv'
    BY <1>2, NextBudgets DEF TruthInv
  <2>2. UNCHANGED <<policy, cpc, result, raw, rpc, h, notes, lagged, activity, registered, guard,
                    out, known, terminal, draining>>
    BY <1>2 DEF vars
  <2>3. SetupIsQuiet' /\ EvidenceIsTrue' /\ EndsTruthfully'
    BY <1>2, <2>2 DEF TruthInv, SetupIsQuiet, EvidenceIsTrue, EndsTruthfully, CompletedIsWhole,
                      TerminalEndIsDrained
  <2>4. FlowIsWhole'
    <3>1. Due' = Due /\ (ExitIsDue' <=> ExitIsDue)
      BY <2>2, DueIsFront
    <3>2. Fed' = Fed /\ InHand' = InHand /\ InReceiver' = InReceiver /\ (Reads' <=> Reads)
          /\ (Still' <=> Still)
      BY <2>2 DEF Fed, InHand, InReceiver, Reads, Still
    <3> QED BY <1>2, <2>2, <3>1, <3>2 DEF TruthInv, FlowIsWhole
  <2>5. ReasonsAreTrue'
    BY <1>2, <2>2 DEF TruthInv, ReasonsAreTrue, CanReport, Still, Fed
  <2> QED BY <2>1, <2>3, <2>4, <2>5 DEF TruthInv
<1> QED BY <1>1, <1>2

\* Between the receiver and the collector no event that was counted is lost
\* while the handler reads (FlowIsWhole), and the reasons on their way are
\* true: what EndsAreTrue rests on (forward, handle_auto_closing).
THEOREM TruthInvariant == Spec => []TruthInv
BY InitTruth, NextTruth, PTL DEF Spec

\* How an acquisition ends is the truth about its input: "completed" is whole,
\* and an end that blames the input came after everything validated before
\* (finish, item_budget, raw_terminal, RawEvidence).
THEOREM EndsAreTrue == Spec => []EndsTruthfully
<1>1. TruthInv => EndsTruthfully
  BY DEF TruthInv
<1> QED BY <1>1, TruthInvariant, PTL
=============================================================================
