----------------------------- MODULE AtomicStore -----------------------------
(* What a store with one writer promises its callers: requests take effect *)
(* in the order they were made, a group of them as a whole or not at all,  *)
(* and the answer a caller gets tells the effect that was made durable.    *)
(* A stop of the program loses requests and answers, never an effect.      *)
EXTENDS Naturals, Sequences

CONSTANTS Caller, Operation,
          Outcomes(_, _), \* the pairs <<new contents, answer>> of an operation
          Failed(_)       \* the answers that say an operation was not done

VARIABLES contents, \* the durable contents
          requests, \* submitted and not decided: <<caller, operation>>
          answers   \* decided and not delivered: <<caller, answer>>
vars == <<contents, requests, answers>>

\* A request is submitted.
Submit ==
    /\ Len(requests') = Len(requests) + 1
    /\ SubSeq(requests', 1, Len(requests)) = requests
    /\ requests'[Len(requests')] \in Caller \X Operation
    /\ UNCHANGED <<contents, answers>>

\* The contents and answers that n first requests may lead to, done in turn.
Results(n) ==
    LET result[m \in 0 .. n] ==
            IF m = 0 THEN {<<contents, <<>>>>}
            ELSE UNION {{<<o[1], Append(r[2], <<requests[m][1], o[2]>>)>> :
                            o \in Outcomes(requests[m][2], r[1])} : r \in result[m - 1]}
    IN result[n]

\* The n first requests are decided.
Decide(n) ==
    /\ requests' = SubSeq(requests, n + 1, Len(requests))
    /\ Len(answers') = n
    /\ \A m \in 1 .. n : answers'[m][1] = requests[m][1]

\* They take effect together ...
Commit == \E n \in 1 .. Len(requests) :
    /\ Decide(n)
    /\ <<contents', answers'>> \in Results(n)

\* ... or none of them does, and every answer says so.
Abort == \E n \in 1 .. Len(requests) :
    /\ Decide(n)
    /\ \A m \in 1 .. n : Failed(answers'[m][2])
    /\ UNCHANGED contents

Deliver ==
    /\ answers # <<>>
    /\ answers' = Tail(answers)
    /\ UNCHANGED <<contents, requests>>

\* The program stops; on the next start the contents are upgraded, if at all.
CONSTANT Upgraded(_)
Stop ==
    /\ requests' = <<>> /\ answers' = <<>>
    /\ contents' \in {contents, Upgraded(contents)}

Next == Submit \/ Deliver \/ Abort \/ Commit \/ Stop
Spec == [][Next]_vars
=============================================================================
