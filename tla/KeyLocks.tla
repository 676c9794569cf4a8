------------------------------ MODULE KeyLocks ------------------------------
(***************************************************************************)
(* What the gossip semaphore promises: a task works on a set of public     *)
(* keys only while nobody else works on any of them, and takes and returns *)
(* the whole set at once.                                                  *)
(***************************************************************************)
CONSTANTS Tasks, Keys

VARIABLE working        \* the keys each task holds

Init == working = [t \in Tasks |-> {}]

\* A non-empty set of keys is taken in one step, if all of them are free.
Acquire(t, ks) ==
    /\ working[t] = {} /\ ks # {}
    /\ \A u \in Tasks : working[u] \cap ks = {}
    /\ working' = [working EXCEPT ![t] = ks]

Release(t) ==
    /\ working[t] # {}
    /\ working' = [working EXCEPT ![t] = {}]

Next == \E t \in Tasks : Release(t) \/ \E ks \in SUBSET Keys : Acquire(t, ks)

Spec == Init /\ [][Next]_working

\* No two tasks ever work on one key.
Exclusive == \A t, u \in Tasks : t # u => working[t] \cap working[u] = {}
=============================================================================
