------------------------ MODULE MCRelaySubscriptions ------------------------
(* Model values for TLC: counters, IDs and callers are interchangeable.    *)
EXTENDS RelaySubscriptions, TLC

Symmetry == Permutations(Counters) \union Permutations(Subs) \union Permutations(Callers)
=============================================================================
