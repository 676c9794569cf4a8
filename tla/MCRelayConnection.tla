------------------------- MODULE MCRelayConnection --------------------------
(***************************************************************************)
(* RelayConnection for TLC.  At most one Arc per caller, the task's own,   *)
(* and the one being created exist at a time, so that |Callers| + 2        *)
(* attempts never run out.  Only attempts are symmetric: callers that      *)
(* subscribe differ from those that do not.                                *)
(***************************************************************************)
EXTENDS RelayConnection, TLC

Symmetry == Permutations(Attempts)
=============================================================================
