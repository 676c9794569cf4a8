---------------------------- MODULE MCGossipSync ----------------------------
(* The synchronisation for TLC.  Liveness rules out symmetry.              *)
EXTENDS GossipSync
=============================================================================
