----------------------------- MODULE MCRelayPool -----------------------------
(* Model values for TLC: one task makes requests, the other looks after the *)
(* pool.                                                                    *)
EXTENDS RelayPool, TLC

CONSTANTS a1, a2, u1, u2

Requests == {GossipRequest({u1, u2}), GossipSend({u2}), OrphanRequest, RequestTo({u1})}

Upkeep == {AddCall(u1, {"read", "write"}, FALSE), ConnectCall({u1, u2}), DisconnectCall({u1}),
           UnsubscribeCall, RelayCall(u1), RemoveCall(u1, FALSE), RemoveCall(u1, TRUE),
           RemoveAllCall(FALSE), ShutdownCall}

MCCalls == [t \in {a1, a2} |-> IF t = a1 THEN Requests ELSE Upkeep]
=============================================================================
