--------------------------- MODULE MCRelayRequests ---------------------------
(* Three events to upload and two to download, told in two messages that   *)
(* overlap; send_event sends one of the three.                             *)
EXTENDS RelayRequests
MCChunks == <<[have |-> {1, 2}, need |-> {4}], [have |-> {2, 3}, need |-> {4, 5}]>>
=============================================================================
