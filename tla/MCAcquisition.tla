--------------------------- MODULE MCAcquisition ----------------------------
(* Acquisition for TLC: two events, one of which alone exceeds the byte    *)
(* budget.                                                                 *)
EXTENDS Acquisition, TLC
=============================================================================
