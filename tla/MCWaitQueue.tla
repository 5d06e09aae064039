----------------------------- MODULE MCWaitQueue ----------------------------
(* Values of WaitQueue's constants for TLC. *)
EXTENDS WaitQueue

CONSTANTS p1, p2, p3, d1, d2, k1, k2, k3
=============================================================================
