--------------------------- MODULE MCReviewRound ----------------------------
(* Values of ReviewRound's constants for TLC. *)
EXTENDS ReviewRound

CONSTANTS m1, m2, d, h1
=============================================================================
