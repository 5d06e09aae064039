------------------------------ MODULE MCIntake ------------------------------
(* Values of Intake's constants for TLC: two messages of one thread. *)
EXTENDS Intake

CONSTANTS m1, m2, r1, w, g1, g2

MCIds == {m1, m2}
MCRoots == {r1}
MCRootOf == [m \in Ids |-> r1]
MCGoroutines == {g1, g2}
=============================================================================
