------------------------------ MODULE MCTriage ------------------------------
(* Two messages of a thread, one of which mentions the owner without a tag, *)
(* and one of another thread, which tags him.                              *)
EXTENDS Triage

CONSTANTS m1, m2, m3, r1, r2

MCRootOf == [m \in {m1, m2, m3} |-> IF m = m3 THEN r2 ELSE r1]
=============================================================================
