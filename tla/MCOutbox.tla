------------------------------ MODULE MCOutbox ------------------------------
(* Values of Outbox's constants for TLC: each record has a key and a text of *)
(* its own.                                                                  *)
EXTENDS Outbox

CONSTANTS r1, r2, x1, x2, t1, t2

MCKeyOf == [r \in Records |-> IF r = r1 THEN x1 ELSE x2]
MCTextOf == [r \in Records |-> IF r = r1 THEN t1 ELSE t2]
=============================================================================
