------------------------------- MODULE MCLinks -------------------------------
(* The values of the constants for TLC: two links of one window. *)
EXTENDS Links

CONSTANTS t1, t2, user, new, r1, r2

MCThreadOf == [r \in {r1, r2} |-> IF r = r1 THEN t1 ELSE t2]
MCWindowOf == [r \in {r1, r2} |-> user]
=============================================================================
