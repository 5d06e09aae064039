----------------------------- MODULE Admission ------------------------------
(***************************************************************************)
(* What the intake of handoffd promises of a notification: once admitted   *)
(* it is the daemon's until it is answered, or parked in the dead letters, *)
(* from where only an answer to its replay takes it.                       *)
(***************************************************************************)
CONSTANT Ids
VARIABLE status

Statuses == {"unknown", "admitted", "parked", "answered"}

TypeOK == status \in [Ids -> Statuses]

Init == status = [m \in Ids |-> "unknown"]

Move(m, from, to) ==
    /\ status[m] \in from
    /\ status' = [status EXCEPT ![m] = to]

Receive(m) == Move(m, {"unknown"}, "admitted")
Park(m) == Move(m, {"admitted"}, "parked")
Resolve(m) == Move(m, {"admitted", "parked"}, "answered")

Next == \E m \in Ids : Receive(m) \/ Park(m) \/ Resolve(m)

Spec == Init /\ [][Next]_status
=============================================================================
