------------------------------ MODULE Mailbox ------------------------------
(***************************************************************************)
(* What the outbound writer promises the agents: a record goes from        *)
(* waiting to an answer. On the way it is sent at most once; it is called  *)
(* posted only when it was; only a pending answer is ever taken back, and  *)
(* only a crash or a file that cannot be written makes the daemon forget   *)
(* that it sent a record. Outbox is shown to implement it.                 *)
(***************************************************************************)
EXTENDS Naturals

CONSTANT Records

VARIABLES
    status,   \* of each record
    copies    \* how often each message is in its thread

Answers == {"posted", "rejected", "pending", "unknown"}

Init == /\ status = [r \in Records |-> "absent"]
        /\ copies = [r \in Records |-> 0]

Goes(r, from, to) == status[r] \in from /\ status'[r] \in to

Quiet(r) == copies'[r] = copies[r]

Write(r) == Goes(r, {"absent"}, {"waiting"}) /\ Quiet(r)

\* The one post whose fate may stay in the dark, or the decision not to post.
Send(r) == Goes(r, {"waiting"}, {"sent"}) /\ copies'[r] \in {copies[r], copies[r] + 1}

Answer(r) ==
    /\ Goes(r, {"sent"}, Answers) /\ Quiet(r)
    /\ status'[r] = "posted" => copies[r] > 0

Forget(r) == Goes(r, {"sent"}, {"waiting"}) /\ Quiet(r)

Replay(r) == Goes(r, {"pending"}, {"waiting"}) /\ Quiet(r)

\* Of age; with what was known of it when the daemon dies.
Sweep(r) == Goes(r, {"waiting", "sent"} \cup Answers, {"gone"}) /\ Quiet(r)

Stay(r) == status'[r] = status[r] /\ Quiet(r)

\* A step of the writer is about one record; a replay is about several.
Next ==
    \A r \in Records :
        Stay(r) \/ Write(r) \/ Send(r) \/ Answer(r) \/ Forget(r) \/ Replay(r) \/ Sweep(r)

Spec == Init /\ [][Next]_<<status, copies>>
=============================================================================
