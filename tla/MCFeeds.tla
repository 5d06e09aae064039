------------------------------ MODULE MCFeeds ------------------------------
(***************************************************************************)
(* The two feeds of the intake, one after the other: they share nothing    *)
(* but the inbox, which keeps what either admits (Notify is what the log   *)
(* does to the thread), so each is checked with the other at rest.         *)
(***************************************************************************)
EXTENDS ThreadPoll, Tailer

CONSTANTS m1, m2

VARIABLE feed    \* the one that is looked at

FeedsInit ==
    /\ Init /\ TailInit
    /\ feed \in {"thread", "log"} /\ (feed = "log" => cursor = 0)

ThreadStep(A) == feed = "thread" /\ A /\ UNCHANGED <<tailVars, feed>>
LogStep(A) == feed = "log" /\ A /\ UNCHANGED <<vars, feed>>

FeedsNext == ThreadStep(Next) \/ LogStep(TailNext)

FeedsSpec ==
    /\ FeedsInit /\ [][FeedsNext]_<<vars, tailVars, feed>>
    /\ WF_<<vars, tailVars, feed>>(ThreadStep(PollStep))
    /\ WF_<<vars, tailVars, feed>>(LogStep(Run))
=============================================================================
