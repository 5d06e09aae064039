----------------------------- MODULE MCWatchdog -----------------------------
(* One session and one round beside the log; each may stand still twice, which *)
(* is what a cooldown that outlasts one occurrence takes.                      *)
EXTENDS Watchdog
=============================================================================
