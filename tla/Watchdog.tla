------------------------------ MODULE Watchdog ------------------------------
(***************************************************************************)
(* The watchdog (internal/watchdog) tells the user what stands still: a    *)
(* Slack log nothing is written to, a session that waits for a reply, a    *)
(* round all have reported in and nobody has closed. It tells it through   *)
(* the Notifier (internal/alert), which the pipeline uses too and which    *)
(* keeps one alert per key within a cooldown.                              *)
(*                                                                         *)
(* A condition is named by its source and its occurrence, as the keys of   *)
(* the code are by a session and the time its dialog began, or by a thread *)
(* and its round. Time is kept as ages, which stop counting at the largest *)
(* span anything is compared with.                                         *)
(***************************************************************************)
EXTENDS Naturals, FiniteSets, Functions

CONSTANTS
    Sessions,      \* sessions of agents
    Rounds,        \* threads with a committee
    After,         \* the age from which a condition is told
    Cooldown,      \* the span in which a key is not told again; 0: no span
    MaxOccurs,     \* bound: occurrences of conditions
    MaxFaults      \* bound: lists and commands that fail, repeated reports

ASSUME WatchdogAssumption ==
    /\ IsFiniteSet(Sessions) /\ IsFiniteSet(Rounds) /\ Sessions \cap Rounds = {}
    /\ "log" \notin Sessions \cup Rounds
    /\ After \in Nat \ {0} /\ {Cooldown, MaxOccurs, MaxFaults} \subseteq Nat

Sources == {"log"} \cup Sessions \cup Rounds
Occurs == 0..MaxOccurs

Conditions == Sources \X Occurs
Letter == <<"letter", 0>>     \* what the pipeline's alerts are about
Keys == Conditions \cup {Letter}

\* The callers of Alert: the watchdog's goroutine and one of the pipeline.
Callers == {"watchdog", "pipeline"}

VARIABLES
    cond,     \* what each source stands at: a condition, its occurrence and age
    last,     \* memory: the Notifier's keys, with the age of their alert
    check,    \* memory: what Check is at, and the alerts it has left
    calls,    \* the alert command each caller runs, {} or a key
    told,     \* history: the sources whose condition has been told
    tried,    \* history: the age of the last command that was run for a key
    occurs,
    faults

vars == <<cond, last, check, calls, told, tried, occurs, faults>>

-----------------------------------------------------------------------------

Aged(n, most) == IF n < most THEN n + 1 ELSE n

Key(s) == <<s, cond[s].occur>>

\* The log that is missing is due at once; its key is always the same.
Missing == cond["log"].occur = 0
Due(s) == cond[s].on /\ (cond[s].age >= After \/ (s = "log" /\ Missing))

Init ==
    /\ cond = [s \in Sources |-> [on |-> s = "log", occur |-> IF s = "log" THEN 1 ELSE 0, age |-> 0]]
    /\ last = <<>> /\ told = {}
    /\ check = [pc |-> "idle", left |-> {}]
    /\ calls = [c \in Callers |-> {}]
    /\ tried = [k \in Keys |-> Cooldown]
    /\ occurs = 1 /\ faults = 0

Tick ==
    /\ cond' = [s \in Sources |-> [cond[s] EXCEPT !.age = Aged(@, After)]]
    /\ last' = [k \in DOMAIN last |-> Aged(last[k], Cooldown)]
    /\ tried' = [k \in Keys |-> Aged(tried[k], Cooldown)]
    /\ UNCHANGED <<check, calls, told, occurs, faults>>

-----------------------------------------------------------------------------
(* The sources *)

Occur(s) ==
    /\ occurs < MaxOccurs /\ occurs' = occurs + 1
    /\ cond' = [cond EXCEPT ![s] = [on |-> TRUE, occur |-> occurs', age |-> 0]]
    /\ told' = told \ {s}

Passes(s) ==
    /\ cond[s].on /\ cond' = [cond EXCEPT ![s].on = FALSE]
    /\ told' = told \ {s}

\* Slack writes a line to its log, and the silence begins again.
LogGrows ==
    /\ ~Missing /\ Occur("log")
    /\ UNCHANGED <<last, check, calls, tried, faults>>

\* The agent asks, or notes again that it waits: the record gets a new time.
Ask ==
    /\ \E s \in Sessions : Occur(s)
    /\ UNCHANGED <<last, check, calls, tried, faults>>

\* The session goes on or ends, or its window closes.
GoOn ==
    /\ \E s \in Sessions : Passes(s)
    /\ UNCHANGED <<last, check, calls, tried, occurs, faults>>

\* The last result that a round lacked is recorded.
Collect ==
    /\ \E r \in Rounds : Occur(r)
    /\ UNCHANGED <<last, check, calls, tried, faults>>

\* The joint verdict of the round is recorded, or the next round opened.
Judge ==
    /\ \E r \in Rounds : Passes(r)
    /\ UNCHANGED <<last, check, calls, tried, occurs, faults>>

\* An agent reports in the same round again.
ReportAgain ==
    /\ faults < MaxFaults /\ faults' = faults + 1
    /\ \E r \in Rounds : cond[r].on /\ cond[r].age > 0 /\ cond' = [cond EXCEPT ![r].age = 0]
    /\ UNCHANGED <<last, check, calls, told, tried, occurs>>

Remove ==
    /\ ~Missing /\ cond' = [cond EXCEPT !["log"].occur = 0] /\ told' = told \ {"log"}
    /\ UNCHANGED <<last, check, calls, tried, occurs, faults>>

-----------------------------------------------------------------------------
(* Alert *)

\* Mutant: a key is told once for all.
KnownForGood(k) == Cooldown > 0 /\ k \in DOMAIN last

Known(k) == Cooldown > 0 /\ k \in DOMAIN last /\ last[k] < Cooldown

\* Mutant: the sweep of old keys takes the others' too.
RememberOnly(k) == [j \in {k} |-> 0]

\* The key of this call is kept, and the others while they can suppress one.
Remember(k) ==
    LET kept == {j \in DOMAIN last : Cooldown = 0 \/ last[j] < Cooldown} IN
    [j \in kept \cup {k} |-> IF j = k THEN 0 ELSE last[j]]

\* Under the lock, before the command: one that fails is not run again at once.
Call(c, k) ==
    /\ calls[c] = {}
    /\ IF Known(k) THEN UNCHANGED <<calls, last, tried>>
       ELSE /\ calls' = [calls EXCEPT ![c] = {k}]
            /\ last' = Remember(k)
            /\ tried' = [tried EXCEPT ![k] = 0]

CommandDone(c) ==
    /\ calls[c] # {}
    /\ calls' = [calls EXCEPT ![c] = {}] /\ told' = told \cup {s \in Sources : cond[s].on /\ Key(s) \in calls[c]}
    /\ UNCHANGED <<cond, last, check, tried, occurs, faults>>

CommandFails(c) ==
    /\ calls[c] # {} /\ faults < MaxFaults
    /\ faults' = faults + 1
    /\ calls' = [calls EXCEPT ![c] = {}]
    /\ UNCHANGED <<cond, last, check, told, tried, occurs>>

\* postFailed, postUncertain, keepUndelivered or bury.
PipelineAlert ==
    /\ Call("pipeline", Letter)
    /\ UNCHANGED <<cond, check, told, occurs, faults>>

-----------------------------------------------------------------------------
(* Check: the log, then the sessions, then the rounds *)

Step(pc, ss) == check' = [pc |-> pc, left |-> {Key(s) : s \in {s \in ss : Due(s)}}]
Idle == calls["watchdog"] = {} /\ check.left = {}

CheckLog ==
    /\ check.pc = "idle" /\ Idle
    /\ Step("log", {"log"})
    /\ UNCHANGED <<cond, last, calls, told, tried, occurs, faults>>

\* The sessions are all read before the first of them is told.
CheckSessions ==
    /\ check.pc = "log" /\ Idle
    /\ Step("sessions", Sessions)
    /\ UNCHANGED <<cond, last, calls, told, tried, occurs, faults>>

\* The terminal does not list its windows.
ListFails ==
    /\ check.pc = "log" /\ Idle /\ faults < MaxFaults
    /\ faults' = faults + 1
    /\ check' = [check EXCEPT !.pc = "sessions"]
    /\ UNCHANGED <<cond, last, calls, told, tried, occurs>>

CheckRounds ==
    /\ check.pc = "sessions" /\ Idle
    /\ Step("rounds", Rounds)
    /\ UNCHANGED <<cond, last, calls, told, tried, occurs, faults>>

CheckEnds ==
    /\ check.pc = "rounds" /\ Idle
    /\ check' = [check EXCEPT !.pc = "idle"]
    /\ UNCHANGED <<cond, last, calls, told, tried, occurs, faults>>

Tell ==
    /\ \E k \in check.left :
          /\ Call("watchdog", k)
          /\ check' = [check EXCEPT !.left = @ \ {k}]
    /\ UNCHANGED <<cond, told, occurs, faults>>

Check == CheckLog \/ CheckSessions \/ ListFails \/ CheckRounds \/ CheckEnds \/ Tell

Next ==
    \/ Tick \/ LogGrows \/ Remove \/ Ask \/ GoOn \/ Collect \/ Judge \/ ReportAgain
    \/ Check \/ PipelineAlert
    \/ \E c \in Callers : CommandDone(c) \/ CommandFails(c)

\* Time passes, the ticker's goroutine goes on, and a command ends or is killed
\* at its deadline.
FairSpec ==
    /\ Init /\ [][Next]_vars
    /\ WF_vars(Tick) /\ WF_vars(Check)
    /\ \A c \in Callers : WF_vars(CommandDone(c) \/ CommandFails(c))

-----------------------------------------------------------------------------
(* Properties *)

Condition == [on : BOOLEAN, occur : Occurs, age : 0..After]

\* Every variable keeps its type. (Not among the properties of the run.)
TypeOK ==
    /\ cond \in [Sources -> Condition]
    /\ DOMAIN last \subseteq Keys /\ Range(last) \subseteq 0..Cooldown
    /\ check \in [pc : {"idle", "log", "sessions", "rounds"}, left : SUBSET Keys]
    /\ calls \in [Callers -> {{}} \cup {{k} : k \in Keys}]
    /\ told \subseteq Sources /\ tried \in [Keys -> 0..Cooldown] /\ occurs \in Occurs /\ faults \in Nat
    /\ \A k \in DOMAIN last : last[k] = tried[k]

\* A command for a key is run no sooner than a cooldown after the last one for
\* the same key, whatever was told of other keys in between and whichever
\* goroutine told it ("TestAlertSubstitutesPlaceholdersAndRespectsCooldownPerKey",
\* alert_test.go:29).
OncePerCooldown ==
    [][\A c \in Callers : \A k \in calls'[c] \ calls[c] : tried[k] = Cooldown]_vars

\* A dialog, a round or a silence that lasts is told in the end: failed commands
\* and lists of windows only put it off, and neither what was told of an earlier
\* occurrence nor what stands still elsewhere takes its place.
ConditionTold ==
    \A s \in Sources : cond[s].on ~> (s \in told \/ ~cond[s].on)
=============================================================================
