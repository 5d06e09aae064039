------------------------------- MODULE Triage -------------------------------
(***************************************************************************)
(* A triage: an agent in a window of its own says, in a file, whether a    *)
(* message is worth a reaction (internal/pipeline/triage.go, internal/     *)
(* triage). Triages are limited in a span of time, and a thread in which   *)
(* they keep saying no is left alone for a span (internal/state/state.go). *)
(*                                                                         *)
(* What becomes of the message is in Intake: here it is skipped, dropped,  *)
(* silent or escalated.                                                    *)
(***************************************************************************)
EXTENDS Naturals, FiniteSets, Sequences

CONSTANTS
    Messages,
    Roots,
    RootOf,        \* [Messages -> Roots]
    Pointed,       \* messages that mention the owner, tag or point at him
    Tagged,        \* those of them that tag him
    TriageLimit,   \* triages in a span
    CooldownN,     \* silent verdicts that bring a cooldown; 0: none does
    Span,          \* the span, in ticks
    None,
    MaxTicks,      \* bound: ticks
    MaxFaults      \* bound: failed saves and commands, answers at the deadline

ASSUME TriageAssumption ==
    /\ RootOf \in [Messages -> Roots]
    /\ Pointed \subseteq Messages /\ Tagged \subseteq Pointed
    /\ Span \in Nat \ {0}
    /\ {TriageLimit, CooldownN, MaxTicks, MaxFaults} \subseteq Nat

VARIABLES
    pc,        \* what the handling of each message is at
    worker,    \* the message the worker is at
    inflight,  \* the map of the Pipeline
    triages,   \* TriageLaunches: when each was recorded
    silent,    \* SilentVerdicts: the same for each thread
    window,    \* the window of the message's triage
    file,      \* its verdict file
    pane,      \* the verdict in what the window shows
    verdict,   \* what the daemon took for the verdict
    said,      \* history: what the agent has said, until the triage is over
    raced,     \* history: two handlers were past a check and before its record
    ticks, faults

memory == <<pc, worker, inflight, triages, silent, verdict, raced>>
world == <<window, file, pane, said>>
vars == <<memory, world, ticks, faults>>

-----------------------------------------------------------------------------

PCs == {"new", "deferred", "gate", "open", "record", "mark", "await",
        "pane", "decide", "skipped", "dropped", "silent", "escalated"}
Ended == {"skipped", "dropped", "silent", "escalated"}

\* Past AllowTriage, and not yet in RecordTriage and inflight.
Between == {"open", "record", "mark"}

\* prune: the times less than a span ago. It forgets the others, which no longer
\* count; here they stay in the list.
Recent(times, now) == {i \in DOMAIN times : times[i] + Span > now}
Count(times, now) == Cardinality(Recent(times, now))
Add(times) == Append(times, ticks)

Init ==
    /\ pc = [m \in Messages |-> "new"] /\ worker = None /\ inflight = {}
    /\ triages = <<>> /\ silent = [r \in Roots |-> <<>>]
    /\ window = [m \in Messages |-> "none"]
    /\ file = [m \in Messages |-> "none"] /\ pane = [m \in Messages |-> "none"]
    /\ verdict = [m \in Messages |-> "none"] /\ said = [m \in Messages |-> {}]
    /\ raced = FALSE /\ ticks = 0 /\ faults = 0

Fault == faults < MaxFaults /\ faults' = faults + 1

Tick ==
    /\ ticks < MaxTicks /\ ticks' = ticks + 1
    /\ UNCHANGED <<memory, world, faults>>

\* The worker leaves a message that is settled, deferred or with its goroutine.
Step(m, to) ==
    /\ pc' = [pc EXCEPT ![m] = to]
    /\ worker' = IF worker = m /\ to \in Ended \cup {"deferred", "await"} THEN None ELSE worker

-----------------------------------------------------------------------------
(* runTriage *)

Take(m) ==
    /\ pc[m] = "new" /\ worker = None
    /\ pc' = [pc EXCEPT ![m] = "gate"] /\ worker' = m
    /\ UNCHANGED <<inflight, triages, silent, verdict, raced, world, ticks, faults>>

\* replayDeferred, in the goroutine of the triage that has ended.
Resume(m) ==
    /\ pc[m] = "deferred" /\ RootOf[m] \notin inflight
    /\ Step(m, "gate")
    /\ UNCHANGED <<inflight, triages, silent, verdict, raced, world, ticks, faults>>

Defer(m) ==
    /\ pc[m] = "gate" /\ RootOf[m] \in inflight
    /\ Step(m, "deferred")
    /\ UNCHANGED <<inflight, triages, silent, verdict, raced, world, ticks, faults>>

\* The cooldown is not for messages that may be for the owner (triage.go:113).
CooledDown(m) == CooldownN > 0 /\ m \notin Pointed /\ Count(silent[RootOf[m]], ticks) >= CooldownN

\* Mutant: one more than the limit.
AllowTriageOneMore == Count(triages, ticks) <= TriageLimit

AllowTriage == Count(triages, ticks) < TriageLimit

\* Mutant: a triage of the thread that is under way is not looked for.
PassBehind(m) ==
    /\ pc[m] = "gate" /\ ~CooledDown(m) /\ AllowTriage
    /\ Step(m, "open")
    /\ raced' = (raced \/ \E k \in Messages \ {m} : pc[k] \in Between)
    /\ UNCHANGED <<inflight, triages, silent, verdict, world, ticks, faults>>

Pass(m) ==
    /\ pc[m] = "gate" /\ RootOf[m] \notin inflight
    /\ ~CooledDown(m) /\ AllowTriage
    /\ Step(m, "open")
    /\ raced' = (raced \/ \E k \in Messages \ {m} : pc[k] \in Between)
    /\ UNCHANGED <<inflight, triages, silent, verdict, world, ticks, faults>>

Skip(m) ==
    /\ pc[m] = "gate" /\ RootOf[m] \notin inflight
    /\ CooledDown(m) \/ ~AllowTriage
    /\ Step(m, IF CooledDown(m) THEN "skipped" ELSE "dropped")
    /\ UNCHANGED <<inflight, triages, silent, verdict, raced, world, ticks, faults>>

\* An earlier window of the message, if there is one, is forgotten.
OpenWindow(m) ==
    /\ pc[m] = "open"
    /\ window' = [window EXCEPT ![m] = "live"] /\ pane' = [pane EXCEPT ![m] = "none"]
    /\ Step(m, "record")
    /\ UNCHANGED <<inflight, triages, silent, verdict, raced, file, said, ticks, faults>>

\* The window is not opened; the attempt is repeated. (Intake has the last one.)
OpenFails(m) ==
    /\ pc[m] = "open" /\ Fault
    /\ Step(m, "gate")
    /\ UNCHANGED <<inflight, triages, silent, verdict, raced, world, ticks>>

\* RecordTriage, then Save, after whose failure the attempt is repeated.
Record(m) ==
    /\ pc[m] = "record"
    /\ triages' = Add(triages)
    /\ \/ Step(m, "mark") /\ UNCHANGED faults
       \/ Step(m, "gate") /\ Fault
    /\ UNCHANGED <<inflight, silent, verdict, raced, world, ticks>>

Mark(m) ==
    /\ pc[m] = "mark"
    /\ inflight' = inflight \cup {RootOf[m]}
    /\ Step(m, "await")
    /\ UNCHANGED <<triages, silent, verdict, raced, world, ticks, faults>>

-----------------------------------------------------------------------------
(* The agent *)

\* What the agent does sooner is first seen when the daemon waits for it.
Agent(m) ==
    /\ window[m] = "live" /\ pc[m] \in {"await", "pane", "decide"}
    /\ UNCHANGED <<memory, ticks, faults>>

\* The file has half of an answer.
WriteBegins(m) ==
    /\ file[m] = "none" /\ said[m] = {}
    /\ file' = [file EXCEPT ![m] = "part"]
    /\ UNCHANGED <<window, pane, said>> /\ Agent(m)

WriteEnds(m) ==
    /\ file[m] = "part" /\ said[m] = {}
    /\ \E v \in {"yes", "no"} :
          /\ file' = [file EXCEPT ![m] = v]
          /\ said' = [said EXCEPT ![m] = {v}]
    /\ UNCHANGED <<window, pane>> /\ Agent(m)

\* It prints its answer instead of writing it.
PrintVerdict(m) ==
    /\ said[m] = {}
    /\ \E v \in {"yes", "no"} :
          /\ pane' = [pane EXCEPT ![m] = v] /\ said' = [said EXCEPT ![m] = {v}]
    /\ UNCHANGED <<window, file>> /\ Agent(m)

\* HoldOnExit keeps what the window shows.
Die(m) ==
    /\ window' = [window EXCEPT ![m] = "dead"]
    /\ UNCHANGED <<file, pane, said>> /\ Agent(m)

-----------------------------------------------------------------------------
(* finishTriage, in a goroutine *)

Took(m, v) == verdict' = [verdict EXCEPT ![m] = v] /\ file' = [file EXCEPT ![m] = "none"]

\* Wait reads an answer and removes the file.
ReadVerdict(m) ==
    /\ pc[m] = "await" /\ file[m] \in {"yes", "no"}
    /\ Took(m, file[m])
    /\ Step(m, "decide")
    /\ UNCHANGED <<inflight, triages, silent, raced, window, pane, said, ticks, faults>>

\* A file that cannot be parsed, or the deadline with none, ends the wait; an
\* answer can come between the look at the file and the look at the clock.
WaitFails(m) ==
    /\ pc[m] = "await"
    /\ IF file[m] \in {"part", "none"} THEN UNCHANGED faults ELSE Fault
    /\ Step(m, "pane")
    /\ UNCHANGED <<inflight, triages, silent, verdict, raced, world, ticks>>

\* Mutant: a window that died left no verdict.
SeeDeadOnly(m) ==
    /\ pc[m] = "await" /\ window[m] = "dead"
    /\ Step(m, "pane")
    /\ UNCHANGED <<inflight, triages, silent, verdict, raced, world, ticks, faults>>

\* What Wait had just read counts, or a last look.
SeeDead(m) ==
    /\ pc[m] = "await" /\ window[m] = "dead"
    /\ IF file[m] \in {"yes", "no"} THEN Took(m, file[m]) /\ Step(m, "decide")
       ELSE UNCHANGED <<file, verdict>> /\ Step(m, "pane")
    /\ UNCHANGED <<inflight, triages, silent, raced, window, pane, said, ticks, faults>>

\* Mutant: a window that shows no verdict leaves the empty one, which is a no.
FromPaneOrNo(m) ==
    /\ pc[m] = "pane"
    /\ verdict' = [verdict EXCEPT ![m] = IF pane[m] = "none" THEN "no" ELSE pane[m]]
    /\ Step(m, "decide")
    /\ UNCHANGED <<inflight, triages, silent, raced, world, ticks, faults>>

FromPane(m) ==
    /\ pc[m] = "pane"
    /\ verdict' = [verdict EXCEPT ![m] = pane[m]]
    /\ Step(m, "decide")
    /\ UNCHANGED <<inflight, triages, silent, raced, world, ticks, faults>>

PaneFails(m) ==
    /\ pc[m] = "pane" /\ Fault
    /\ Step(m, "decide")
    /\ UNCHANGED <<inflight, triages, silent, verdict, raced, world, ticks>>

Kill(m) ==
    \/ window' = [window EXCEPT ![m] = "killed"] /\ UNCHANGED faults
    \/ UNCHANGED window /\ Fault

\* Mutant: a message that only mentions the owner is escalated as one that tags him.
DecidePointed(m) ==
    /\ pc[m] = "decide"
    /\ \/ verdict[m] = "none" /\ m \notin Pointed /\ Step(m, "dropped") /\ UNCHANGED silent
       \/ verdict[m] = "no"
          /\ silent' = [silent EXCEPT ![RootOf[m]] = Add(@)] /\ Step(m, "silent")
       \/ /\ verdict[m] = "yes" \/ (verdict[m] = "none" /\ m \in Pointed)
          /\ silent' = [silent EXCEPT ![RootOf[m]] = <<>>] /\ Step(m, "escalated")
    /\ inflight' = inflight \ {RootOf[m]}
    /\ verdict' = [verdict EXCEPT ![m] = "none"] /\ pane' = [pane EXCEPT ![m] = "none"]
    /\ said' = [said EXCEPT ![m] = {}]
    /\ Kill(m)
    /\ UNCHANGED <<triages, raced, file, ticks>>

\* A message that tags the owner is escalated for want of a verdict (triage.go:155),
\* any other is dropped. inflight is cleared whatever the outcome.
Decide(m) ==
    /\ pc[m] = "decide"
    /\ \/ verdict[m] = "none" /\ m \notin Tagged /\ Step(m, "dropped") /\ UNCHANGED silent
       \/ verdict[m] = "none" /\ m \in Tagged
          /\ silent' = [silent EXCEPT ![RootOf[m]] = <<>>] /\ Step(m, "escalated")
       \/ verdict[m] = "yes"
          /\ silent' = [silent EXCEPT ![RootOf[m]] = <<>>] /\ Step(m, "escalated")
       \/ verdict[m] = "no"
          /\ silent' = [silent EXCEPT ![RootOf[m]] = Add(@)] /\ Step(m, "silent")
    /\ inflight' = inflight \ {RootOf[m]}
    /\ verdict' = [verdict EXCEPT ![m] = "none"] /\ pane' = [pane EXCEPT ![m] = "none"]
    /\ said' = [said EXCEPT ![m] = {}]
    /\ Kill(m)
    /\ UNCHANGED <<triages, raced, file, ticks>>

Handle(m) ==
    \/ Take(m) \/ Resume(m) \/ Defer(m) \/ Pass(m) \/ Skip(m) \/ OpenWindow(m)
    \/ OpenFails(m) \/ Record(m) \/ Mark(m) \/ ReadVerdict(m) \/ WaitFails(m)
    \/ SeeDead(m) \/ FromPane(m) \/ PaneFails(m) \/ Decide(m)

AgentStep(m) == WriteBegins(m) \/ WriteEnds(m) \/ PrintVerdict(m) \/ Die(m)

Next == Tick \/ \E m \in Messages : Handle(m) \/ AgentStep(m)

Spec == Init /\ [][Next]_vars

-----------------------------------------------------------------------------
(* Properties *)

\* The types of the variables, and the worker's message is one it is at. (Not among
\* the properties of the run.)
TypeOK ==
    /\ pc \in [Messages -> PCs] /\ worker \in Messages \cup {None}
    /\ inflight \subseteq Roots /\ triages \in Seq(Nat) /\ silent \in [Roots -> Seq(Nat)]
    /\ window \in [Messages -> {"none", "live", "dead", "killed"}]
    /\ file \in [Messages -> {"none", "part", "yes", "no"}]
    /\ pane \in [Messages -> {"none", "yes", "no"}]
    /\ verdict \in [Messages -> {"none", "yes", "no"}]
    /\ said \in [Messages -> SUBSET {"yes", "no"}]
    /\ raced \in BOOLEAN /\ ticks \in Nat /\ faults \in Nat
    /\ worker # None => pc[worker] \in {"gate", "open", "record", "mark"}

\* While no two handlers are between the check and its record, no more triages
\* are opened in a span than the limit says (state.go:360-370), whatever fails
\* and is repeated.
LimitHolds == raced \/ Count(triages, ticks) <= TriageLimit

\* Under the same condition, while a message the cooldown holds for is with its
\* triage, its thread has fewer silent verdicts than bring the cooldown: one that
\* was deferred is measured by the verdict it waited for, and none comes in beside.
CooldownHolds ==
    raced \/ \A m \in Messages \ Pointed :
        pc[m] \in Between \cup {"await", "pane", "decide"} =>
            CooldownN = 0 \/ Count(silent[RootOf[m]], ticks) < CooldownN

\* What the triage goes by is what the agent said. Nobody is silent on a verdict
\* that was not given, or escalates on one without a direct tag; and a verdict
\* completed in the file counts even when the window dies before it is read
\* (pipeline/triage.go:229-235), unless it came with the deadline.
VerdictIsTheAgents ==
    [][\A m \in Messages : pc'[m] # pc[m] =>
          /\ pc'[m] = "silent" => "no" \in said[m]
          /\ pc'[m] = "escalated" => "yes" \in said[m] \/ m \in Tagged
          /\ (pc[m] = "await" /\ file[m] \in {"yes", "no"})
             => (verdict'[m] = file[m] \/ faults' > faults)]_vars

(***************************************************************************)
(* The inductive invariant behind them                                     *)
(***************************************************************************)

\* The daemon waits for the agent of the message, or goes by what it said.
Waiting == {"await", "pane", "decide"}

\* Before it waits there is nothing of an answer; then the file, the window and
\* the verdict hold what was said, or nothing.
AnswersAreTheAgents ==
    \A m \in Messages :
        /\ pc[m] \notin Waiting \cup Ended =>
              file[m] = "none" /\ pane[m] = "none" /\ verdict[m] = "none" /\ said[m] = {}
        /\ pc[m] \in Waiting =>
              /\ {file[m], pane[m], verdict[m]} \ {"none", "part"} \subseteq said[m]
              /\ verdict[m] # "none" => pc[m] = "decide"

\* One message at a time is past AllowTriage and not yet recorded, and until it
\* is recorded there is room for it.
OneBetween ==
    /\ \A m, k \in Messages : pc[m] \in Between /\ pc[k] \in Between => m = k
    /\ \A m \in Messages : pc[m] \in {"open", "record"} => Count(triages, ticks) < TriageLimit

\* One message of a thread is with its triage, and inflight has the thread while
\* the daemon waits.
OneOfAThread ==
    /\ \A m, k \in Messages :
          pc[m] \in Between \cup Waiting /\ pc[k] \in Between \cup Waiting
             /\ RootOf[m] = RootOf[k] => m = k
    /\ \A m \in Messages : pc[m] \in Waiting => RootOf[m] \in inflight

Unraced == raced \/ (OneBetween /\ OneOfAThread)

IInv ==
    TypeOK /\ AnswersAreTheAgents /\ Unraced /\ LimitHolds /\ CooldownHolds
=============================================================================
