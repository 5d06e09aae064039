------------------------------ MODULE Sessions ------------------------------
(***************************************************************************)
(* The record of an agent's session (internal/session): every event of the *)
(* agent runs handoffd hook, a process that reads the record, advances it  *)
(* and writes it back without a lock. The end of a session is reported to  *)
(* the journal by the hook that saw it, or, when the window goes first, by *)
(* the daemon (closeSession in internal/pipeline/progress.go).             *)
(*                                                                         *)
(* Times count from 1; 0 is "not yet".                                     *)
(***************************************************************************)
EXTENDS Integers, Sequences, FiniteSets

CONSTANTS
    Hooks,         \* slots for processes of handoffd hook
    MaxTime,       \* bound: the clock
    MaxEvents,     \* bound: events that are recorded
    MaxCloses,     \* bound: how often the daemon closes the session
    MaxKills       \* bound: hooks killed by the agent's timeout, failed writes

ASSUME SessionsAssumption ==
    /\ {MaxTime, MaxEvents, MaxCloses, MaxKills} \subseteq Nat
    /\ MaxTime > 0

VARIABLES
    now,        \* the clock
    rec,        \* file: the record of the session
    hook,       \* what each hook process is at
    closing,    \* what the daemon's closeSession is at
    reports,    \* file: who has an entry about the session in the journal
    log,        \* history: the events in the order they were recorded
    overlapped, \* history: a hook has begun before another had written
    closes, kills

vars == <<now, rec, hook, closing, reports, log, overlapped, closes, kills>>

-----------------------------------------------------------------------------
(* The record *)

Times == 0..MaxTime

\* prompt: UserPromptSubmit; tool: PostToolUse; start: what else resumes work;
\* dialog: a request, a question or a notice of one; stop; end: SessionEnd.
Events == {"start", "prompt", "tool", "dialog", "stop", "end"}

StateOf(e) ==
    CASE e = "dialog" -> "blocked"
      [] e = "stop" -> "idle"
      [] e = "end" -> "ended"
      [] OTHER -> "working"

States == {"unknown", "working", "blocked", "idle", "ended"}

Record ==
    [state : States, at : Times, started : Times, first : Times,
     blocked : Int, count : Nat, turns : Nat]

NoRecord ==
    [state |-> "unknown", at |-> 0, started |-> 0, first |-> 0,
     blocked |-> 0, count |-> 0, turns |-> 0]

OrElse(a, b) == IF a # 0 THEN a ELSE b

\* Mutant: a notice of the dialog that is open counts as another.
DialogsRecounted(prev, e) == IF StateOf(e) = "blocked" THEN prev.count + 1 ELSE prev.count

Dialogs(prev, e) ==
    IF prev.state # "blocked" /\ StateOf(e) = "blocked" THEN prev.count + 1 ELSE prev.count

\* Mutant: whatever sets to work is a turn.
TurnsOfAny(prev, e) == IF StateOf(e) = "working" THEN prev.turns + 1 ELSE prev.turns

Turns(prev, e) == IF e = "prompt" THEN prev.turns + 1 ELSE prev.turns

\* A dialog's time is counted at its end, from its last notice on.
Advance(prev, e, at) ==
    [state |-> StateOf(e), at |-> at,
     started |-> OrElse(prev.started, at),
     first |-> OrElse(prev.first, IF e = "tool" THEN at ELSE 0),
     blocked |-> IF prev.state = "blocked" /\ StateOf(e) # "blocked"
                 THEN prev.blocked + (at - prev.at) ELSE prev.blocked,
     count |-> Dialogs(prev, e), turns |-> Turns(prev, e)]

Hook == [pc : {"idle", "write", "report"}, at : Times, prev : Record]
NoHook == [pc |-> "idle", at |-> 0, prev |-> NoRecord]

Init ==
    /\ now = 1 /\ rec = NoRecord
    /\ hook = [h \in Hooks |-> NoHook]
    /\ closing = "idle" /\ reports = {}
    /\ log = <<>> /\ overlapped = FALSE /\ closes = 0 /\ kills = 0

Tick ==
    /\ now < MaxTime /\ now' = now + 1
    /\ UNCHANGED <<rec, hook, closing, reports, log, overlapped, closes, kills>>

-----------------------------------------------------------------------------
(* handoffd hook *)

Step(h, r) == hook' = [hook EXCEPT ![h] = r]

\* The time is taken before the record is read.
Read(h) ==
    /\ hook[h] = NoHook
    /\ \E at \in {now, now - 1} \ {0} :
          /\ Step(h, [pc |-> "write", at |-> at, prev |-> rec])
          /\ overlapped' = (overlapped \/ at < rec.at \/ \E g \in Hooks \ {h} : hook[g].pc = "write")
    /\ UNCHANGED <<now, rec, closing, reports, log, closes, kills>>

\* Write puts a new file in the place of the record.
Write(h) ==
    /\ hook[h].pc = "write" /\ Len(log) < MaxEvents
    /\ \E e \in Events :
          /\ rec' = Advance(hook[h].prev, e, hook[h].at)
          /\ log' = Append(log, [event |-> e, at |-> hook[h].at])
          /\ Step(h, IF e = "end" THEN [hook[h] EXCEPT !.pc = "report"] ELSE NoHook)
    /\ UNCHANGED <<now, closing, reports, overlapped, closes, kills>>

\* An event that says nothing of the state.
Ignore(h) ==
    /\ hook[h].pc = "write" /\ Step(h, NoHook)
    /\ UNCHANGED <<now, rec, closing, reports, log, overlapped, closes, kills>>

Report(h) ==
    /\ hook[h].pc = "report"
    /\ reports' = reports \cup {"hook"}
    /\ Step(h, NoHook)
    /\ UNCHANGED <<now, rec, closing, log, overlapped, closes, kills>>

Kill(h) ==
    /\ hook[h].pc # "idle" /\ kills < MaxKills
    /\ kills' = kills + 1
    /\ Step(h, NoHook)
    /\ UNCHANGED <<now, rec, closing, reports, log, overlapped, closes>>

-----------------------------------------------------------------------------
(* closeSession: the window is gone, stopped, swept or linked elsewhere. *)

\* Mutant: a session that rests is taken for one that ended.
CloseSessionAtRest ==
    /\ closing # "report" /\ closes < MaxCloses
    /\ closes' = closes + 1
    /\ closing' = IF rec.state \in {"idle", "ended"} THEN "closed" ELSE "report"
    /\ UNCHANGED <<now, rec, hook, reports, log, overlapped, kills>>

CloseSession ==
    /\ closing # "report" /\ closes < MaxCloses
    /\ closes' = closes + 1
    /\ closing' = IF rec.state = "ended" THEN "closed" ELSE "report"
    /\ UNCHANGED <<now, rec, hook, reports, log, overlapped, kills>>

ReportClosed ==
    /\ closing = "report" /\ closing' = "closed"
    /\ reports' = reports \cup {"watcher"}
    /\ UNCHANGED <<now, rec, hook, log, overlapped, closes, kills>>

Next ==
    \/ Tick
    \/ \E h \in Hooks : Read(h) \/ Write(h) \/ Ignore(h) \/ Report(h) \/ Kill(h)
    \/ CloseSession \/ ReportClosed

Spec == Init /\ [][Next]_vars

-----------------------------------------------------------------------------
(* Properties *)

\* The types of the variables; there is a record when an event was recorded. (Not
\* among the properties of the run.)
TypeOK ==
    /\ now \in 1..MaxTime /\ rec \in Record /\ hook \in [Hooks -> Hook]
    /\ closing \in {"idle", "report", "closed"}
    /\ reports \subseteq {"hook", "watcher"}
    /\ log \in Seq([event : Events, at : Times]) /\ overlapped \in BOOLEAN
    /\ closes \in Nat /\ kills \in Nat
    /\ (rec = NoRecord) <=> (log = <<>>)

Of(es) == {i \in DOMAIN log : log[i].event \in es}

\* However the processes overlap, they count nothing that did not happen: a
\* session has no more turns than prompts and no more dialogs than notices.
CountsAreReal ==
    /\ rec.turns <= Cardinality(Of({"prompt"}))
    /\ rec.count <= Cardinality(Of({"dialog"}))
    /\ rec.turns > 0 => rec.started > 0

\* The reference: a dialog begins with a notice that no other one precedes, and
\* the agent is in a dialog at t when the last event up to t is a notice.
Begins == {i \in Of({"dialog"}) : i = 1 \/ log[i - 1].event # "dialog"}
LastUpTo(t) == {i \in DOMAIN log : log[i].at <= t /\ \A j \in DOMAIN log : log[j].at <= t => j <= i}
InDialog(t) == \E i \in LastUpTo(t) : log[i].event = "dialog"
Noticed == \E i \in Of({"dialog"}) : i > 1 /\ log[i - 1].event = "dialog"

\* While the hooks of a session do not overlap, its record is what its events
\* add up to ("TestAdvanceAccumulatesTimelineAcrossHooks", session_test.go:275):
\* the state, the turns, the dialogs, the first action, and the time in dialogs
\* that are over, less what precedes a repeated notice.
TimelineAddsUp ==
    (~overlapped /\ log # <<>>) =>
        LET spent == Cardinality({t \in 1..(log[Len(log)].at - 1) : InDialog(t)}) IN
        /\ rec.state = StateOf(log[Len(log)].event)
        /\ rec.turns = Cardinality(Of({"prompt"}))
        /\ rec.count = Cardinality(Begins)
        /\ rec.started = log[1].at
        /\ rec.first = IF Of({"tool"}) = {} THEN 0
                       ELSE log[CHOOSE i \in Of({"tool"}) : \A j \in Of({"tool"}) : i <= j].at
        /\ rec.blocked \in 0..spent
        /\ (~Noticed /\ rec.state # "blocked") => rec.blocked = spent

\* A session whose window the daemon gave up is in the journal, by its own hook
\* or by the daemon, unless the hook was killed between record and report.
ClosedIsReported ==
    closing = "closed" =>
        \/ reports # {}
        \/ \E h \in Hooks : hook[h].pc = "report"
        \/ kills > 0

(***************************************************************************)
(* The inductive invariant behind them                                     *)
(***************************************************************************)

\* What a hook has read counts nothing that did not happen; it counts its own
\* event only as the event is logged.
HooksAreReal ==
    \A h \in Hooks : hook[h].pc = "write" =>
        /\ hook[h].at > 0
        /\ hook[h].prev.turns <= Cardinality(Of({"prompt"}))
        /\ hook[h].prev.count <= Cardinality(Of({"dialog"}))
        /\ hook[h].prev.turns > 0 => hook[h].prev.started > 0

\* A hook that overlaps with none has read the record that it replaces.
HooksAreCurrent ==
    ~overlapped => \A h \in Hooks : hook[h].pc = "write" =>
        /\ hook[h].prev = rec /\ hook[h].at >= rec.at
        /\ \A g \in Hooks : hook[g].pc = "write" => g = h

\* A session that ended has its report, or its hook is about to write it.
EndIsReported ==
    rec.state = "ended" \/ closing = "closed" =>
        reports # {} \/ (\E h \in Hooks : hook[h].pc = "report") \/ kills > 0

\* TimelineAddsUp, with the time of the last event and the least of the first
\* actions: until a notice is repeated no time in dialogs is lost.
TimelineIsExact ==
    (~overlapped /\ log # <<>>) =>
        LET spent == Cardinality({t \in 1..(log[Len(log)].at - 1) : InDialog(t)}) IN
        /\ rec.state = StateOf(log[Len(log)].event) /\ rec.at = log[Len(log)].at
        /\ \A i \in DOMAIN log : log[i].at \in 1..rec.at
        /\ rec.turns = Cardinality(Of({"prompt"})) /\ rec.count = Cardinality(Begins)
        /\ rec.started = log[1].at
        /\ Of({"tool"}) = {} => rec.first = 0
        /\ Of({"tool"}) # {} =>
              \E i \in Of({"tool"}) : rec.first = log[i].at /\ \A j \in Of({"tool"}) : i <= j
        /\ rec.blocked \in 0..spent
        /\ ~Noticed => rec.blocked = spent

IInv ==
    /\ TypeOK /\ CountsAreReal /\ HooksAreReal /\ HooksAreCurrent
    /\ EndIsReported /\ TimelineIsExact
=============================================================================
