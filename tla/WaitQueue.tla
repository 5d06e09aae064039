----------------------------- MODULE WaitQueue -----------------------------
(***************************************************************************)
(* How a prompt reaches the live window of an agent: typed at once, or,    *)
(* when the agent sits in a dialog, kept on disk and typed later by a      *)
(* drain goroutine (internal/pipeline/deliver.go, internal/waitq). One     *)
(* window, which the handlers of the pipeline deliver to, one drain may be *)
(* emptying, a stop phrase may close, and a hook of the agent reports on.  *)
(*                                                                         *)
(* deliver holds Pipeline.mu from Peek to Append; drain never does.        *)
(***************************************************************************)
EXTENDS Naturals, FiniteSets

CONSTANTS
    Prompts,       \* what is delivered to the window, each once
    Deliverers,    \* goroutines that call deliver
    Drains,        \* slots for the goroutines that run drain, or stop
    None,          \* "no prompt", "nobody"
    MaxFaults,     \* bound: files and windows that fail
    MaxCrashes     \* bound: crashes

Actors == Deliverers \cup Drains

ASSUME WaitQueueAssumption ==
    /\ IsFiniteSet(Prompts)
    /\ Deliverers \cap Drains = {}
    /\ None \notin Prompts \cup Actors
    /\ MaxFaults \in Nat /\ MaxCrashes \in Nat

VARIABLES
    waiting,    \* disk: the prompts of the window, a file each
    at,         \* disk: when each was queued, 0 for never
    aside,      \* disk: waiting/undelivered
    session,    \* disk: what the agent's hook last reported
    window,     \* is the window there?
    line,       \* prompts typed in the window and not submitted
    sent,       \* how often each prompt was submitted
    fate,       \* what deliver told its caller of each prompt
    mu,         \* who holds Pipeline.mu between two steps of deliver
    proc,       \* where each goroutine is
    phase,      \* has ResumeWaiting run?
    faults, crashes

disk == <<waiting, at, aside>>
agent == <<session, window, line, sent>>
callers == <<fate, mu>>
bounds == <<faults, crashes>>
vars == <<disk, agent, callers, proc, phase, bounds>>

-----------------------------------------------------------------------------
(* State *)

PCs == {"idle", "append", "type", "enter", "peek", "await", "remove", "keep",
        "aside", "clear"}

\* first: deliver found nothing waiting; todo: what Quarantine has yet to move.
Proc == [pc : PCs, prompt : Prompts \cup {None}, first : BOOLEAN, todo : SUBSET Prompts]

Off == [pc |-> "idle", prompt |-> None, first |-> FALSE, todo |-> {}]

Init ==
    /\ waiting = {} /\ at = [p \in Prompts |-> 0] /\ aside = {}
    /\ session = "working" /\ window = TRUE
    /\ line = {} /\ sent = [p \in Prompts |-> 0]
    /\ fate = [p \in Prompts |-> "new"] /\ mu = None
    /\ proc = [a \in Actors |-> Off]
    /\ phase = "down" /\ faults = 0 /\ crashes = 0

At(a, pc) == proc[a].pc = pc
Goto(a, pc) == proc' = [proc EXCEPT ![a].pc = pc]
Leave(a) == proc' = [proc EXCEPT ![a] = Off]
Tell(a, f) == fate' = [fate EXCEPT ![proc[a].prompt] = f]

\* Peek sorts by the time of arrival.
IsOldest(p, S) == p \in S /\ \A q \in S : at[p] <= at[q]

\* A file or a window command that fails.
Fault == faults < MaxFaults /\ faults' = faults + 1 /\ UNCHANGED crashes

-----------------------------------------------------------------------------
(* deliver *)

\* Under the lock: type at once, or queue behind what waits.
Deliver(d, p) ==
    LET now == waiting = {} /\ session # "blocked" IN
    /\ phase = "up" /\ At(d, "idle") /\ mu = None /\ fate[p] = "new"
    /\ fate' = [fate EXCEPT ![p] = "pending"]
    /\ proc' = [proc EXCEPT ![d] =
          [Off EXCEPT !.pc = IF now THEN "type" ELSE "append",
                      !.prompt = p, !.first = waiting = {}]]
    /\ mu' = IF now THEN None ELSE d
    /\ UNCHANGED <<disk, agent, phase, bounds>>

\* What waits cannot be read: the caller is told.
DeliverFails(d, p) ==
    /\ phase = "up" /\ At(d, "idle") /\ mu = None /\ fate[p] = "new"
    /\ fate' = [fate EXCEPT ![p] = "refused"]
    /\ Fault
    /\ UNCHANGED <<disk, agent, mu, proc, phase>>

\* The first to wait starts a drain for the window.
Enqueue(d) ==
    /\ At(d, "append")
    /\ waiting' = waiting \cup {proc[d].prompt}
    /\ at' = [at EXCEPT ![proc[d].prompt] = Cardinality({q \in Prompts : at[q] > 0}) + 1]
    /\ Tell(d, "accepted")
    /\ mu' = None
    /\ IF proc[d].first
       THEN \E k \in Drains : /\ At(k, "idle")
                              /\ proc' = [proc EXCEPT ![d] = Off, ![k].pc = "peek"]
       ELSE Leave(d)
    /\ UNCHANGED <<aside, agent, phase, bounds>>

EnqueueFails(d) ==
    /\ At(d, "append")
    /\ Tell(d, "refused") /\ mu' = None /\ Leave(d)
    /\ Fault
    /\ UNCHANGED <<disk, agent, phase>>

-----------------------------------------------------------------------------
(* SendPrompt types the text, then submits it. *)

\* deliver tells its caller; a drain keeps what waits for a human.
SendFailed(a) ==
    IF a \in Deliverers
    THEN Tell(a, "refused") /\ Leave(a)
    ELSE Goto(a, "keep") /\ UNCHANGED fate

WindowFails(a) == IF window THEN Fault ELSE UNCHANGED bounds

Type(a) ==
    /\ At(a, "type") /\ window
    /\ line' = line \cup {proc[a].prompt}
    /\ Goto(a, "enter")
    /\ UNCHANGED <<disk, session, window, sent, callers, phase, bounds>>

Enter(a) ==
    /\ At(a, "enter") /\ window
    /\ sent' = [p \in Prompts |-> IF p \in line THEN sent[p] + 1 ELSE sent[p]]
    /\ line' = {}
    /\ IF a \in Deliverers
       THEN Tell(a, "accepted") /\ Leave(a)
       ELSE Goto(a, "remove") /\ UNCHANGED fate
    /\ UNCHANGED <<disk, session, window, mu, phase, bounds>>

SendFails(a) ==
    /\ At(a, "type") \/ At(a, "enter")
    /\ SendFailed(a)
    /\ WindowFails(a)
    /\ UNCHANGED <<disk, agent, mu, phase>>

-----------------------------------------------------------------------------
(* drain *)

\* Mutant: the files are taken in any order.
PeekAny(k) ==
    /\ At(k, "peek")
    /\ IF waiting = {} THEN Leave(k)
       ELSE \E p \in waiting :
               proc' = [proc EXCEPT ![k].pc = "await", ![k].prompt = p]
    /\ UNCHANGED <<disk, agent, callers, phase, bounds>>

Peek(k) ==
    /\ At(k, "peek")
    /\ IF waiting = {} THEN Leave(k)
       ELSE \E p \in Prompts :
               /\ IsOldest(p, waiting)
               /\ proc' = [proc EXCEPT ![k].pc = "await", ![k].prompt = p]
    /\ UNCHANGED <<disk, agent, callers, phase, bounds>>

\* The drain ends, and leaves the queue as it is.
PeekFails(k) ==
    /\ At(k, "peek")
    /\ Leave(k)
    /\ Fault
    /\ UNCHANGED <<disk, agent, callers, phase>>

AwaitUnblocked(k) ==
    /\ At(k, "await") /\ session = "working"
    /\ Goto(k, "type")
    /\ UNCHANGED <<disk, agent, callers, phase, bounds>>

\* The session ended, or stayed blocked until the deadline.
AwaitFails(k) ==
    /\ At(k, "await") /\ session # "working"
    /\ Goto(k, "keep")
    /\ UNCHANGED <<disk, agent, callers, phase, bounds>>

\* Mutant: the drain ends with the prompt it delivered.
RemoveAndEnd(k) ==
    /\ At(k, "remove")
    /\ waiting' = waiting \ {proc[k].prompt}
    /\ Leave(k)
    /\ UNCHANGED <<at, aside, agent, callers, phase, bounds>>

Remove(k) ==
    /\ At(k, "remove")
    /\ waiting' = waiting \ {proc[k].prompt}
    /\ Goto(k, "peek")
    /\ UNCHANGED <<at, aside, agent, callers, phase, bounds>>

RemoveFails(k) ==
    /\ At(k, "remove")
    /\ Leave(k)
    /\ Fault
    /\ UNCHANGED <<disk, agent, callers, phase>>

-----------------------------------------------------------------------------
(* keepUndelivered: Quarantine writes each waiting prompt aside, then      *)
(* removes it. A failure ends it with the rest still waiting.              *)

KeepPeek(k) ==
    /\ At(k, "keep")
    /\ IF waiting = {} THEN Leave(k)
       ELSE proc' = [proc EXCEPT ![k].pc = "aside", ![k].todo = waiting]
    /\ UNCHANGED <<disk, agent, callers, phase, bounds>>

KeepWrite(k) ==
    /\ At(k, "aside")
    /\ \E p \in Prompts :
          /\ IsOldest(p, proc[k].todo)
          /\ aside' = aside \cup {p}
          /\ proc' = [proc EXCEPT ![k].pc = "clear", ![k].prompt = p]
    /\ UNCHANGED <<waiting, at, agent, callers, phase, bounds>>

KeepRemove(k) ==
    /\ At(k, "clear")
    /\ waiting' = waiting \ {proc[k].prompt}
    /\ IF proc[k].todo = {proc[k].prompt} THEN Leave(k)
       ELSE proc' = [proc EXCEPT ![k].pc = "aside",
                                 ![k].todo = @ \ {proc[k].prompt}]
    /\ UNCHANGED <<at, aside, agent, callers, phase, bounds>>

\* Mutant: a prompt that could not be written aside is removed all the same.
KeepFailsRemoves(k) ==
    /\ At(k, "keep") \/ At(k, "aside") \/ At(k, "clear")
    /\ IF At(k, "aside")
       THEN \E p \in Prompts :
               /\ IsOldest(p, proc[k].todo)
               /\ proc' = [proc EXCEPT ![k].pc = "clear", ![k].prompt = p]
       ELSE Leave(k)
    /\ Fault
    /\ UNCHANGED <<disk, agent, callers, phase>>

KeepFails(k) ==
    /\ At(k, "keep") \/ At(k, "aside") \/ At(k, "clear")
    /\ Leave(k)
    /\ Fault
    /\ UNCHANGED <<disk, agent, callers, phase>>

-----------------------------------------------------------------------------
(* The window and the agent in it *)

WindowGone == window' = FALSE /\ line' = {} /\ UNCHANGED <<session, sent>>

\* The stop phrase: KillWindow, then what waits is kept aside.
Stop(k) ==
    /\ phase = "up" /\ window /\ At(k, "idle")
    /\ WindowGone
    /\ Goto(k, "keep")
    /\ UNCHANGED <<disk, callers, phase, bounds>>

\* Someone closes the window.
Close ==
    /\ window
    /\ WindowGone
    /\ UNCHANGED <<disk, callers, proc, phase, bounds>>

\* A hook reports a dialog, its end, or the end or the start of the session.
Report(s) ==
    /\ session # s
    /\ session' = s
    /\ UNCHANGED <<disk, window, line, sent, callers, proc, phase, bounds>>

-----------------------------------------------------------------------------
(* A crash: files and window stay. A delivery under way is told to nobody. *)

Crash ==
    /\ crashes < MaxCrashes
    /\ crashes' = crashes + 1
    /\ phase' = "down" /\ mu' = None
    /\ proc' = [a \in Actors |-> Off]
    /\ fate' = [p \in Prompts |-> IF fate[p] = "pending" THEN "refused" ELSE fate[p]]
    /\ UNCHANGED <<disk, agent, faults>>

\* Mutant: only a window that is gone has its prompts seen to.
ResumeGone ==
    /\ phase = "down"
    /\ phase' = "up"
    /\ IF waiting = {} \/ window THEN UNCHANGED proc
       ELSE \E k \in Drains : Goto(k, "keep")
    /\ UNCHANGED <<disk, agent, callers, bounds>>

\* ResumeWaiting, before anything else is started.
Resume ==
    /\ phase = "down"
    /\ phase' = "up"
    /\ IF waiting = {} THEN UNCHANGED proc
       ELSE \E k \in Drains : Goto(k, IF window THEN "peek" ELSE "keep")
    /\ UNCHANGED <<disk, agent, callers, bounds>>

\* The queue cannot be read, or the window not be looked up.
ResumeFails ==
    /\ phase = "down"
    /\ phase' = "up"
    /\ Fault
    /\ UNCHANGED <<disk, agent, callers, proc>>

DelivererStep(d) ==
    \/ \E p \in Prompts : DeliverFails(d, p)
    \/ Enqueue(d) \/ EnqueueFails(d)
    \/ Type(d) \/ Enter(d) \/ SendFails(d)

DrainStep(k) ==
    \/ Peek(k) \/ PeekFails(k) \/ AwaitUnblocked(k) \/ AwaitFails(k)
    \/ Type(k) \/ Enter(k) \/ SendFails(k) \/ Remove(k) \/ RemoveFails(k)
    \/ KeepPeek(k) \/ KeepWrite(k) \/ KeepRemove(k) \/ KeepFails(k)

Next ==
    \/ \E d \in Deliverers :
          DelivererStep(d) \/ \E p \in Prompts : Deliver(d, p)
    \/ \E k \in Drains : DrainStep(k) \/ Stop(k)
    \/ Close \/ \E s \in {"working", "blocked", "ended"} : Report(s)
    \/ Crash \/ Resume \/ ResumeFails

Spec == Init /\ [][Next]_vars

(***************************************************************************)
(* Fairness: goroutines that can go on do, and a daemon that was started   *)
(* resumes. No prompt has to come and no dialog has to end: the deadline   *)
(* of awaitUnblocked ends the wait.                                        *)
(***************************************************************************)
Fairness ==
    /\ \A d \in Deliverers : WF_vars(DelivererStep(d))
    /\ \A k \in Drains : WF_vars(DrainStep(k))
    /\ WF_vars(Resume \/ ResumeFails)

FairSpec == Spec /\ Fairness

-----------------------------------------------------------------------------
(* Properties *)

\* A goroutine that is to queue, type or remove a prompt has one.
HasPrompt(r) ==
    r.pc \in {"append", "type", "enter", "await", "remove", "clear"} => r.prompt \in Prompts

ProcOK == proc \in [Actors -> Proc] /\ \A a \in Actors : HasPrompt(proc[a])

StateOK ==
    /\ waiting \subseteq Prompts /\ at \in [Prompts -> Nat] /\ aside \subseteq Prompts
    /\ session \in {"working", "blocked", "ended"} /\ window \in BOOLEAN
    /\ line \subseteq Prompts /\ sent \in [Prompts -> Nat]
    /\ fate \in [Prompts -> {"new", "pending", "refused", "accepted"}]
    /\ mu \in Deliverers \cup {None}
    /\ phase \in {"down", "up"} /\ faults \in Nat /\ crashes \in Nat

\* Every variable keeps its type: proved in WaitQueueProofs.
TypeOK == StateOK /\ ProcOK

\* "a prompt nobody could deliver must not just vanish" (pipeline_test.go):
\* what deliver accepted was submitted, or waits, or is kept for a human.
AcceptedIsKept ==
    \A p \in Prompts :
        fate[p] = "accepted" => sent[p] > 0 \/ p \in waiting \/ p \in aside

\* Queued prompts keep their order: one is submitted for the first time only
\* when those queued before it were submitted or put aside.
QueueOrder ==
    [][\A p, q \in Prompts :
          (0 < at[p] /\ at[p] < at[q] /\ sent[q] = 0 /\ sent'[q] > 0)
          => sent'[p] > 0 \/ p \in aside]_vars

\* While a drain still has its loop to go round, everything that waits leaves
\* the queue: delivered, or kept when the dialog or the window is the end of it.
Draining == \E k \in Drains : proc[k].pc \in {"peek", "await", "type", "enter", "remove"}

DrainEmptiesQueue ==
    \A p \in Prompts :
        (p \in waiting /\ Draining) ~> (p \notin waiting \/ faults > 0)

\* What waited when the daemon died is taken up by the next one.
WaitingSurvivesRestart ==
    \A p \in Prompts :
        (p \in waiting /\ phase = "down") ~> (p \notin waiting \/ faults > 0)

(***************************************************************************)
(* The inductive invariant behind AcceptedIsKept: a goroutine that is      *)
(* about to take a prompt out of the queue has seen it submitted, or has   *)
(* written it aside. Another goroutine's Enter may submit what this one    *)
(* typed.                                                                  *)
(***************************************************************************)
Justified(r) ==
    /\ (r.pc = "enter" /\ window) => r.prompt \in line \/ sent[r.prompt] > 0
    /\ r.pc = "remove" => sent[r.prompt] > 0
    /\ r.pc = "clear" => r.prompt \in aside

AllJustified == \A a \in Actors : Justified(proc[a])

IInv == TypeOK /\ AcceptedIsKept /\ AllJustified

(***************************************************************************)
(* The inductive invariant behind QueueOrder, beside IInv: each prompt is  *)
(* delivered by one caller, queued at most once and later than all before  *)
(* it; what left the queue was submitted or put aside; and a drain types a *)
(* prompt only when all that came before it has left.                      *)
(***************************************************************************)
Queued == {q \in Prompts : at[q] > 0}

\* All that was queued before q is done with.
Before(q) ==
    \A p \in Prompts : 0 < at[p] /\ at[p] < at[q] => sent[p] > 0 \/ p \in aside

FilesAreOrdered ==
    \A p \in Prompts :
        /\ p \in waiting => at[p] > 0
        /\ at[p] > 0 => p \in waiting \/ sent[p] > 0 \/ p \in aside
        /\ at[p] <= Cardinality(Queued)

CallersAreFirst ==
    \A p \in Prompts :
        /\ fate[p] \in {"new", "pending"} => at[p] = 0
        /\ fate[p] = "new" => p \notin line

Delivering(d) == proc[d].pc \in {"append", "type", "enter"}

DeliverersApart ==
    \A d \in Deliverers : Delivering(d) =>
        /\ fate[proc[d].prompt] = "pending"
        /\ At(d, "append") => proc[d].prompt \notin line
        /\ \A e \in Deliverers \ {d} :
              Delivering(e) => proc[e].prompt # proc[d].prompt

DrainsInOrder ==
    \A k \in Drains : proc[k].pc \in {"await", "type"} =>
        at[proc[k].prompt] > 0 /\ Before(proc[k].prompt)

LineInOrder == \A q \in line : Before(q)

OrderInv ==
    FilesAreOrdered /\ CallersAreFirst /\ DeliverersApart /\ DrainsInOrder /\ LineInOrder
=============================================================================
