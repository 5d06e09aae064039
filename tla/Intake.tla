------------------------------- MODULE Intake -------------------------------
(***************************************************************************)
(* How handoffd takes a notification in: the inbox it is admitted to, the  *)
(* worker that handles it, the goroutine that waits for a triage verdict   *)
(* (and then handles what was deferred behind it), the dead letters, the   *)
(* bounded set of settled ids, Replay of dead letters, and the restart     *)
(* that recovers the inbox (internal/pipeline/pipeline.go, triage.go,      *)
(* internal/deadletter, internal/state).                                   *)
(*                                                                         *)
(* What a message says, and which of the non-drop actions answers it, is   *)
(* abstracted: "answered" stands for every outcome process journals that   *)
(* needs no dead letter (ignored, skipped, silent, continued, opened...).  *)
(***************************************************************************)
EXTENDS Naturals, Sequences, FiniteSets

CONSTANTS
    Ids,           \* notification ids (team and timestamp of a message)
    Roots,         \* threads
    RootOf,        \* the thread of each id
    Worker,        \* the goroutine of Work
    Goroutines,    \* slots for the goroutines runTriage starts
    Feeds,         \* admission goroutines: "main" (the tailer), "poll"
    NoItem,        \* "no notification in hand"
    Attempts,      \* handleAttempts
    QueueSize,     \* capacity of the channel between Enqueue and Work
    SeenCapacity,  \* cfg.SeenCapacity
    MaxCopies,     \* bound: times one id is reported by the feeds
    MaxSignals,    \* bound: SIGUSR1 deliveries
    MaxFaults,     \* bound: writes that fail
    MaxCrashes     \* bound: crashes

Items == [id : Ids, replay : BOOLEAN]
Handlers == {Worker} \cup Goroutines
Producers == Feeds \cup {"signal"}

ASSUME IntakeAssumption ==
    /\ RootOf \in [Ids -> Roots]
    /\ Worker \notin Goroutines
    /\ NoItem \notin Items
    /\ "main" \in Feeds /\ "signal" \notin Feeds
    /\ Attempts \in Nat \ {0}
    /\ QueueSize \in Nat \ {0}
    /\ SeenCapacity \in Nat \ {0}
    /\ {MaxCopies, MaxSignals, MaxFaults, MaxCrashes} \subseteq Nat

VARIABLES
    inbox,      \* disk: the source each id's inbox record carries, or "none"
    dead,       \* disk: ids in the dead letters
    seen,       \* disk and memory: settled ids, oldest first
    admitted,   \* history: ids ever written to the inbox
    answered,   \* history: ids for which an outcome other than a drop was reached
    queue,      \* memory: the channel Work reads
    replaying,  \* memory: ids a replay is believed to be under way for
    inflight,   \* memory: threads with a triage running
    deferred,   \* memory: what waits behind the triage of a thread
    phase,      \* memory: where main is: starting, recovering, watching
    recover,    \* memory: inbox records Recover has yet to look at
    replays,    \* memory: dead letters Replay has yet to queue
    sending,    \* memory: what each producer is blocked on the channel with
    hand,       \* memory: what each handler is doing
    copies, signals, faults, crashes   \* what the bounds count

disk == <<inbox, dead, seen>>
history == <<admitted, answered>>
shared == <<queue, replaying, inflight, deferred>>
producers == <<phase, recover, replays, sending>>
bounds == <<copies, signals, faults, crashes>>
vars == <<disk, history, shared, producers, hand, bounds>>

-----------------------------------------------------------------------------
(* State *)

PCs == {"idle", "check", "run", "start", "triage", "bury", "commit", "forget",
        "release", "unbury", "wake"}
Acts == {"none", "answered", "dropped", "error", "stale", "uncommitted"}

Hand == [pc : PCs, item : Items \cup {NoItem}, attempt : 0..Attempts,
         act : Acts, own : BOOLEAN, todo : Seq(Items)]

Idle == [pc |-> "idle", item |-> NoItem, attempt |-> 0, act |-> "none",
         own |-> FALSE, todo |-> <<>>]

Settled == {seen[i] : i \in DOMAIN seen}

Init ==
    /\ inbox = [m \in Ids |-> "none"]
    /\ dead = {}
    /\ seen = <<>>
    /\ admitted = {} /\ answered = {}
    /\ queue = <<>> /\ replaying = {} /\ inflight = {}
    /\ deferred = [r \in Roots |-> <<>>]
    /\ phase = "starting" /\ recover = {} /\ replays = {}
    /\ sending = [p \in Producers |-> NoItem]
    /\ hand = [h \in Handlers |-> Idle]
    /\ copies = [m \in Ids |-> 0]
    /\ signals = 0 /\ faults = 0 /\ crashes = 0

-----------------------------------------------------------------------------
(* Admission: Enqueue writes the inbox, then blocks on the channel. *)

Source(it) == IF it.replay THEN "replay" ELSE "notification"

\* inbox.Add: the record of an id replaces the one it had.
AddToInbox(it) ==
    /\ inbox' = [inbox EXCEPT ![it.id] = Source(it)]
    /\ admitted' = admitted \cup {it.id}

\* A file that cannot be read or written: the disk stays as it was, and the
\* code only logs it.
FileFault == /\ faults < MaxFaults
              /\ faults' = faults + 1
              /\ UNCHANGED <<copies, signals, crashes>>

\* The tailer or the thread poll reports a message (an id may come from both).
\* A failed inbox.Add refuses it and changes nothing, so it is no action.
Admit(f, m) ==
    LET it == [id |-> m, replay |-> FALSE] IN
    /\ phase = "watching"
    /\ sending[f] = NoItem
    /\ copies[m] < MaxCopies
    /\ AddToInbox(it)
    /\ sending' = [sending EXCEPT ![f] = it]
    /\ copies' = [copies EXCEPT ![m] = @ + 1]
    /\ UNCHANGED <<dead, seen, answered, shared, phase, recover, replays, hand,
                   signals, faults, crashes>>

Send(p) ==
    /\ sending[p] # NoItem
    /\ Len(queue) < QueueSize
    /\ queue' = Append(queue, sending[p])
    /\ sending' = [sending EXCEPT ![p] = NoItem]
    /\ UNCHANGED <<disk, history, replaying, inflight, deferred, phase, recover,
                   replays, hand, bounds>>

-----------------------------------------------------------------------------
(* Recover: main re-enqueues, once, what the inbox held at the start. *)

Recorded == {it \in Items : inbox[it.id] = Source(it)}

RecoverPeek ==
    /\ phase = "starting"
    /\ phase' = "recovering"
    /\ recover' = Recorded
    /\ UNCHANGED <<disk, history, shared, replays, sending, hand, bounds>>

\* An unreadable inbox recovers nothing and the watcher goes on.
RecoverPeekFails ==
    /\ phase = "starting"
    /\ phase' = "recovering"
    /\ FileFault
    /\ UNCHANGED <<disk, history, shared, recover, replays, sending, hand>>

\* A record whose id was settled is a leftover, and is removed.
RecoverSettled(it) ==
    /\ it.id \in Settled
    /\ inbox' = [inbox EXCEPT ![it.id] = "none"]
    /\ recover' = recover \ {it}
    /\ UNCHANGED <<dead, seen, history, shared, phase, replays, sending, hand, bounds>>

RecoverSettledFails(it) ==
    /\ it.id \in Settled
    /\ recover' = recover \ {it}
    /\ FileFault
    /\ UNCHANGED <<disk, history, shared, phase, replays, sending, hand>>

RecoverEnqueue(it) ==
    /\ it.id \notin Settled
    /\ AddToInbox(it)
    /\ sending' = [sending EXCEPT !["main"] = it]
    /\ recover' = recover \ {it}
    /\ UNCHANGED <<dead, seen, answered, shared, phase, replays, hand, bounds>>

\* An inbox that cannot be written ends the recovery early.
RecoverEnqueueFails(it) ==
    /\ it.id \notin Settled
    /\ recover' = {}
    /\ FileFault
    /\ UNCHANGED <<disk, history, shared, phase, replays, sending, hand>>

\* Records are taken in the order of the file; any order is allowed here.
RecoverNext ==
    /\ phase = "recovering"
    /\ sending["main"] = NoItem
    /\ \E it \in recover :
          \/ RecoverSettled(it) \/ RecoverSettledFails(it)
          \/ RecoverEnqueue(it) \/ RecoverEnqueueFails(it)

RecoverDone ==
    /\ phase = "recovering"
    /\ recover = {}
    /\ sending["main"] = NoItem
    /\ phase' = "watching"
    /\ UNCHANGED <<disk, history, shared, recover, replays, sending, hand, bounds>>

-----------------------------------------------------------------------------
(* Replay: SIGUSR1 queues every dead letter not already being replayed. *)

Signal ==
    /\ signals < MaxSignals
    /\ signals' = signals + 1
    /\ replays = {} /\ sending["signal"] = NoItem
    /\ replays' = dead
    /\ UNCHANGED <<disk, history, shared, phase, recover, sending, hand,
                   copies, faults, crashes>>

ReplayBusy(m) ==
    /\ m \in replaying
    /\ replays' = replays \ {m}
    /\ UNCHANGED <<disk, history, shared, sending, bounds>>

\* Mutant: a replay takes its dead letter out of the file as it is queued.
ReplayEnqueueTakes(m) ==
    LET it == [id |-> m, replay |-> TRUE] IN
    /\ m \notin replaying
    /\ replaying' = replaying \cup {m}
    /\ AddToInbox(it)
    /\ dead' = dead \ {m}
    /\ sending' = [sending EXCEPT !["signal"] = it]
    /\ replays' = replays \ {m}
    /\ UNCHANGED <<seen, answered, queue, inflight, deferred, bounds>>

ReplayEnqueue(m) ==
    LET it == [id |-> m, replay |-> TRUE] IN
    /\ m \notin replaying
    /\ replaying' = replaying \cup {m}
    /\ AddToInbox(it)
    /\ sending' = [sending EXCEPT !["signal"] = it]
    /\ replays' = replays \ {m}
    /\ UNCHANGED <<dead, seen, answered, queue, inflight, deferred, bounds>>

\* A refused admission ends the replay: the claim on the id is given back.
ReplayEnqueueFails(m) ==
    /\ m \notin replaying
    /\ replays' = {}
    /\ FileFault
    /\ UNCHANGED <<disk, history, shared, sending>>

ReplayNext ==
    /\ sending["signal"] = NoItem
    /\ \E m \in replays : ReplayBusy(m) \/ ReplayEnqueue(m) \/ ReplayEnqueueFails(m)
    /\ UNCHANGED <<phase, recover, hand>>

-----------------------------------------------------------------------------
(* Handle: what Work does with a notification, and a triage goroutine with *)
(* those deferred behind it.                                               *)

Id(h) == hand[h].item.id
Busy(h, pcs) == hand[h].pc \in pcs

\* What a handler turns to when it is through with its item: the goroutine of
\* a triage lets the deferred messages through, then handles them in turn.
Through(r) ==
    IF r.own THEN [r EXCEPT !.pc = "wake"]
    ELSE IF r.todo = <<>> THEN Idle
    ELSE [Idle EXCEPT !.pc = "check", !.item = Head(r.todo), !.todo = Tail(r.todo)]

Finish(h) == hand' = [hand EXCEPT ![h] = Through(@)]
Goto(h, pc) == hand' = [hand EXCEPT ![h].pc = pc]
Decide(h, act, pc) == hand' = [hand EXCEPT ![h].act = act, ![h].pc = pc]

\* releaseReplay: only a replayed copy gives the claim back.
Released(it) == IF it.replay THEN replaying \ {it.id} ELSE replaying

Take ==
    /\ Busy(Worker, {"idle"})
    /\ queue # <<>>
    /\ queue' = Tail(queue)
    /\ hand' = [hand EXCEPT ![Worker].pc = "check", ![Worker].item = Head(queue)]
    /\ UNCHANGED <<disk, history, replaying, inflight, deferred, producers, bounds>>

\* An id already settled is not handled again; a replay is, whatever was settled.
Check(h) ==
    /\ Busy(h, {"check"})
    /\ IF ~hand[h].item.replay /\ Id(h) \in Settled
       THEN Decide(h, "stale", "forget")
       ELSE hand' = [hand EXCEPT ![h].pc = "run", ![h].attempt = 1]
    /\ UNCHANGED <<disk, history, shared, producers, bounds>>

\* process reached an outcome that needs no dead letter.
Answer(h) ==
    /\ Busy(h, {"run", "triage"})
    /\ answered' = answered \cup {Id(h)}
    /\ Decide(h, "answered", "commit")
    /\ UNCHANGED <<disk, admitted, shared, producers, bounds>>

\* A rate limit, a refused review, or a triage without a usable verdict.
Drop(h) ==
    /\ Busy(h, {"run", "triage"})
    /\ Decide(h, "dropped", "bury")
    /\ UNCHANGED <<disk, history, shared, producers, bounds>>

\* The escalation a verdict asked for failed: there is no second attempt.
EscalationFails(h) ==
    /\ Busy(h, {"triage"})
    /\ Decide(h, "error", "bury")
    /\ UNCHANGED <<disk, history, shared, producers, bounds>>

\* An attempt failed: another follows, or the notification goes to the dead
\* letters, its claim on a replay given back before the record is written.
AttemptFails(h) ==
    /\ Busy(h, {"run", "start"})
    /\ IF hand[h].attempt < Attempts
       THEN /\ hand' = [hand EXCEPT ![h].attempt = @ + 1, ![h].pc = "run"]
            /\ UNCHANGED replaying
       ELSE /\ Decide(h, "error", "bury")
            /\ replaying' = Released(hand[h].item)
    /\ UNCHANGED <<disk, history, queue, inflight, deferred, producers, bounds>>

-----------------------------------------------------------------------------
(* runTriage: one lock section looks at inflight, a later one sets it. *)

Defer(h) ==
    LET r == RootOf[Id(h)] IN
    /\ Busy(h, {"run"})
    /\ r \in inflight
    /\ deferred' = [deferred EXCEPT ![r] = Append(@, hand[h].item)]
    /\ Finish(h)
    /\ UNCHANGED <<disk, history, queue, replaying, inflight, producers, bounds>>

StartTriage(h) ==
    /\ Busy(h, {"run"})
    /\ RootOf[Id(h)] \notin inflight
    /\ Goto(h, "start")
    /\ UNCHANGED <<disk, history, shared, producers, bounds>>

\* The triage window is open and the goroutine g waits for its verdict.
SpawnTriage(h, g) ==
    /\ Busy(h, {"start"})
    /\ Busy(g, {"idle"})
    /\ inflight' = inflight \cup {RootOf[Id(h)]}
    /\ hand' = [hand EXCEPT
          ![h] = Through(@),
          ![g] = [Idle EXCEPT !.pc = "triage", !.item = hand[h].item, !.own = TRUE]]
    /\ UNCHANGED <<disk, history, queue, replaying, deferred, producers, bounds>>

\* Mutant: the deferred messages are dropped from memory, not handled.
WakeDrops(g) ==
    LET r == RootOf[Id(g)] IN
    /\ Busy(g, {"wake"})
    /\ inflight' = inflight \ {r}
    /\ deferred' = [deferred EXCEPT ![r] = <<>>]
    /\ hand' = [hand EXCEPT ![g] = Through([hand[g] EXCEPT !.own = FALSE])]
    /\ UNCHANGED <<disk, history, queue, replaying, producers, bounds>>

\* Mutant: the deferred messages are read in one lock section, and the thread
\* is freed without taking the list away.
WakeKeeps(g) ==
    LET r == RootOf[Id(g)] IN
    /\ Busy(g, {"wake"})
    /\ inflight' = inflight \ {r}
    /\ hand' = [hand EXCEPT
          ![g] = Through([hand[g] EXCEPT !.own = FALSE, !.todo = deferred[r]])]
    /\ UNCHANGED <<disk, history, queue, replaying, deferred, producers, bounds>>

\* replayDeferred: the thread is free, and what waited is now in this
\* goroutine's hands alone.
Wake(g) ==
    LET r == RootOf[Id(g)] IN
    /\ Busy(g, {"wake"})
    /\ inflight' = inflight \ {r}
    /\ deferred' = [deferred EXCEPT ![r] = <<>>]
    /\ hand' = [hand EXCEPT
          ![g] = Through([hand[g] EXCEPT !.own = FALSE, !.todo = deferred[r]])]
    /\ UNCHANGED <<disk, history, queue, replaying, producers, bounds>>

-----------------------------------------------------------------------------
(* bury and settle *)

Bury(h) ==
    /\ Busy(h, {"bury"})
    /\ dead' = dead \cup {Id(h)}
    /\ Goto(h, "commit")
    /\ UNCHANGED <<inbox, seen, history, shared, producers, bounds>>

\* Mutant: a dead letter that could not be written is logged and settled.
BuryFailsSettles(h) ==
    /\ Busy(h, {"bury"})
    /\ Goto(h, "commit")
    /\ FileFault
    /\ UNCHANGED <<disk, history, shared, producers>>

\* Without its dead letter the notification stays in the inbox, unsettled.
BuryFails(h) ==
    /\ Busy(h, {"bury"})
    /\ Finish(h)
    /\ FileFault
    /\ UNCHANGED <<disk, history, shared, producers>>

\* CommitSeen: append unless it is there, and trim the oldest.
Remembered(m) ==
    LET longer == Append(seen, m) IN
    IF m \in Settled THEN seen
    ELSE IF Len(longer) <= SeenCapacity THEN longer
    ELSE Tail(longer)

Commit(h) ==
    /\ Busy(h, {"commit"})
    /\ seen' = Remembered(Id(h))
    /\ Goto(h, "forget")
    /\ UNCHANGED <<inbox, dead, history, shared, producers, bounds>>

\* save failed: Seen is rolled back and the durable copies are kept.
CommitFails(h) ==
    /\ Busy(h, {"commit"})
    /\ Decide(h, "uncommitted", "release")
    /\ FileFault
    /\ UNCHANGED <<disk, history, shared, producers>>

Forget(h) ==
    /\ Busy(h, {"forget"})
    /\ inbox' = [inbox EXCEPT ![Id(h)] = "none"]
    /\ Goto(h, "release")
    /\ UNCHANGED <<dead, seen, history, shared, producers, bounds>>

ForgetFails(h) ==
    /\ Busy(h, {"forget"})
    /\ Goto(h, "release")
    /\ FileFault
    /\ UNCHANGED <<disk, history, shared, producers>>

\* Mutant: every settled replay has its dead letter removed.
ReleaseAny(h) ==
    /\ Busy(h, {"release"})
    /\ replaying' = Released(hand[h].item)
    /\ IF hand[h].item.replay THEN Goto(h, "unbury") ELSE Finish(h)
    /\ UNCHANGED <<disk, history, queue, inflight, deferred, producers, bounds>>

\* Only a replay that was answered and committed has a dead letter to remove.
Release(h) ==
    /\ Busy(h, {"release"})
    /\ replaying' = Released(hand[h].item)
    /\ IF hand[h].item.replay /\ hand[h].act = "answered"
       THEN Goto(h, "unbury")
       ELSE Finish(h)
    /\ UNCHANGED <<disk, history, queue, inflight, deferred, producers, bounds>>

Unbury(h) ==
    /\ Busy(h, {"unbury"})
    /\ dead' = dead \ {Id(h)}
    /\ Finish(h)
    /\ UNCHANGED <<inbox, seen, history, shared, producers, bounds>>

UnburyFails(h) ==
    /\ Busy(h, {"unbury"})
    /\ Finish(h)
    /\ FileFault
    /\ UNCHANGED <<disk, history, shared, producers>>

-----------------------------------------------------------------------------
(* A crash, or a stop: everything but the files is gone.                   *)

Crash ==
    /\ crashes < MaxCrashes
    /\ crashes' = crashes + 1
    /\ queue' = <<>> /\ replaying' = {} /\ inflight' = {}
    /\ deferred' = [r \in Roots |-> <<>>]
    /\ phase' = "starting" /\ recover' = {} /\ replays' = {}
    /\ sending' = [p \in Producers |-> NoItem]
    /\ hand' = [h \in Handlers |-> Idle]
    /\ UNCHANGED <<disk, history, copies, signals, faults>>

Produce ==
    \/ \E p \in Producers : Send(p)
    \/ RecoverPeek \/ RecoverPeekFails \/ RecoverNext \/ RecoverDone
    \/ ReplayNext

HandleStep(h) ==
    \/ Check(h) \/ Answer(h) \/ Drop(h) \/ EscalationFails(h) \/ AttemptFails(h)
    \/ Defer(h) \/ StartTriage(h) \/ \E g \in Goroutines : SpawnTriage(h, g)
    \/ Wake(h)
    \/ Bury(h) \/ BuryFails(h) \/ Commit(h) \/ CommitFails(h)
    \/ Forget(h) \/ ForgetFails(h) \/ Release(h) \/ Unbury(h) \/ UnburyFails(h)

Next ==
    \/ \E f \in Feeds, m \in Ids : Admit(f, m)
    \/ Produce
    \/ Signal
    \/ Take
    \/ \E h \in Handlers : HandleStep(h)
    \/ Crash

Spec == Init /\ [][Next]_vars

(***************************************************************************)
(* Fairness: goroutines are scheduled, so a producer, the worker and a     *)
(* triage goroutine that can go on does. Nothing makes a message come, a   *)
(* signal or a crash happen.                                               *)
(***************************************************************************)
Fairness ==
    /\ \A p \in Producers : WF_vars(Send(p))
    /\ WF_vars(RecoverPeek \/ RecoverPeekFails \/ RecoverNext \/ RecoverDone)
    /\ WF_vars(ReplayNext)
    /\ WF_vars(Take)
    /\ \A h \in Handlers : WF_vars(HandleStep(h))

FairSpec == Spec /\ Fairness

-----------------------------------------------------------------------------
(* Properties *)

\* Where an id stands, as Admission tells it.
StatusOf(m) ==
    IF m \in answered THEN "answered"
    ELSE IF m \in dead THEN "parked"
    ELSE IF inbox[m] # "none" THEN "admitted"
    ELSE "unknown"

Abstract == INSTANCE Admission WITH status <- [m \in Ids |-> StatusOf(m)]

\* README.md:24-25 as a protocol: the intake implements Admission. A message
\* goes from the inbox to an outcome or to the dead letters, from those only
\* to an outcome, and never back.
ImplementsAdmission == Abstract!Spec

Accounted(m) == m \in answered \/ m \in dead

\* A handler at work has a notification in hand.
HandOK ==
    /\ hand \in [Handlers -> Hand]
    /\ \A h \in Handlers : hand[h].pc # "idle" => hand[h].item # NoItem

\* What is on disk, in the daemon's other memory, and in the histories.
StateOK ==
    /\ inbox \in [Ids -> {"none", "notification", "replay"}]
    /\ dead \subseteq Ids
    /\ seen \in Seq(Ids) /\ Len(seen) <= SeenCapacity
    /\ admitted \subseteq Ids /\ answered \subseteq Ids
    /\ queue \in Seq(Items)
    /\ replaying \subseteq Ids
    /\ inflight \subseteq Roots
    /\ deferred \in [Roots -> Seq(Items)]
    /\ phase \in {"starting", "recovering", "watching"}
    /\ recover \subseteq Items
    /\ replays \subseteq Ids
    /\ sending \in [Producers -> Items \cup {NoItem}]
    /\ copies \in [Ids -> Nat]
    /\ signals \in Nat /\ faults \in Nat /\ crashes \in Nat

\* Every variable keeps its type, and the settled ids never exceed the
\* capacity.
TypeOK == StateOK /\ HandOK

\* README.md:24-25. A notification once admitted is in the inbox, or reached
\* an outcome, or is in the dead letters: whatever fails, whenever the daemon
\* dies, and however many copies of it are in the daemon's hands.
NothingLost ==
    \A m \in admitted : inbox[m] # "none" \/ Accounted(m)

\* A dead letter leaves the file only when a replay of it was answered.
DeadLetterLeavesAnswered ==
    [][\A m \in dead \ dead' : m \in answered]_vars

\* What waits behind a triage has a goroutine that will let it through: a
\* message is deferred under the same lock under which the thread is freed.
DeferredHasWaker ==
    \A r \in Roots :
        deferred[r] # <<>> =>
            \E g \in Goroutines : hand[g].own /\ RootOf[Id(g)] = r

\* Unless a write failed, no admitted notification stays in the inbox for
\* ever: deferral, retries, restarts and replays all end in a settlement.
EventuallySettled ==
    \A m \in Ids : inbox[m] # "none" ~> (inbox[m] = "none" \/ faults > 0)

(***************************************************************************)
(* The inductive invariant behind NothingLost: every notification in the   *)
(* daemon's hands was admitted, and a handler reaches the steps that take  *)
(* a durable copy away only with an id that is accounted for.              *)
(***************************************************************************)
Entries(q) == {q[i] : i \in DOMAIN q}

SettledIsAccounted == \A m \in Settled : Accounted(m)

\* Past bury (or the finding that the id was settled) an id is accounted for;
\* a decision to answer is recorded, and only then is a dead letter removed.
Vouched(r) ==
    /\ r.pc \in {"commit", "forget"} => Accounted(r.item.id)
    /\ r.act = "answered" => r.pc # "idle" /\ r.item.id \in answered
    /\ r.pc = "unbury" => r.item.id \in answered

HandsVouched == \A h \in Handlers : Vouched(hand[h])

IInv == TypeOK /\ NothingLost /\ SettledIsAccounted /\ HandsVouched

(***************************************************************************)
(* What DeferredHasWaker rests on: the mark of a running triage outlives   *)
(* every step but its own goroutine's release, and nothing waits behind a  *)
(* thread without a mark.                                                  *)
(***************************************************************************)
Watched(r) == \E g \in Goroutines : hand[g].own /\ RootOf[Id(g)] = r

\* A slot that is free owns no mark, so that a new triage overwrites none.
OwnersAreAtWork == \A h \in Handlers : hand[h].own => hand[h].pc # "idle"

MarksAreWatched == \A r \in inflight : Watched(r)

DeferredBehindMark == \A r \in Roots : deferred[r] # <<>> => r \in inflight

WakerInv == OwnersAreAtWork /\ MarksAreWatched /\ DeferredBehindMark

(***************************************************************************)
(* What the refinement rests on besides IInv: nothing reaches a handler    *)
(* that was not written to the inbox first.                                *)
(***************************************************************************)
AdmittedItems == {it \in Items : it.id \in admitted}

HandFrom(r, S) == (r.pc # "idle" => r.item \in S) /\ r.todo \in Seq(S)

\* Every notification on its way to a handler, or with one, is one of S.
OnlyFrom(S) ==
    /\ queue \in Seq(S)
    /\ sending \in [Producers -> S \cup {NoItem}]
    /\ deferred \in [Roots -> Seq(S)]
    /\ \A h \in Handlers : HandFrom(hand[h], S)

OnlyAdmitted == OnlyFrom(AdmittedItems)
=============================================================================
