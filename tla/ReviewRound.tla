----------------------------- MODULE ReviewRound ----------------------------
(***************************************************************************)
(* The record of a review thread in the state file, and who rewrites it:   *)
(* the handlers of messages (launch, committee, continuation, progress,    *)
(* stop), the outbound writer (admission against the round, the transition *)
(* of the round, the collection of a committee's results) and the link     *)
(* drainer. Each takes a copy of the record, talks to git, the forge,      *)
(* Slack or the terminal, and then writes: some apply a change to the      *)
(* record as it is by then (UpdateThread), some put their copy in its      *)
(* place (SetThread).                                                      *)
(*                                                                         *)
(* A revision stands for the head of the merge request together with its   *)
(* base. A session stands for the window it runs in.                       *)
(***************************************************************************)
EXTENDS Naturals, FiniteSets

CONSTANTS
    Members,       \* the agents of the committee besides the driver
    Driver,        \* the agent of the thread's own window
    Handlers,      \* goroutines that handle messages: worker, triages
    MaxHead,       \* bound: revisions the merge request has
    MaxSessions,   \* bound: windows opened or linked
    MaxMishaps     \* bound: stop phrases, links, outages of the forge, failed
                   \* writes of the state file and crashes, together

Agents == Members \cup {Driver}
Revisions == 1..MaxHead
Sessions == 1..MaxSessions

ASSUME ReviewRoundAssumption ==
    /\ IsFiniteSet(Members) /\ Driver \notin Members
    /\ {MaxHead, MaxSessions} \subseteq Nat \ {0} /\ MaxMishaps \in Nat

VARIABLES
    thread,    \* memory: the record of the thread
    disk,      \* the record in the state file
    head,      \* outside: the revision of the merge request
    windows,   \* outside: the live windows, <<session, agent>>
    opened,    \* sessions there have been
    runs,      \* rounds there have been, to tell them apart
    hand,      \* what each handler is at
    writer,    \* what the writer is at
    link,      \* what the link drainer is at
    asked,     \* rounds whose driver was asked for the joint verdict
    mishaps

outside == <<head, windows>>
counters == <<opened, runs>>
actors == <<hand, writer, link>>
vars == <<thread, disk, outside, counters, actors, asked, mishaps>>

-----------------------------------------------------------------------------
(* The record *)

\* 0 is "none" everywhere. sess: the window and its session. crew: the launch
\* whose committee is attached. id tells rounds of equal number apart.
Thread ==
    [sess : 0..MaxSessions, crew : 0..MaxSessions, head : 0..MaxHead,
     progress : BOOLEAN, round : Nat, id : Nat, runHead : 0..MaxHead,
     started : BOOLEAN, results : [Members -> 0..MaxHead], joint : 0..MaxHead]

Unknown ==
    [sess |-> 0, crew |-> 0, head |-> 0, progress |-> FALSE, round |-> 0, id |-> 0,
     runHead |-> 0, started |-> FALSE, results |-> [m \in Members |-> 0], joint |-> 0]

\* Mutant: what was recorded in the round before is carried over.
WithRoundKept(t, revision) ==
    [t EXCEPT !.round = @ + 1, !.id = runs + 1, !.runHead = revision, !.started = FALSE]

\* OpenRound: the results and the joint verdict of the round before are void.
WithRound(t, revision) ==
    [t EXCEPT !.round = @ + 1, !.id = runs + 1, !.runHead = revision,
              !.started = FALSE, !.results = [m \in Members |-> 0], !.joint = 0]

Gone(t) == [t EXCEPT !.sess = 0]

\* All that is still used of a copy once the talking to the outside is over.
Round(t) == [Unknown EXCEPT !.crew = t.crew, !.head = t.head, !.round = t.round,
                            !.id = t.id, !.runHead = t.runHead]

Moved(t, revision) == t.runHead # 0 /\ revision # 0 /\ revision # t.runHead

\* What missingResults does not wait for: a result, or a window that is gone.
Missing(t) ==
    IF t.crew = 0 THEN {}
    ELSE {m \in Members : t.results[m] = 0 /\ <<t.crew, m>> \in windows}

-----------------------------------------------------------------------------
(* The actors *)

HandPCs == {"idle", "route", "live", "gone", "new", "stop", "continue", "progress",
            "attach"}
Hand == [pc : HandPCs, snap : Thread, moved : BOOLEAN]
IdleHand == [pc |-> "idle", snap |-> Unknown, moved |-> FALSE]

Kinds == {"note", "taken", "start", "done"}
WriterPCs == {"idle", "inspect", "commit", "collect"}
Writer == [pc : WriterPCs, agent : Agents, kind : Kinds, sha : 0..MaxHead,
           snap : Thread, round : Nat, id : Nat, stale : BOOLEAN]
IdleWriter == [pc |-> "idle", agent |-> Driver, kind |-> "note", sha |-> 0,
               snap |-> Unknown, round |-> 0, id |-> 0, stale |-> FALSE]

Link == [pc : {"idle", "set"}, snap : Thread, sess : 0..MaxSessions]
IdleLink == [pc |-> "idle", snap |-> Unknown, sess |-> 0]

Init ==
    /\ thread = Unknown /\ disk = Unknown
    /\ head = 1 /\ windows = {} /\ opened = 0 /\ runs = 0
    /\ hand = [h \in Handlers |-> IdleHand]
    /\ writer = IdleWriter /\ link = IdleLink /\ asked = {}
    /\ mishaps = 0

Mishap == mishaps < MaxMishaps /\ mishaps' = mishaps + 1

\* UpdateThread: the change and the file, or neither.
Update(t) == thread' = t /\ disk' = t

\* SetThread and Save: the record is changed, whether or not the file is.
Put(t) == /\ thread' = t
          /\ \/ disk' = t /\ UNCHANGED mishaps
             \/ UNCHANGED disk /\ Mishap

Step(h, r) == hand' = [hand EXCEPT ![h] = r]
Done(h) == Step(h, IdleHand)

-----------------------------------------------------------------------------
(* A message: process reads the record, route looks for the window. *)

Take(h) ==
    /\ hand[h].pc = "idle"
    /\ Step(h, [IdleHand EXCEPT !.pc = "route", !.snap = thread])
    /\ UNCHANGED <<thread, disk, outside, counters, writer, link, asked, mishaps>>

Live(s) == <<s, Driver>> \in windows

RouteLive(h) ==
    /\ hand[h].pc = "route" /\ hand[h].snap.sess # 0 /\ Live(hand[h].snap.sess)
    /\ Step(h, [hand[h] EXCEPT !.pc = "live"])
    /\ UNCHANGED <<thread, disk, outside, counters, writer, link, asked, mishaps>>

\* All that is still used of the copy of a record without a window.
Kept(pc, t) == [IdleHand EXCEPT !.pc = pc, !.snap.head = t.head]

RouteForgotten(h) ==
    LET t == hand[h].snap IN
    /\ hand[h].pc = "route" /\ t.sess = 0
    /\ Step(h, IF t = Unknown THEN Kept("new", t) ELSE Kept("gone", t))
    /\ UNCHANGED <<thread, disk, outside, counters, writer, link, asked, mishaps>>

\* The window is gone: whatever window the record names by now is forgotten.
RouteGone(h) ==
    /\ hand[h].pc = "route" /\ hand[h].snap.sess # 0 /\ ~Live(hand[h].snap.sess)
    /\ Update(Gone(thread))
    /\ Step(h, Kept("gone", hand[h].snap))
    /\ UNCHANGED <<outside, counters, writer, link, asked, mishaps>>

\* Nothing is to be done with the message, or it failed.
Leave(h) ==
    /\ hand[h].pc \in HandPCs \ {"idle", "stop"}
    /\ Done(h)
    /\ UNCHANGED <<thread, disk, outside, counters, writer, link, asked, mishaps>>

-----------------------------------------------------------------------------
(* launch: a review window of a known revision and its committee, or the   *)
(* window of a remembered review, whatever the forge says.                 *)

Crew(s) == {<<s, m>> : m \in Members}

Fresh(s, revision) ==
    WithRound([Unknown EXCEPT !.sess = s, !.head = revision], revision)

LaunchReview(h) ==
    LET s == opened + 1
        t == Fresh(s, head) IN
    /\ hand[h].pc \in {"new", "gone"} /\ s \in Sessions
    /\ Put(t)
    /\ \/ windows' = windows \cup {<<s, Driver>>} /\ Done(h)
       \/ /\ Members # {}
          /\ windows' = windows \cup {<<s, Driver>>} \cup Crew(s)
          /\ IF disk' = t
             THEN Step(h, [IdleHand EXCEPT !.pc = "attach", !.snap.sess = s])
             ELSE Done(h)
    /\ opened' = s /\ runs' = runs + 1
    /\ UNCHANGED <<head, writer, link, asked>>

\* escalate reopens a remembered review though its revision is not known.
Reopen(h) ==
    LET s == opened + 1 IN
    /\ hand[h].pc = "gone" /\ s \in Sessions
    /\ Update(Fresh(s, 0))
    /\ windows' = windows \cup {<<s, Driver>>} /\ Done(h)
    /\ opened' = s /\ runs' = runs + 1
    /\ Mishap
    /\ UNCHANGED <<head, writer, link, asked>>

\* attachMembers; a failure is only logged.
Attach(h) ==
    /\ hand[h].pc = "attach"
    /\ Update([thread EXCEPT !.crew = hand[h].snap.sess])
    /\ Done(h)
    /\ UNCHANGED <<outside, counters, writer, link, asked, mishaps>>

-----------------------------------------------------------------------------
(* continueInWindow, progress and stop *)

\* syncWorktree: a moved head opens a round on the handler's copy.
Sync(h) ==
    LET t == hand[h].snap
        moved == t.round # 0 /\ Moved(t, head) IN
    /\ hand[h].pc = "live"
    /\ \/ /\ Step(h, [hand[h] EXCEPT
                !.pc = "continue", !.moved = moved,
                !.snap = Round(IF moved THEN WithRound([t EXCEPT !.head = head], head)
                               ELSE [t EXCEPT !.head = head])])
          /\ UNCHANGED mishaps
       \/ Step(h, [hand[h] EXCEPT !.pc = "continue", !.snap = Round(t)]) /\ Mishap
    /\ UNCHANGED <<thread, disk, outside, counters, writer, link, asked>>

\* Mutant: the round the copy has is opened, whatever happened meanwhile.
ContinueAnyRound(h) ==
    LET t == hand[h].snap
        now == [thread EXCEPT !.head = t.head] IN
    /\ hand[h].pc = "continue"
    /\ IF hand[h].moved
       THEN Update(WithRound(now, t.runHead)) /\ runs' = runs + 1
       ELSE Update(now) /\ UNCHANGED runs
    /\ Done(h)
    /\ UNCHANGED <<outside, opened, writer, link, asked, mishaps>>

\* The prompt is out; the round is opened unless somebody has opened it.
Continue(h) ==
    LET t == hand[h].snap
        opens == hand[h].moved /\ thread.round < t.round
        now == [thread EXCEPT !.head = t.head] IN
    /\ hand[h].pc = "continue"
    /\ IF opens
       THEN Update(WithRound(now, t.runHead)) /\ runs' = runs + 1
       ELSE Update(now) /\ UNCHANGED runs
    /\ Done(h)
    /\ UNCHANGED <<outside, opened, writer, link, asked, mishaps>>

\* One of the owner's own markers, typed into the thread by hand.
ReadMarker(h) ==
    /\ hand[h].pc \in {"live", "gone"}
    /\ \E revision \in {head, hand[h].snap.head} :
          Step(h, [IdleHand EXCEPT !.pc = "progress", !.snap.head = revision])
    /\ UNCHANGED <<thread, disk, outside, counters, writer, link, asked, mishaps>>

\* A completion of another revision is recorded as a reading only.
Progress(h) ==
    /\ hand[h].pc = "progress"
    /\ \E reached \in {TRUE, thread.progress} :
          Update([thread EXCEPT !.head = hand[h].snap.head, !.progress = reached])
    /\ Done(h)
    /\ UNCHANGED <<outside, counters, writer, link, asked, mishaps>>

StopKill(h) ==
    /\ hand[h].pc = "live" /\ Mishap
    /\ windows' = windows \ {<<hand[h].snap.sess, Driver>>}
    /\ Step(h, [hand[h] EXCEPT !.pc = "stop"])
    /\ UNCHANGED <<thread, disk, head, counters, writer, link, asked>>

\* The copy read before the window was closed replaces the record.
StopSet(h) ==
    /\ hand[h].pc = "stop"
    /\ Put(Gone(hand[h].snap))
    /\ Done(h)
    /\ UNCHANGED <<outside, counters, writer, link, asked>>

-----------------------------------------------------------------------------
(* The writer: admitPost *)

\* Participant: the driver's session, or that of an attached member.
Participants ==
    (IF thread.sess # 0 THEN {Driver} ELSE {})
        \cup (IF thread.crew # 0 THEN Members ELSE {})

\* A record without a round has one opened on the writer's copy.
Copy == IF thread.round # 0 THEN thread ELSE WithRound(thread, thread.head)

InOrder(kind, agent, t) ==
    /\ kind = "taken" => agent = Driver /\ ~t.progress
    /\ kind = "start" => t.progress

\* A note or a marker is held against the record alone; its revision is not
\* looked at again.
Admit ==
    /\ writer.pc = "idle"
    /\ \E agent \in Participants, kind \in {"note", "taken", "start"}, sha \in Revisions :
          /\ Copy.runHead \in {0, sha}
          /\ InOrder(kind, agent, Copy)
          /\ writer' = [pc |-> "commit", agent |-> agent, kind |-> kind, sha |-> 0,
                        snap |-> Round(Copy), round |-> thread.round, id |-> thread.id,
                        stale |-> FALSE]
    /\ UNCHANGED <<thread, disk, outside, counters, hand, link, asked, mishaps>>

AdmitDone ==
    /\ writer.pc = "idle"
    /\ \E agent \in Participants, sha \in Revisions :
          writer' = [pc |-> "inspect", agent |-> agent, kind |-> "done", sha |-> sha,
                     snap |-> Copy, round |-> thread.round, id |-> thread.id,
                     stale |-> FALSE]
    /\ UNCHANGED <<thread, disk, outside, counters, hand, link, asked, mishaps>>

\* reconcileRound: the copy is brought to what the forge says.
Reconciled(t) ==
    IF Moved(t, head) THEN WithRound([t EXCEPT !.head = head], head)
    ELSE IF t.runHead = 0 /\ t.head # head
         THEN [t EXCEPT !.head = head, !.runHead = head]
    ELSE [t EXCEPT !.head = head]

\* Mutant: the revision of the result is not compared.
StaleOnlyMoved(t, sha) == Moved(t, head)

\* A result of another revision is stale: posted, and not counted.
Stale(t, sha) == Moved(t, head) \/ Reconciled(t).runHead \notin {0, sha}

\* Mutant: the joint verdict does not wait for the committee.
AcceptableEarly(t, agent) ==
    /\ t.started /\ t.joint = 0
    /\ agent # Driver => t.results[agent] = 0

Acceptable(t, agent) ==
    /\ t.started /\ t.joint = 0
    /\ IF agent = Driver THEN Missing(t) = {} ELSE t.results[agent] = 0

Inspect ==
    LET t == Reconciled(writer.snap)
        stale == Stale(writer.snap, writer.sha) IN
    /\ writer.pc = "inspect"
    /\ stale \/ Acceptable(t, writer.agent)
    /\ writer' = [writer EXCEPT !.pc = "commit", !.snap = Round(t), !.stale = stale]
    /\ UNCHANGED <<thread, disk, outside, counters, hand, link, asked, mishaps>>

\* Rejected, held for a replay, or not delivered.
Turned ==
    /\ writer.pc \in {"inspect", "commit"}
    /\ writer' = IdleWriter
    /\ UNCHANGED <<thread, disk, outside, counters, hand, link, asked, mishaps>>

-----------------------------------------------------------------------------
(* The writer: recordPost, once the message is out, and collectResults *)

\* applyPost: the round the copy has, then what the message says.
Base(t) ==
    IF t.round # writer.snap.round
    THEN WithRound([t EXCEPT !.head = writer.snap.head], writer.snap.runHead)
    ELSE [t EXCEPT !.head = writer.snap.head, !.runHead = writer.snap.runHead]

Marked(t) == IF writer.agent = Driver THEN [t EXCEPT !.progress = TRUE] ELSE t

Applied(t) ==
    CASE writer.kind = "note" -> t
      [] writer.kind = "taken" -> Marked(t)
      [] writer.kind = "start" -> [Marked(t) EXCEPT !.started = TRUE]
      [] writer.kind = "done" /\ writer.stale -> t
      [] writer.kind = "done" /\ ~writer.stale /\ writer.agent = Driver ->
            [Marked(t) EXCEPT !.joint = writer.sha]
      [] OTHER -> [t EXCEPT !.results[writer.agent] = writer.sha]

Counts == writer.kind = "done" /\ ~writer.stale

\* Mutant: the round is not looked at again after the delivery.
CommitAnyRound ==
    /\ writer.pc = "commit"
    /\ Update(Applied(Base(thread)))
    /\ runs' = IF thread.round # writer.snap.round THEN runs + 1 ELSE runs
    /\ writer' = IF Counts /\ writer.agent # Driver
                 THEN [IdleWriter EXCEPT !.pc = "collect"] ELSE IdleWriter
    /\ UNCHANGED <<outside, opened, hand, link, asked, mishaps>>

Commit ==
    /\ writer.pc = "commit"
    /\ IF thread.round # writer.round
       THEN UNCHANGED <<thread, disk, runs>>
       ELSE /\ Update(Applied(Base(thread)))
            /\ runs' = IF thread.round # writer.snap.round THEN runs + 1 ELSE runs
    /\ writer' = IF Counts /\ writer.agent # Driver
                 THEN [IdleWriter EXCEPT !.pc = "collect"] ELSE IdleWriter
    /\ UNCHANGED <<outside, opened, hand, link, asked, mishaps>>

\* The state file was not written: UpdateThread puts the record back.
CommitFails ==
    /\ writer.pc = "commit" /\ Mishap
    /\ writer' = IdleWriter
    /\ UNCHANGED <<thread, disk, outside, counters, hand, link, asked>>

\* The prompt reaches the driver only where its window still is.
Complete(t) ==
    t.round # 0 /\ t.joint = 0 /\ t.crew # 0 /\ Members # {} /\ Missing(t) = {}

\* Mutant: the round is not looked at, and the driver not asked.
CollectNever ==
    /\ writer.pc = "collect"
    /\ writer' = IdleWriter
    /\ UNCHANGED <<thread, disk, outside, counters, hand, link, asked, mishaps>>

Collect ==
    /\ writer.pc = "collect"
    /\ asked' = IF Complete(thread) /\ Live(thread.sess)
                THEN asked \cup {thread.id} ELSE asked
    /\ writer' = IdleWriter
    /\ UNCHANGED <<thread, disk, outside, counters, hand, link, mishaps>>

-----------------------------------------------------------------------------
(* linkq.Apply: a window of the owner's takes the thread, by force if the  *)
(* thread has one, or the thread's own window is linked again.             *)

LinkTake ==
    /\ link.pc = "idle" /\ Mishap
    /\ \/ /\ opened + 1 \in Sessions
          /\ opened' = opened + 1
          /\ windows' = windows \cup {<<opened + 1, Driver>>}
          /\ link' = [pc |-> "set", snap |-> thread, sess |-> opened + 1]
       \/ /\ Live(thread.sess)
          /\ link' = [pc |-> "set", snap |-> thread, sess |-> thread.sess]
          /\ UNCHANGED <<windows, opened>>
    /\ UNCHANGED <<thread, disk, head, runs, hand, writer, asked>>

Pinned(t) ==
    IF t.round = 0 THEN [t EXCEPT !.head = head]
    ELSE IF Moved(t, head) THEN WithRound([t EXCEPT !.head = head], head)
    ELSE [t EXCEPT !.head = head, !.runHead = head]

\* bind and pin: the copy replaces the record.
LinkSet ==
    LET t == [link.snap EXCEPT !.sess = link.sess] IN
    /\ link.pc = "set"
    /\ \/ /\ Put(Pinned(t))
          /\ runs' = IF t.round # 0 /\ Moved(t, head) THEN runs + 1 ELSE runs
       \/ Put(t) /\ UNCHANGED runs
    /\ link' = IdleLink
    /\ UNCHANGED <<outside, opened, hand, writer, asked>>

LinkRejected ==
    /\ link.pc = "set"
    /\ link' = IdleLink
    /\ UNCHANGED <<thread, disk, outside, counters, hand, writer, asked, mishaps>>

-----------------------------------------------------------------------------
(* The world, and the end of the daemon *)

MoveHead ==
    /\ head < MaxHead
    /\ head' = head + 1
    /\ UNCHANGED <<thread, disk, windows, counters, actors, asked, mishaps>>

CloseWindow ==
    /\ \E w \in windows : windows' = windows \ {w}
    /\ UNCHANGED <<thread, disk, head, counters, actors, asked, mishaps>>

\* Whatever else is saved, the whole state is: Seen, the rate limits, a thread.
SaveState ==
    /\ disk # thread
    /\ disk' = thread
    /\ UNCHANGED <<thread, outside, counters, actors, asked, mishaps>>

\* The next daemon reads the state file.
Crash ==
    /\ Mishap
    /\ thread' = disk
    /\ hand' = [h \in Handlers |-> IdleHand]
    /\ writer' = IdleWriter /\ link' = IdleLink
    /\ UNCHANGED <<disk, outside, counters, asked>>

HandlerStep(h) ==
    \/ Take(h) \/ RouteLive(h) \/ RouteForgotten(h) \/ RouteGone(h) \/ Leave(h)
    \/ LaunchReview(h) \/ Reopen(h) \/ Attach(h)
    \/ Sync(h) \/ Continue(h) \/ ReadMarker(h) \/ Progress(h)
    \/ StopKill(h) \/ StopSet(h)

WriterStep == Inspect \/ Turned \/ Commit \/ CommitFails \/ Collect

Next ==
    \/ \E h \in Handlers : HandlerStep(h)
    \/ Admit \/ AdmitDone \/ WriterStep
    \/ LinkTake \/ LinkSet \/ LinkRejected
    \/ MoveHead \/ CloseWindow \/ SaveState \/ Crash

Spec == Init /\ [][Next]_vars

(***************************************************************************)
(* Fairness: the writer, once it has a record in hand, goes on with it.    *)
(***************************************************************************)
Fairness == WF_vars(WriterStep)

FairSpec == Spec /\ Fairness

-----------------------------------------------------------------------------
(* Properties *)

Marks(t) == <<t.started, t.results, t.joint>>

\* Every variable keeps its type, and nothing is recorded in a round that was
\* never opened. (Not among the properties of the run.)
TypeOK ==
    /\ \A t \in {thread, disk} : t.round = 0 => Marks(t) = Marks(Unknown)
    /\ thread \in Thread /\ disk \in Thread
    /\ head \in Revisions /\ windows \subseteq Sessions \X Agents
    /\ opened \in 0..MaxSessions /\ runs \in Nat
    /\ hand \in [Handlers -> Hand] /\ writer \in Writer /\ link \in Link
    /\ asked \subseteq Nat
    /\ mishaps \in Nat

\* A round is of one revision: every result that counts in it, and the joint
\* verdict, is of the head the round was opened for.
Counted(t) == ({t.results[m] : m \in Members} \cup {t.joint}) \ {0}

ResultsAgree == thread.runHead # 0 => Counted(thread) \subseteq {thread.runHead}

\* What the writer counts is of the revision the round is of from then on, or
\* the revision is unknown: also when the head moved, the thread was linked or
\* the review was opened again while the message was on its way.
WriterRecords == writer.pc = "commit" /\ writer' # writer /\ mishaps' = mishaps

CountedIsOfTheHead ==
    [][(WriterRecords /\ thread'.id = thread.id /\ thread'.runHead # 0)
       => Counted(thread') \ Counted(thread) \subseteq {thread'.runHead}]_vars

\* The joint verdict is recorded when every member that was attached when it
\* was admitted has a result in the round, or has no window any more
\* (2026-09-13-outbound-writer-and-review-runs-design.md:116-124).
JointIsComplete ==
    [][(thread'.joint # 0 /\ thread.joint = 0)
       => Missing([thread EXCEPT !.crew = writer.snap.crew]) = {}]_vars

\* "the transition belonged to the round that was replaced, it must not land
\* on the new one" (outbox_test.go:582): a message changes a round, or puts
\* another in its place, only while that round is the one it was admitted in,
\* and nothing but a message changes a round.
Changed == <<thread'.id, Marks(thread')>> # <<thread.id, Marks(thread)>>

TransitionLandsInItsRound ==
    [][/\ (WriterRecords /\ Changed) => thread.id = writer.id
       /\ (Changed /\ thread'.id = thread.id) => WriterRecords]_vars

\* A round is voided only for a revision it is not of. The handler of a message
\* and the writer may both have seen the head move: one of them opens the round.
RoundOpensForNewHead ==
    [][(thread'.sess = thread.sess /\ thread'.id # thread.id /\ thread.round # 0)
       => thread'.runHead # thread.runHead]_vars

\* Once the last member has its result in the round, the driver is asked for the
\* joint verdict, if its window stays and the round is not over before. (With
\* one window a round is opened for every revision at most.)
FullRoundAsked ==
    \A i \in 1..MaxHead :
        (thread.id = i /\ thread.crew # 0 /\ \A m \in Members : thread.results[m] # 0)
        ~> (i \in asked \/ thread.id # i \/ thread.joint # 0 \/ ~Live(thread.sess))

(***************************************************************************)
(* What the theorems about rounds assume where the code promises less, and *)
(* the inductive invariants: CopiesAreSound holds of every behaviour,      *)
(* RoundsAreSound while no record is replaced, RoundsAdvance while besides *)
(* the review is launched once.                                            *)
(***************************************************************************)

\* No stop or link puts its copy in the place of the record, and no review of an
\* unknown revision is opened.
KeepsRecord == ~LinkSet /\ \A h \in Handlers : ~StopSet(h) /\ ~Reopen(h)
RecordIsKept == [][KeepsRecord]_vars

\* The thread has one review: none is launched where one has been.
LaunchesOnce == \A h \in Handlers : LaunchReview(h) => thread.round = 0
LaunchedOnce == [][LaunchesOnce]_vars

Clean(t) == t.round = 0 => Marks(t) = Marks(Unknown)

\* Copies are no more marked than records are, and the writer counts only what is
\* of the revision of its copy.
CopiesAreSound ==
    /\ \A h \in Handlers :
          /\ hand[h].pc \in {"route", "live", "stop"} => Clean(hand[h].snap)
          /\ hand[h].moved => hand[h].pc = "continue"
    /\ link.pc = "set" => Clean(link.snap)
    /\ writer.pc \in {"inspect", "commit"} => writer.snap.round # 0
    /\ writer.pc = "commit" /\ Counts => writer.snap.runHead \in {0, writer.sha}

\* A record with a round knows its revision, and what counts in it is of that.
Sound(t) ==
    /\ t.id <= runs
    /\ t.round = 0 => t.sess = 0 /\ t.crew = 0 /\ t.runHead = 0
    /\ t.round # 0 => t.runHead # 0
    /\ Counted(t) \subseteq {t.runHead}

\* The writer's copy is of the round of the record, or the round is another and
\* has no result yet.
WriterIsSound ==
    writer.pc \in {"inspect", "commit"} =>
        /\ writer.id <= runs /\ writer.round # 0 /\ writer.snap.runHead # 0
        /\ thread.id # writer.id => Counted(thread) = {}
        /\ thread.id = writer.id /\ writer.snap.round = writer.round
              => writer.snap.runHead = thread.runHead
        /\ writer.pc = "inspect" => writer.snap.round = writer.round

RoundsAreSound ==
    /\ Sound(thread) /\ Sound(disk)
    /\ disk.id = thread.id => Marks(disk) = Marks(thread)
    /\ \A h \in Handlers :
          /\ hand[h].pc = "attach" => thread.round # 0
          /\ hand[h].pc = "continue" /\ hand[h].moved => hand[h].snap.runHead # 0
    /\ WriterIsSound

\* The round of a copy is not after the one of the record, and a copy of the same
\* round is of the same revision; one that opens a round opens the next.
HandsFollow ==
    \A h \in Handlers :
        /\ hand[h].pc \in {"route", "live"} =>
              /\ hand[h].snap.round <= thread.round
              /\ hand[h].snap.round = thread.round => hand[h].snap.runHead = thread.runHead
        /\ hand[h].pc = "continue" /\ hand[h].moved =>
              /\ hand[h].snap.round <= thread.round + 1
              /\ hand[h].snap.round = thread.round + 1 => hand[h].snap.runHead # thread.runHead

\* The same of the writer; and what it had found complete stays so.
WriterFollows ==
    writer.pc \in {"inspect", "commit"} =>
        /\ writer.round <= thread.round
        /\ writer.snap.round \in {writer.round, writer.round + 1}
        /\ thread.round = writer.round =>
              /\ thread.id = writer.id
              /\ writer.pc = "inspect" => Marks(writer.snap) = Marks(thread)
              /\ writer.snap.round # writer.round => writer.snap.runHead # thread.runHead
              /\ writer.pc = "commit" /\ Counts /\ writer.agent = Driver =>
                    Missing([thread EXCEPT !.crew = writer.snap.crew]) = {}

RoundsAdvance ==
    /\ disk = thread \/ (disk.round = 0 /\ thread.sess # 0)
    /\ HandsFollow /\ WriterFollows
=============================================================================
