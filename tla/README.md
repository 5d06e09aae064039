# handoffd in TLA+

handoffd is a daemon that reads a machine's Slack notifications, decides which of
them hand work over, opens an agent's terminal window for those, passes later
replies on to that window, and posts the agents' answers back. This directory
holds TLA+ models of the parts of it in which state, files and goroutines
interact, TLC runs that check them on small instances, and TLAPS proofs.

    tlc -workers 2 -config MCIntake.cfg MCIntake      # a run: module and cfg are in PROJECT.json
    tlapm IntakeProofs.tla                            # a proof module

Paths below are relative to `src/`; `pipeline/` stands for `src/internal/pipeline/`.

## 1. Inventory

One process, `handoffd watch` (cmd/handoffd/main.go:127-277), and short-lived
commands (`post`, `link`, `hook`, `replay`, `prune`, `status`, `label`) that talk
to it through directories of JSON files and one signal. The watcher starts in
this order: flock, `state.Open`, housekeeping, `ResumeWaiting`, the goroutines
`Work`, `RunOutbox`, `RunLinks`, then `Recover`, the thread poll, the watchdog,
the tailer.

| Component | State it keeps | Operations | Talks to |
|---|---|---|---|
| Notification intake (pipeline.go, triage.go, deadletter) | inbox file, dead letter file, bounded list of settled ids; in memory the channel, `replaying`, `inflight`, `deferred` | `Enqueue`, `Recover`, `Work`/`Handle`, `settle`, `bury`, `Replay`, `runTriage`, `finishTriage`, `replayDeferred` | state file, triage windows, Slack |
| Waiting prompts (deliver.go, waitq) | one file per prompt, `undelivered/` | `deliver`, `drain`, `awaitUnblocked`, `keepUndelivered`, `ResumeWaiting` | session records, terminal |
| Outbound writer (outbox.go, outbox) | one file per record, one per receipt; `recentPosts` | `post` command: `Write`, `Wait`; writer: `DrainOutbox`, `admitPost`, `deliverPost`, `readbackPost`, `recordPost`, `writeReceipt`; `Retry`, `Sweep` | Slack, forge, state file |
| Review round (outbox.go, launch.go, committee.go, progress.go, links.go, linkq/apply.go, state.go) | the record of the thread: window, head, round, results, joint verdict, committee | `launch`, `escalate`, `attachMembers`, `continueInWindow`, `progress`, stop, `admitPost`, `reconcileRound`, `applyPost`, `collectResults`, `linkq.Apply` | forge, git, terminal |
| State file (state.go, claim.go) | threads, settled ids, rate limit times, cursors | `SetThread`, `UpdateThread`, `CommitSeen`, `RecordLaunch`, `RecordTriage`, `RecordSilent`, `Sweep`, `Save` | disk |
| Thread poll (threadpoll.go) | `LastSeenTS` of each thread | `Poll` | Slack, intake |
| Rate limits and triage (triage.go, triage/triage.go) | launch and triage times, verdict file | `AllowTriage`, `RecordTriage`, `Wait` | terminal |
| Link queue (linkq.go, linkcmd.go) | requests and receipts | `Write`, `Pending`, `Apply`, `Quarantine`, `Sweep`, `Wait` | state file |
| Session hook (session.go) | one record per agent session | `Apply` (read, advance, write) | waiting prompts, watchdog |
| Watchdog, alerts | cooldown per key | `Check`, `Alert` | state, sessions |
| Worktrees (worktree.go, workspace.go, launch.go, committee.go, maintenance.go) | one git worktree per path; paths in the records of threads and members | `busyWorktrees`, `choosePath`, `Prepare`, `Refresh`, `launch`, `openCommitteeMembers`, `attachMembers`, `syncWorktree`, `Sweep`, `Prune` | git, terminal, state file, session records |
| Tailer, notification scanner (tailer.go, notifylog.go) | offset in the log, the partial line, the block begun | `Run`, `rotated`, `Feed` | intake |
| Classification, references, names | none | `Classify`, `Parse`, `Window` | - |
| Journal, outcomes, labels, status | append-only files | `Append`, `Outcomes` | - |
| Terminals, Slack, forge, prompts, config, setup | none worth modelling | command lines, HTTP, templates | - |

What makes it hard is that nearly every operation reads state, leaves the lock,
talks to something slow (a terminal, git, the forge, Slack, a human in a
dialog), and then writes. The actors are the worker, one goroutine per triage,
one drain per window, the writer, the link drainer, the poll, the goroutine of
SIGUSR1, and the commands. Every file operation can fail on its own, and the
daemon can die between any two of them; `PROJECT.json` lists the hazards, each at
its line, with the properties that cover it or why none does.

What each component owes:

* Intake: an admitted notification is never lost and eventually settled
  (README.md:24-25); a dead letter leaves only with an answer and can be replayed.
* Waiting prompts: an accepted prompt is submitted, in order, or kept for a human.
* Outbound writer: "posted" means posted; an ambiguous post is not repeated
  (README.md:62-63); every record is answered.
* Review round: results and the joint verdict are of one revision; the joint verdict
  waits for the committee; a message changes only the round it was admitted in.
* State file and link: one process has the state open; a live window and its session
  belong to one thread; a request is answered, and not applied after its answer.
* Thread poll: the cursor passes only what was admitted; every reply is admitted.
* Triage: the limit and the cooldown hold; a triage goes by its agent's verdict.
* Session hook: the record is what the events add up to; a session's end is reported.
* Watchdog: what stands still is told, and not told twice within the cooldown.
* Worktrees: agents have a tree each, at the head they review; local changes and the
  trees of recorded threads stay; no tree is moved under an agent at work.
* Tailer: a notification written to the log is admitted, however lines and files come.

## 2. Modules

| Module | Models | Spec over |
|---|---|---|
| `Admission` | the promise of the intake: unknown, admitted, parked, answered | an abstract status per id |
| `Intake` | pipeline.go and triage.go around one notification, deadletter, Seen | `Admission` is its abstraction (`ImplementsAdmission`) |
| `IntakeProofs` | proofs about `Intake` | |
| `WaitQueue` | deliver.go and waitq for one window, with SendPrompt and the hook's reports | |
| `WaitQueueProofs` | proofs about `WaitQueue` | |
| `Mailbox` | the promise of the writer: absent, waiting, sent, answered, gone | an abstract status and a count of copies per record |
| `Outbox` | outbox.go (delivery, readback, receipts) and the outbox directory, with the post command | `Mailbox` is its abstraction (`ImplementsMailbox`) |
| `OutboxProofs` | proofs about `Outbox` | |
| `ReviewRound` | the record of one review thread and everybody who rewrites it | the round half of `Outbox`'s admission and commit |
| `ReviewRoundProofs` | proofs about `ReviewRound` | |
| `Links` | `handoffd link`, linkq, links.go, claim.go: windows and sessions of several threads | the link of `ReviewRound`, without the round |
| `LinksProofs` | proofs about `Links` | |
| `ThreadPoll` | threadpoll.go and the other writers of LastSeenTS, for one thread | a feed of `Intake` |
| `Triage` | the gate, the window and the verdict of a triage; the times of state.go | the `StartTriage`, `SpawnTriage` and the goroutine of `Intake` in detail |
| `TriageProofs` | proofs about `Triage` | |
| `Sessions` | session.go with concurrent hooks, closeSession | the reports in `WaitQueue` |
| `SessionsProofs` | proofs about `Sessions` | |
| `Watchdog` | watchdog.go and alert.go | reads what `Sessions` and `ReviewRound` write |
| `Worktrees` | the worktrees of one merge request, who takes, moves and removes them | the launch of `ReviewRound` with its trees, without its rounds |
| `WorktreesProofs` | proofs about `Worktrees` | |
| `Tailer` | tailer.go and notifylog.go | the other feed of `Intake`, beside `ThreadPoll` |
| `MC*` | the values of the constants for TLC | |

**Granularity.** One action is what happens between two points at which another
goroutine, another process or a crash can be seen: a lock section, a write of a
file, a command to the outside. `Intake` splits settle into `Commit`, `Forget`,
`Release`, `Unbury` because each is a write of its own, in the order the code
has. Each file operation that the code lets fail has a twin action `...Fails`
that takes the code's error path; `MaxFaults` bounds how many do.

### Intake
`inbox`, `dead`, `seen` are files (seen: what CommitSeen saved); `queue` the channel
between Enqueue and Work; `replaying`, `inflight`, `deferred` the maps of the
Pipeline; `hand` the program counter of the worker and of each triage goroutine,
with the notification it holds and, after a triage, the list it took over from
`deferred`; `sending` what a producer is blocked on the channel with; `phase`,
`recover` the progress of main through Recover. Source is the one thing an inbox
record carries beside its id (`"notification"` or `"replay"`), since settle and
releaseReplay decide by it. What a message says is reduced to what it leads to:
`Answer` (any outcome that needs no dead letter), `Drop`, `AttemptFails`, `Defer`,
`StartTriage`. `Crash` clears the memory; there is no graceful stop apart from
it, since cancelling the context leaves the same files as a crash between two of
the steps. `admitted` and `answered` are histories.

### WaitQueue
`waiting`, `at`, `aside` are the files; `mu` is Pipeline.mu where deliver keeps
it over a file operation (drain takes it never); `line` is what was typed into
the window and not submitted, since SendPrompt is two commands of the terminal and
another goroutine's Enter can come between; `session` what the hook last reported,
`window` whether it is there. The drain slots also serve as the goroutine that
handles a stop phrase, since that kills the window and calls keepUndelivered.

### Outbox
`outbox` and `receipt` are files, `committed` the records whose transition is in
the state file, `delivered` the world's count of copies, `recent` the map
recentPosts, `job` the program counter of handlePost, `batch` what Pending
returned. An unclear post may have been delivered or not. `told` is what the post
command printed. A record has a key, by which seenPost knows one delivered lately
(outbox.go:256), and a text, by which readback looks for it in the thread (outbox.go:398);
two records of different keys may have one text. Which rule rejects a record is left open
(Reject is always possible): those rules are `ReviewRound`'s.

`Mailbox` sees of this a status per record. `waiting` is a record in the directory, in
the batch or in the job before its post; `sent` one whose post was accepted, whose
post ended without an answer, or about which something else was decided, until the
receipt is there. From `sent` no post is allowed; only Forget leads back, which is a
crash or a receipt that could not be written. `posted` needs a copy in the thread, and
only `pending` is ever taken back.

### ReviewRound
`thread` is the record in memory, `disk` the one in the state file. A handler's
`hand`, the `writer` and the `link` drainer hold the copy each took (`snap`)
from the step that reads it to the step that writes. `Update` is UpdateThread (a
change to the record as it is, rolled back if the save fails), `Put` is SetThread and
Save (the copy replaces the record, in memory even when the save fails). A session
stands for the window and the agent in it; `crew` is the launch whose committee is
attached; `id` is a history variable that tells rounds of equal number apart, which
the code cannot. Messages to the writer are `note`, `taken`, `start`, `done`.

### Links
`disk` is the state file, `mem[o]` the store of a process that has it open: the daemon
or a `handoffd link` that got the claim. Open reads it once, Save writes all of
it, so that a file written under an open store (`stale`) is the beginning of a lost
update; the flock is what prevents it. `cmd` is what a run of the command is at,
`job` Apply in whichever process runs it, from Find (the window) over Holder (the
thread's agent), Bind (the session), Release (other threads of the window) to SaveLink.
`hand` is a handler that routes a message, launches or stops in between. Two
requests for one window and two threads; the second has `--force`.

### ThreadPoll
Messages are their timestamps, 1 to `MaxTS`. `cursor` is LastSeenTS. The poll
takes it as it starts (`snap`, since), admits the replies one by one, oldest first,
and saves the last of them as the cursor if it is not the one it started from
(threadpoll.go:102-106); it looks at nothing newer, and writes over what others set
meanwhile. MoveTo is the other writers, who
set it to a message of their own; what they pass over unadmitted is kept in the
history variable `jumped`.

### Triage
`pc` is where the handling of each message is: at the gate (inflight, cooldown,
limit), opening the window, recording the triage, marking the thread, waiting for
the verdict, reading the window, deciding. The worker holds one message up to
Mark, then a goroutine has it; a deferred one is taken up by the goroutine that cleared
inflight. Two sets of messages matter: `Pointed` are those the cooldown is not for, as they mention the
owner, tag him or point at him in their text (triage.go:113); `Tagged` are those of them that
tag him, and only these are escalated for want of a verdict (triage.go:155).
`triages` and `silent` are the lists of times that state.go keeps, in ticks; `Recent`
is what prune leaves of one and `Count` its length. `raced` records that two handlers were between check and
record at once, from where on the limit can be passed.

### Sessions
Each hook is a process with two steps, Read and Write; a killed one does the first
only. `log` is the history of events in the order they were recorded, and the
reference the record is compared with. Durations are in ticks of `now`.

### Worktrees
A path is a number, `MaxSuffix` of them are tried and one more is taken unseen. `tree` is
what is at each; `win` the windows with the tree each was opened in, which agents and
people work in, edit, rest and close; `thread` the records with their members. A `hand`
is one handling: `list` and `choose` (busyWorktrees and choosePath), `look` (exists,
fetch, rev-parse, status), `move` (checkout or add), and the same again for the
member of a committee, then `member`, `open`, `record`, `attach`. `who` says whose tree it
prepares, `exact` whether a stale one is refused. Two hands work at once: the worker and a
goroutine that waited for a triage. `prune` is housekeeping with the trees it has yet to
look at. History: `sure` (launched alone and with a list), `touched` (somebody else
changed the tree since), `fresh` (went to work since the look), `late` (recorded while Prune
runs). A look is one step, from the fetch over rev-parse to status (worktree.go:151-173,
252-304), and the checkout another: what happens between the commands of a look is taken to
happen before or after it, and no property depends on which. git is external: it refuses to
add where there is a tree and to remove or move one with local changes that are in the way.

### Tailer
A file is its lines and whether the last one is torn. Offsets are in half lines, so
that the tailer can stop inside one; `held` is the partial line, `scan` the Scanner.
The code reads to the end, then looks whether the path is still its file: two steps, with
Slack between them. `astray` says that the file was cut under the offset: what is read
next may lack its beginning.

### Watchdog
A condition has a source, an occurrence (the dialog's beginning, the round's number)
and an age. Each source has its own: the log (LogGrows, Remove), a session (Ask, GoOn), a
round (Collect, ReportAgain, Judge). Ages stop at the largest span they are compared with, so that time is
unbounded and the state space finite. `last` is the Notifier's map, `calls` the
command each caller runs, `tried` the history of when a key's command last ran.

## 3. Runs

| Run | Instance | Shows |
|---|---|---|
| `intake` | two messages of one thread, two triage goroutines, channel of 1, Seen of 1, one failed write, one crash | NothingLost, DeferredHasWaker, and under fairness EventuallySettled |
| `intake_replay` | one message, two signals, one failed write, one crash | DeadLetterLeavesAnswered, ImplementsAdmission |
| `waitq` | two prompts, two deliverers, two drain slots, one fault, one crash | AcceptedIsKept, QueueOrder, DrainEmptiesQueue, WaitingSurvivesRestart |
| `outbox` | a reply and a note, two attempts, one unclear post, one replay, one fault, one stop or crash | PostedIsDelivered, ResendIsExplained, ImplementsMailbox, EveryRecordAnswered |
| `round` | two members and a driver, one handler and the writer, a head that moves once | ResultsAgree, JointIsComplete, TransitionLandsInItsRound, RoundOpensForNewHead, FullRoundAsked |
| `round_life` | no committee, two launches, a head that moves, and one of: a stop, a link, an outage of the forge, a failed save, a crash | CountedIsOfTheHead |
| `links` | two threads, one window of the owner's and one the daemon may open, two requests, one mishap | StoresAreCurrent, OneThreadPerWindow, SessionFollowsWindow, AppliedUntilAnswered, EveryRequestAnswered |
| `feeds` | the thread: three messages, one fault or crash; or the log: two messages, six lines, two upsets | PollPassesAdmitted, EveryReplyAdmitted, LoggedIsAdmitted |
| `triage` | two messages of one thread, one of which mentions the owner, and one of another that tags him, limit 2, cooldown after 1, a span and a clock of one tick, one fault | LimitHolds, CooldownHolds, VerdictIsTheAgents |
| `sessions` | two hooks, three events, three ticks, one close, one kill | CountsAreReal, TimelineAddsUp, ClosedIsReported |
| `watchdog` | the log, one session, one round, three occurrences, one fault | OncePerCooldown, ConditionTold |
| `worktrees` | one thread with a committee of two, another one, two hands, three paths, two messages, three windows, a head that moves once, one failure or round of housekeeping | AgentsApart, ReviewIsExact, LocalChangesStay, RecordedTreeStays, NotMovedUnderWork |

Every module states a TypeOK. It holds in the runs but is not among their properties;
it is proved in the eight modules that have a proof module.

The bounds count events, not states (`MaxMishaps` of `ReviewRound` counts stops,
links, outages, failed saves and crashes together): how often a message is reported, how many
signals, faults, crashes, stops, links, launches there are, how far the head moves.
One fault and one crash suffice for every single error path and every restart to
meet every interleaving; two messages of one thread are what deferral needs, two
prompts what an order needs, two deliverers and two drains what a race needs, two
members what "the last of them" needs. Channel and Seen have capacity 1 so that they
are full at the first message. `Attempts = 2` has one attempt that is followed by
another and one that is not. In `outbox` each record has a text of its own:
readback finds a message by its text and takes an earlier equal one for this one,
so PostedIsDelivered is claimed for distinct texts only.

In `triage` a limit of two under three messages is reached, a cooldown after one
silent verdict is reached by the first of two messages of a thread, and one tick of a
span of one lets both run out once. In `sessions` the hooks are interchangeable (they have no
identity in the code), hence the symmetry; its properties are invariants. Three
events are what a dialog with a beginning, a repeated notice and an end needs. In
`watchdog` the three occurrences let a source come back after it was told;
`After` and `Cooldown` are one age each, which is enough to be below, at and (after
another tick, which changes nothing) above.

In `worktrees` two paths are tried so that a driver and a member take both and the next
launch gets the one that is taken unseen; three windows are a committee's two and one
more; two messages are two launches, or a launch and the continuation whose tree moves.
In `feeds` the two feeds share only the inbox, to which both only add, so the initial
state selects one of them and the other rests. Six lines hold a block that was broken off
after its header or fields and a whole one right behind it, whose header ends the first
(notifylog_test.go:83, TestRecoversWhenNextBlockStartsImmediately), with another entry
in the middle; or, in a new log, a whole block behind an entry whose second half
went to the old one. Two upsets are what each of these takes.

Deadlock is not checked where the system may come to rest: with every bounded
event used up and nothing in hand, intake, queue and outbox have nothing to do.
In `ReviewRound` a message may always come, so it is checked there.

The two passing runs of `ReviewRound` divide the events because some properties
hold in a part of them only. Without relaunch and link, the numbers of rounds are
unique and nobody replaces the record by a copy, and all of the round properties
hold. With a relaunch round numbers repeat (section 4), and with a stop or a link a
copy read earlier replaces the record and takes results away with it
(pipeline.go:573, linkq/apply.go:88). What is left under those is
CountedIsOfTheHead: no result is counted in a round of another revision.

**Fairness.** Goroutines that can take a step do (weak fairness of each producer,
handler, deliverer and drain, and of the writer, which a ticker wakes every
second). A crashed daemon is started again: `KeepAlive` on an unsuccessful exit
in deploy/local.handoffd.plist:24, `Restart=on-failure` in
deploy/handoffd.service:8; one that was stopped by SIGTERM is not, and
EveryRecordAnswered excuses a daemon that stays stopped. Nothing makes a message, a dialog's
end, a signal, a fault or a crash happen; the deadline of awaitUnblocked ends a
dialog's wait, and AwaitFails models it. For EveryReplyAdmitted the poll's ticker goes
on, which the code does for a thread younger than the poll's window and among the
newest `thread_poll_limit` ones. For LoggedIsAdmitted Run goes round its loop. For
EveryRequestAnswered the daemon is started again and the commands go on. For ConditionTold
the watchdog's ticker goes on and the alert command ends, which has a timeout
(cmd/handoffd/main.go:172). EventuallySettled, DrainEmptiesQueue and
WaitingSurvivesRestart excuse a failed write, after which the code waits for the
next restart or gives up.

## 4. Findings

The models contain behaviours of the code that a reader should know of. Each is what
a property had to leave out, and is reachable in the module that is named or whose
property excuses it.

* **A stranded prompt** (deliver.go:105 against 134-141, `WaitQueue`), though README.md:23
  says the daemon "Delivers later replies to the same live session" and
  pipeline_test.go:1028 that "a prompt left undelivered must reach a human". deliver holds
  Pipeline.mu while it looks and appends, drain takes no lock. The trace: p1 waits and its
  drain k1 has submitted it; deliver(p2) looks, sees p1 and decides that no drain is
  needed; k1 removes p1, looks again, finds nothing and ends; deliver(p2) appends. p2 is
  on disk, reported as queued, and no drain is left until the daemon starts again.
* A replay's claim leaks (pipeline.go:323-326, triage.go:102-104): when a replayed
  notification is dropped again and the dead letter cannot be written, its id
  stays in `p.replaying`, and later replays skip it until a restart.
* A prompt is submitted twice (deliver.go:147): one queued between a drain's Remove and
  its next Peek starts a second drain for the window; both submit it.
* A message is posted twice after a crash (outbox.go:420): the receipt is written
  after the post, nothing before it, and the next daemon's first attempt does not look
  in the thread. ResendIsExplained counts it, `Mailbox` calls it Forget.
* A transition lands in a later launch (outbox.go:450): recordPost compares the
  round's number only, and a launch starts again with round 1.
  TransitionLandsInItsRound is therefore checked without a second launch.
* Results are lost under stop and link, as above; results of two revisions count in a
  round reopened without one until its head is set (outbox.go:249); a committee
  completed by the closing of its last window is noticed by nobody (outbox.go:549).
* Two triages of one thread, or one more than the limit, when two handlers are between
  the gate and Mark at once (triage.go:36-96). A Save that fails after RecordTriage
  leaves a window nobody closes (triage.go:88-91). A verdict completed
  between the last look at the file and the deadline is not read, and its file is left for
  a replay of the message; a file read half written ends the wait
  (triage/triage.go:70-90).
* A link without `--force` replaces a launch saved between the look for a holder and
  SetThread (linkq/apply.go:56-99).
* A window may be named by two threads when `handoffd link` is run in it while the launch
  that opened it has yet to record it (launch.go:174-205): Apply finds no thread to release,
  and the launch then records the window for its own. Two theorems assume that this does not
  happen (`LinksAfterLaunch`, section 5).
* Replies that were not polled yet are skipped when the daemon's own post or a handled
  message sets the cursor past them (outbox.go:543, deliver.go:18-63).
* A repeated notice of one dialog restarts its clock: the time before it is in no
  count (session.go:120-124). Hooks that overlap lose updates (session.go:197).
* The watchdog looks at the session of a thread and not at those of its committee
  (watchdog.go:181-191).
* Two agents in one tree (workspace.go:77-101, worktree.go:136-149): launches that overlap
  choose from the same records; a list of windows that cannot be read leaves every tree
  free; and when all `MaxSuffix` paths are busy the last is taken unseen, by the driver and
  the member of one committee as well. AgentsApart excuses these (`sure`, `Fallback`).
* Windows in no record (launch.go:185-206): a launch replaces the record with one without
  members, and a save that fails, of the record or of the members (committee.go:105-114),
  leaves its windows open; Sweep drops the record of a thread
  whose window lives (state.go:322). Their trees are then neither busy nor kept.
* Prune keeps the trees of threads and not those of committee members
  (maintenance.go:36-48): an old and clean one is removed under the member.
* A review opens its windows without another look at the trees it prepared
  (launch.go:83-113): ReviewIsExact excuses those that somebody changed since.
* What is written to the old log after the tailer read it to its end and before it looks at
  the path is lost, and so is what is written while the daemon is down (tailer.go:57-70); a
  log that is cut and grows past the offset is read on from there (tailer.go:112). The poll
  finds such messages in threads it knows, nobody finds the others.
* Threads beyond `thread_poll_limit` are not polled while newer ones are
  (threadpoll.go:128-131).

## 5. Proofs

The theorems hold for all values of the constants that meet the named assumption of the
module (`IntakeAssumption`, `LinksAssumption` and so on): any sets of ids, threads, windows,
goroutines, records, any bounds. What is assumed is what the declarations say: maps have
their domains and ranges, bounds are numbers, placeholders are none of the values they stand
beside, and a set whose members are counted is finite.

| Theorem | Statement |
|---|---|
| IntakeProofs!TypeCorrect | Spec => []TypeOK, with Len(seen) <= SeenCapacity |
| IntakeProofs!NothingIsLost | Spec => []NothingLost |
| IntakeProofs!DeadLettersStay | Spec => DeadLetterLeavesAnswered |
| IntakeProofs!DeferredIsWoken | Spec => []DeferredHasWaker |
| IntakeProofs!IntakeImplementsAdmission | Spec => ImplementsAdmission |
| WaitQueueProofs!TypeCorrect | Spec => []TypeOK |
| WaitQueueProofs!AcceptedNeverVanishes | Spec => []AcceptedIsKept |
| WaitQueueProofs!QueueKeepsOrder | Spec => QueueOrder |
| OutboxProofs!TypeCorrect | Spec => []TypeOK |
| OutboxProofs!PostedIsInThread | TextsDiffer: Spec => []PostedIsDelivered |
| OutboxProofs!SecondCopyIsExcused | Spec => []ResendIsExplained |
| OutboxProofs!MailboxImplemented | TextsDiffer: Spec => ImplementsMailbox |
| ReviewRoundProofs!TypeCorrect | Spec => [](TypeOK /\ CopiesAreSound) |
| ReviewRoundProofs!ResultsAreOfTheHead | Spec => CountedIsOfTheHead |
| ReviewRoundProofs!ResultsAreOfOneHead | Spec /\ RecordIsKept => []ResultsAgree |
| ReviewRoundProofs!RoundsOfOneReview | Spec /\ RecordIsKept /\ LaunchedOnce => []IInv |
| ReviewRoundProofs!JointVerdictIsComplete | the same premises => JointIsComplete |
| ReviewRoundProofs!TransitionsLandInTheirRound | the same premises => TransitionLandsInItsRound |
| ReviewRoundProofs!RoundsOpenForNewHeads | the same premises => RoundOpensForNewHead |
| LinksProofs!TypeCorrect | Spec => []TypeOK |
| LinksProofs!StoresStayCurrent | Spec => []StoresAreCurrent |
| LinksProofs!AppliedOnceAnswered | Spec => AppliedUntilAnswered |
| LinksProofs!OneThread | Spec /\ []LinksAfterLaunch => []OneThreadPerWindow |
| LinksProofs!SessionFollows | Spec /\ []LinksAfterLaunch => []SessionFollowsWindow |
| WorktreesProofs!TypeCorrect | Spec => []TypeOK |
| WorktreesProofs!TreeOfThreadStays | Spec => RecordedTreeStays |
| WorktreesProofs!ChangesAreTheAgents | Spec => LocalChangesStay |
| WorktreesProofs!ReviewsAreExact | Spec => []ReviewIsExact |
| WorktreesProofs!AgentsHaveTheirTrees | Spec => []AgentsApart |
| WorktreesProofs!NobodyIsMovedAtWork | Spec => NotMovedUnderWork |
| TriageProofs!TypeCorrect | Spec => []TypeOK |
| TriageProofs!LimitIsKept | Spec => []LimitHolds |
| TriageProofs!CooldownIsKept | Spec => []CooldownHolds |
| TriageProofs!VerdictIsWhatWasSaid | Spec => VerdictIsTheAgents |
| SessionsProofs!TypeCorrect | Spec => []TypeOK |
| SessionsProofs!NothingIsInvented | Spec => []CountsAreReal |
| SessionsProofs!TimelineIsTheEvents | Spec => []TimelineAddsUp |
| SessionsProofs!ClosedHasReport | Spec => []ClosedIsReported |

The inductive invariants are at the end of the module they are about (`IInv` of ReviewRound is put
together in its proof module). TLC checked them on small instances before they were proved.

**Intake.** *NothingIsLost* is not inductive: Forget removes an inbox record, and what makes
that right is decided many steps before. `IInv` adds `SettledIsAccounted` (an id in
seen was answered or is in the dead letters: needed where Check sends a settled id
straight to Forget, and where Recover removes its record) and `HandsVouched` (a
handler at commit or forget holds an accounted id; one that decided to answer
recorded it; one at unbury has an answer). DeadLetterLeavesAnswered follows from
the last part, since Unbury is the only step that shrinks `dead`.

*DeferredIsWoken* rests on `WakerInv`: what is deferred waits behind a mark in `inflight`
(`DeferredBehindMark`), every mark has a goroutine that owns it (`MarksAreWatched`), and a slot
that is free owns none (`OwnersAreAtWork`), so that a new triage takes over nobody's mark.
Whoever frees a thread takes what was deferred in the same step.

*IntakeImplementsAdmission* needs `IInv` and `OnlyAdmitted`: nothing is in the channel,
with a blocked producer, deferred or with a handler that was not written to the inbox first.
So an answer, and a dead letter, is never of an id the abstract side does not know.
AddToInbox is Receive or, for an id already known, a stutter; Answer is Resolve, Bury is Park;
Forget, RecoverSettled and Unbury stutter, since what they remove is accounted for.

**WaitQueue.** *AcceptedIsKept* needs the same for Remove and KeepRemove: `AllJustified` says that a
drain at "remove" has seen its prompt submitted and one at "clear" has written it
aside. A deliverer at "enter" finds its text on the line or already submitted by
another goroutine's Enter.

*QueueKeepsOrder* rests on `OrderInv`. Each prompt is delivered by one caller
(`DeliverersApart`, `CallersAreFirst`) and queued at most once, with a number above all
before it (`FilesAreOrdered`; the number is the count of those queued, hence the finite set).
A drain that waits or types holds a prompt whose predecessors are done (`DrainsInOrder`), and so
is everything on the line (`LineInOrder`): an Enter, whoever's it is, submits only such. That
Peek takes the least number is where the order comes from.

**Outbox.** *PostedIsDelivered* is decided when the writer concludes and becomes visible when the
receipt is written: `DecisionIsTrue` says that a record at "record", or at a "posted"
receipt, is in the thread. `TextsDiffer` (no two records of one text) is needed there and
only there: Readback finds a message by its text, so that the message of another record
with the same text passes for it. `HandUnanswered` (what the batch and the job hold has
no receipt) keeps WriteReceipt from replacing an answer, and `NewIsUntouched` is where
it starts.

*ImplementsMailbox* rests on `StatusMoves`: what each action may do to the status of one
record and to its copies. *ResendIsExplained* follows from the same lemma. It is not
inductive, as a waiting record may be posted at any time; `CopiesExcused` says that one
that may still be posted has a copy less, and each way back to waiting (a replay, a crash,
a receipt that cannot be written or removed) raises the count of excuses.

**ReviewRound.** Everybody works on copies, so the invariants are about copies.
`CopiesAreSound` holds of every behaviour: a copy that has no round has no marks, and what the
writer is about to count is of the revision of its copy, if that has one. That is all *ResultsAreOfTheHead* needs.
The other theorems have premises, because the code promises less without them (section 4):
`RecordIsKept` says that no stop and no link put their copy in the place of the record and no round is
opened without a revision, `LaunchedOnce` that a review is launched only in a thread
that has had none, as its rounds are counted from 1 again. Under the first,
`RoundsAreSound` (what counts in the record, in memory or on disk, is of its revision; a round
the writer's message was not admitted in has no result yet) gives *ResultsAreOfOneHead*. Under
both, `RoundsAdvance` gives the rest: a handler's copy is of no later round than the record
(`HandsFollow`); the writer's is of the round its message was admitted in, or opens the next, and
what it found complete stays so (`WriterFollows`); the file is the record, or the one from before the
launch. The comparison of numbers in recordPost and reconcileRound is then one of rounds. Failed saves,
outages of the forge and crashes are allowed throughout.

**Links.** `IInv` says that one process at a time has the claim, that a store is open only under
it (`ClaimIsHeld`), and that a request is either with its command or with the daemon, which holds
none that has a receipt (`OneApplies`); *StoresStayCurrent* and *AppliedOnceAnswered* follow.
For the two theorems about windows, `LinkInv` adds that Apply still has to release every
other thread of its window (`ReleasesAll`), that no record names a window before the record of its
launch does (`LaunchedOnce`), and that two records of one window have an unfinished link to
explain it, or one session (`SharedIsExplained`, `OneSession`). `LinksAfterLaunch` is their
premise: a link in a window whose launch is not recorded yet breaks both (section 4). In the run
the links are of a window of the owner's, where this cannot happen.

**Worktrees.** The proof has three layers. `Base` has the types, what each hand may hold at each
step, and `PruneIsSound`: of the trees Prune has still to look at, none is of a record except
those set since it read the records. *TreeOfThreadStays* and *ChangesAreTheAgents* follow.
*ReviewIsExact* is inductive beside them, one hand at a time: every step of another hand that
changes a tree marks it `touched`. `Claims` is behind *AgentsHaveTheirTrees* and
*NobodyIsMovedAtWork*. Windows are recorded with the tree they were opened in (`RecordsAreTrue`), no
two that are `sure` share one (`WindowsAreApart`), a launch that is `sure` is the only one under
way, has listed every live window and holds no path of a recorded one (`SureIsAlone`), and a
continuation knows who went to work in the tree it moves (`SyncKnows`). That
choosePath returns a path that nobody has, when there is one, is a lemma
(`ChosenPath`, from the least element of a set of numbers).

**Triage.** The limit and the cooldown are checked by one step and recorded by a later one.
`OneBetween` (one message is between the two, and until it is recorded there is room
for it) and `OneOfAThread` (one message of a thread is with its triage) hold until two handlers
are between at once (`Unraced`). Lemmas about lists of times say that one more entry adds at most
one to what counts, and that the clock adds nothing. `AnswersAreTheAgents` ties the file, the window and
the verdict to what was said.

**Sessions.** *NothingIsInvented* needs `HooksAreReal`: the record a hook has read counts nothing
that did not happen, though it may be old. *TimelineIsTheEvents* compares the record with
the log; `TimelineIsExact` strengthens it by the time of the last event and the order of the
log, and `HooksAreCurrent` says that a hook that overlaps with none replaces the record
it has read. The first lemmas are about logs alone: what one more event does to each thing that the
reference counts. *ClosedHasReport* comes from `EndIsReported`.

`WorktreesProofs` takes tlapm some six minutes from nothing, the others one or two each.

**Only model-checked.** Liveness, which is out of the prover's reach: EventuallySettled,
DrainEmptiesQueue, WaitingSurvivesRestart, EveryRecordAnswered, FullRoundAsked,
EveryRequestAnswered, EveryReplyAdmitted, LoggedIsAdmitted, ConditionTold. The safety of the
thread poll and the watchdog, PollPassesAdmitted and OncePerCooldown. Nothing is proved by
induction over data: what lists and logs need is stated of one more element at a time, and no
module has a recursive operator.

## 6. Not modelled

Records that cannot be parsed (`Quarantine` of outbox, linkq and waitq's
unreadable files); help threads and reviews without a merge request; the base of a
merge request apart from its head (the two are one revision); the limit of launches;
which threads the poll looks at; texts, formats, logs, reports. Several merge requests
and repositories at once (a launch of the one does not see the trees of the other),
committees of more than two, and what git does with a tree whose directory is damaged. Two
windows are independent in deliver.go except for the lock, so WaitQueue has one. What an agent
commits in its worktree: a tree is at a commit of the merge request or has local changes, and
LocalChangesStay is about changes that are not committed.
The components of section 1 without a module, in the plan below.

## 7. Plan

Done, in this order: Intake with Admission, WaitQueue, Outbox, ReviewRound; the first proofs
of the first three; Links, ThreadPoll, Triage, Sessions, Watchdog; Worktrees, Mailbox,
Tailer; the proofs of Links, Worktrees, Triage, Sessions and ReviewRound; the order of the
waiting prompts, the waker of what is deferred, and Intake as an Admission. Next:

1. Proofs: PollPassesAdmitted and OncePerCooldown.
2. An abstract specification `Verdict` (a round opens, collects, closes) for ReviewRound.
3. The limit of launches beside the limit of triages (state.go:346-358).
4. Pure operators against a reference definition: `Classify`, `Outcomes`, `Window`.
