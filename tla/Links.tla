-------------------------------- MODULE Links -------------------------------
(***************************************************************************)
(* handoffd link: a window of the owner's takes a thread. The command      *)
(* applies the link itself when it gets the claim on the state file, and   *)
(* leaves a request for the daemon when it does not (cmd/handoffd/         *)
(* linkcmd.go, internal/linkq, internal/state/claim.go). Meanwhile the     *)
(* daemon launches windows for the same threads, closes them and sweeps.   *)
(*                                                                         *)
(* Of the record of a thread only the window and the session are kept;     *)
(* what a link does to the round of a review is in ReviewRound.            *)
(***************************************************************************)
EXTENDS Naturals, FiniteSets

CONSTANTS
    Threads,       \* root timestamps
    UserWindows,   \* windows the owner opened himself
    NewWindows,    \* windows the daemon may open, each once
    Requests,      \* runs of handoffd link
    ThreadOf,      \* [Requests -> Threads]: --thread
    WindowOf,      \* [Requests -> Windows]: the window the command runs in
    Forced,        \* the requests with --force
    Daemon, None,
    MaxMishaps     \* bound: failed writes and commands, crashes, sweeps

Windows == UserWindows \cup NewWindows
Owners == Requests \cup {Daemon}

ASSUME LinksAssumption ==
    /\ IsFiniteSet(Threads) /\ IsFiniteSet(Requests)
    /\ ThreadOf \in [Requests -> Threads] /\ WindowOf \in [Requests -> Windows]
    /\ Forced \subseteq Requests
    /\ UserWindows \cap NewWindows = {}
    /\ Daemon \notin Requests /\ None \notin Windows \cup Owners \cup {"linked"}
    /\ MaxMishaps \in Nat

VARIABLES
    disk,      \* the threads in the state file
    claim,     \* who holds the flock on it
    mem,       \* the store of each process that has one open
    open,      \* the processes that have one open
    stale,     \* those of them that another process has written under
    requests,  \* files: the requests, with their order
    receipts,  \* files: the receipts
    cmd,       \* what each run of handoffd link is at, or told its user
    job,       \* Apply, in the daemon's drainer and in the commands
    batch,     \* what the drainer's Pending returned
    hand,      \* a handler of messages in the daemon
    live,      \* the windows there are
    agent,     \* the session the agent in a window was started with, or 0
    ids,       \* session ids made up so far
    mishaps

files == <<disk, requests, receipts>>
stores == <<claim, mem, open, stale>>
world == <<live, agent, ids>>
vars == <<files, stores, cmd, job, batch, hand, world, mishaps>>

-----------------------------------------------------------------------------
(* State *)

\* A record names a window and a session together or neither: whatever gives the one
\* up gives up the other.
Thread ==
    {rec \in [known : BOOLEAN, win : Windows \cup {None}, sess : Nat] :
        ((rec.win = None) <=> (rec.sess = 0)) /\ (rec.win # None => rec.known)}
Unknown == [known |-> FALSE, win |-> None, sess |-> 0]
Released == [known |-> TRUE, win |-> None, sess |-> 0]
Held(w, s) == [known |-> TRUE, win |-> w, sess |-> s]
NoStore == [t \in Threads |-> Unknown]

CmdPCs == {"new", "open", "apply", "wait", "linked", "rejected", "failed"}

JobPCs == {"idle", "find", "holder", "bind", "release", "linked", "rejected"}
Job == [pc : JobPCs, req : Requests \cup {None}, todo : SUBSET Threads]
NoJob == [pc |-> "idle", req |-> None, todo |-> {}]

HandPCs == {"idle", "route", "live", "new", "opened", "stop"}
Hand == [pc : HandPCs, thread : Threads \cup {None}, win : Windows \cup {None}]
NoHand == [pc |-> "idle", thread |-> None, win |-> None]

Init ==
    /\ disk = NoStore
    /\ claim = None /\ mem = [o \in Owners |-> NoStore]
    /\ open = {} /\ stale = {}
    /\ requests = [r \in Requests |-> 0] /\ receipts = [r \in Requests |-> None]
    /\ cmd = [r \in Requests |-> "new"] /\ job = [o \in Owners |-> NoJob]
    /\ batch = {} /\ hand = NoHand
    /\ live = UserWindows /\ agent = [w \in Windows |-> 0] /\ ids = 0
    /\ mishaps = 0

Mishap == mishaps < MaxMishaps /\ mishaps' = mishaps + 1

Up == Daemon \in open

\* Save: everything the store has, over whatever is in the file.
Save(o, threads) ==
    /\ disk' = threads
    /\ stale' = (stale \cup open) \ {o}
    /\ UNCHANGED open

\* UpdateThread: the record and the file, or neither.
Update(o, t, rec) ==
    /\ mem' = [mem EXCEPT ![o][t] = rec]
    /\ Save(o, mem'[o])

\* SetThread and Save: the record is set, whether or not the file is.
Put(o, t, rec) ==
    /\ mem' = [mem EXCEPT ![o][t] = rec]
    /\ \/ Save(o, mem'[o]) /\ UNCHANGED mishaps
       \/ UNCHANGED <<disk, open, stale>> /\ Mishap

Write(r) ==
    /\ requests' = [requests EXCEPT
          ![r] = Cardinality({q \in Requests : requests[q] > 0}) + 1]
    /\ cmd' = [cmd EXCEPT ![r] = "wait"]

-----------------------------------------------------------------------------
(* The claim: localLink and watch take it, then open the state file. *)

\* Mutant: the daemon is taken for dead, and the file is opened without the claim.
SubmitUnclaimed(r) ==
    /\ cmd[r] = "new" /\ WindowOf[r] \in live
    /\ cmd' = [cmd EXCEPT ![r] = "open"]
    /\ UNCHANGED <<files, stores, job, batch, hand, world, mishaps>>

\* Acquire, without waiting; the loser writes a request and waits for the receipt.
Submit(r) ==
    /\ cmd[r] = "new" /\ WindowOf[r] \in live
    /\ IF claim = None
       THEN /\ cmd' = [cmd EXCEPT ![r] = "open"] /\ claim' = r
            /\ UNCHANGED requests
       ELSE Write(r) /\ UNCHANGED claim
    /\ UNCHANGED <<disk, receipts, mem, open, stale, job, batch, hand, world, mishaps>>

ReadState(o) ==
    /\ mem' = [mem EXCEPT ![o] = disk]
    /\ open' = open \cup {o} /\ UNCHANGED stale

OpenLocal(r) ==
    /\ cmd[r] = "open"
    /\ ReadState(r)
    /\ cmd' = [cmd EXCEPT ![r] = "apply"]
    /\ job' = [job EXCEPT ![r] = [NoJob EXCEPT !.pc = "find", !.req = r]]
    /\ UNCHANGED <<files, claim, batch, hand, world, mishaps>>

\* The command is through, or failed, or was interrupted: its claim goes with it.
Close(r, told) ==
    /\ cmd' = [cmd EXCEPT ![r] = told]
    /\ claim' = IF claim = r THEN None ELSE claim
    /\ mem' = [mem EXCEPT ![r] = NoStore] /\ open' = open \ {r} /\ stale' = stale \ {r}
    /\ job' = [job EXCEPT ![r] = NoJob]

EndLocal(r) ==
    /\ cmd[r] = "apply" /\ job[r].pc \in {"linked", "rejected"}
    /\ Close(r, job[r].pc)
    /\ UNCHANGED <<files, batch, hand, world, mishaps>>

Interrupt(r) ==
    /\ cmd[r] \in {"open", "apply"}
    /\ Close(r, "failed")
    /\ Mishap
    /\ UNCHANGED <<files, batch, hand, world>>

Start ==
    /\ claim = None
    /\ claim' = Daemon
    /\ UNCHANGED <<files, mem, open, stale, cmd, job, batch, hand, world, mishaps>>

Open ==
    /\ claim = Daemon /\ ~Up
    /\ ReadState(Daemon)
    /\ UNCHANGED <<files, claim, cmd, job, batch, hand, world, mishaps>>

Crash ==
    /\ claim = Daemon
    /\ claim' = None
    /\ mem' = [mem EXCEPT ![Daemon] = NoStore]
    /\ open' = open \ {Daemon} /\ stale' = stale \ {Daemon}
    /\ job' = [job EXCEPT ![Daemon] = NoJob] /\ batch' = {} /\ hand' = NoHand
    /\ Mishap
    /\ UNCHANGED <<files, cmd, world>>

-----------------------------------------------------------------------------
(* The directory of requests *)

\* Mutant: the receipts are not looked for.
PendingAll ==
    /\ Up /\ batch = {} /\ job[Daemon] = NoJob
    /\ batch' = {r \in Requests : requests[r] > 0}
    /\ UNCHANGED <<files, stores, cmd, job, hand, world, mishaps>>

Pending ==
    /\ Up /\ batch = {} /\ job[Daemon] = NoJob
    /\ batch' = {r \in Requests : requests[r] > 0 /\ receipts[r] = None}
    /\ batch' # {}
    /\ UNCHANGED <<files, stores, cmd, job, hand, world, mishaps>>

\* Pending sorts by age.
Drain ==
    /\ Up /\ job[Daemon] = NoJob
    /\ \E r \in batch :
          /\ \A q \in batch : requests[r] <= requests[q]
          /\ batch' = batch \ {r}
          /\ job' = [job EXCEPT ![Daemon] = [NoJob EXCEPT !.pc = "find", !.req = r]]
    /\ UNCHANGED <<files, stores, cmd, hand, world, mishaps>>

\* Mutant: a rejected request gets no receipt.
WriteReceiptLinked ==
    /\ job[Daemon].pc \in {"linked", "rejected"}
    /\ \/ /\ receipts' = IF job[Daemon].pc = "linked"
                          THEN [receipts EXCEPT ![job[Daemon].req] = "linked"] ELSE receipts
          /\ UNCHANGED mishaps
       \/ Mishap /\ UNCHANGED receipts
    /\ job' = [job EXCEPT ![Daemon] = NoJob]
    /\ UNCHANGED <<disk, requests, stores, cmd, batch, hand, world>>

WriteReceipt ==
    /\ job[Daemon].pc \in {"linked", "rejected"}
    /\ \/ /\ receipts' = [receipts EXCEPT ![job[Daemon].req] = job[Daemon].pc]
          /\ UNCHANGED mishaps
       \/ Mishap /\ UNCHANGED receipts
    /\ job' = [job EXCEPT ![Daemon] = NoJob]
    /\ UNCHANGED <<disk, requests, stores, cmd, batch, hand, world>>

\* Sweep goes through the directory in the order of names: a request goes
\* before its receipt does.
SweepLink(r) ==
    /\ Up /\ Mishap
    /\ \/ requests[r] > 0 /\ requests' = [requests EXCEPT ![r] = 0] /\ UNCHANGED receipts
       \/ /\ requests[r] = 0 /\ receipts[r] # None
          /\ receipts' = [receipts EXCEPT ![r] = None] /\ UNCHANGED requests
    /\ UNCHANGED <<disk, stores, cmd, job, batch, hand, world>>

-----------------------------------------------------------------------------
(* Apply, in the process o *)

ReqOf(o) == job[o].req
Goto(o, pc) == job' = [job EXCEPT ![o].pc = pc]

\* The window no longer holds an agent, or it does.
Find(o) ==
    /\ job[o].pc = "find"
    /\ Goto(o, IF WindowOf[ReqOf(o)] \in live THEN "holder" ELSE "rejected")
    /\ UNCHANGED <<files, stores, cmd, batch, hand, world, mishaps>>

\* The live window that has the thread, unless it is the one that asks.
Holder(o, r) == {mem[o][ThreadOf[r]].win} \cap (live \ {WindowOf[r]})

LookForHolder(o) ==
    LET r == ReqOf(o) IN
    /\ job[o].pc = "holder"
    /\ Goto(o, IF Holder(o, r) # {} /\ r \notin Forced THEN "rejected" ELSE "bind")
    /\ UNCHANGED <<files, stores, cmd, batch, hand, world, mishaps>>

\* The revision of the merge request cannot be read, or has no base.
Refuse(o) ==
    /\ job[o].pc = "bind"
    /\ Goto(o, "rejected")
    /\ Mishap
    /\ UNCHANGED <<files, stores, cmd, batch, hand, world>>

\* An error: the command reports it, the daemon leaves the request pending.
Abandon(o) ==
    IF o = Daemon THEN job' = [job EXCEPT ![o] = NoJob] /\ UNCHANGED <<cmd, stores>>
    ELSE Close(o, "failed")

\* The terminal does not answer.
ApplyFails(o) ==
    /\ job[o].pc \in {"find", "holder", "bind"}
    /\ Abandon(o)
    /\ Mishap
    /\ UNCHANGED <<files, batch, hand, world>>

\* The session of the window, if a thread has one for it, or a new one.
SessionsOf(o, w) == {mem[o][t].sess : t \in {u \in Threads : mem[o][u].win = w}}

\* Mutant: the window always gets a new session.
BindAnew(o) ==
    LET r == ReqOf(o)
        w == WindowOf[r] IN
    /\ job[o].pc = "bind"
    /\ ids' = ids + 1
    /\ mem' = [mem EXCEPT ![o][ThreadOf[r]] = Held(w, ids + 1)]
    /\ job' = [job EXCEPT ![o].pc = "release",
                          ![o].todo = {t \in Threads \ {ThreadOf[r]} : mem[o][t].win = w}]
    /\ UNCHANGED <<files, claim, open, stale, cmd, batch, hand, live, agent, mishaps>>

\* session, bind and SetThread, and the look at the others that have the window.
Bind(o) ==
    LET r == ReqOf(o)
        w == WindowOf[r] IN
    /\ job[o].pc = "bind"
    /\ IF SessionsOf(o, w) = {}
       THEN ids' = ids + 1 /\ mem' = [mem EXCEPT ![o][ThreadOf[r]] = Held(w, ids + 1)]
       ELSE /\ \E s \in SessionsOf(o, w) :
                  mem' = [mem EXCEPT ![o][ThreadOf[r]] = Held(w, s)]
            /\ UNCHANGED ids
    /\ job' = [job EXCEPT ![o].pc = "release",
                          ![o].todo = {t \in Threads \ {ThreadOf[r]} : mem[o][t].win = w}]
    /\ UNCHANGED <<files, claim, open, stale, cmd, batch, hand, live, agent, mishaps>>

\* Mutant: the other threads of the window are left as they are.
ReleaseNone(o) ==
    /\ job[o].pc = "release" /\ job[o].todo # {}
    /\ job' = [job EXCEPT ![o].todo = {}]
    /\ UNCHANGED <<files, stores, cmd, batch, hand, world, mishaps>>

\* One of them after the other gives the window up, whatever it has by now.
Release(o) ==
    /\ job[o].pc = "release"
    /\ \E t \in job[o].todo :
          /\ mem[o][t].known
          /\ Update(o, t, Released)
          /\ job' = [job EXCEPT ![o].todo = @ \ {t}]
    /\ UNCHANGED <<requests, receipts, claim, cmd, batch, hand, world, mishaps>>

\* A record that was swept meanwhile.
ReleaseUnknown(o) ==
    /\ job[o].pc = "release"
    /\ \E t \in job[o].todo : ~mem[o][t].known
    /\ Abandon(o)
    /\ UNCHANGED <<files, batch, hand, world, mishaps>>

SaveLink(o) ==
    /\ job[o].pc = "release" /\ job[o].todo = {}
    /\ Save(o, mem[o])
    /\ Goto(o, "linked")
    /\ UNCHANGED <<requests, receipts, claim, mem, cmd, batch, hand, world, mishaps>>

\* What SetThread put in the store stays there.
SaveFails(o) ==
    /\ job[o].pc = "release"
    /\ Abandon(o)
    /\ Mishap
    /\ UNCHANGED <<files, batch, hand, world>>

ApplyStep(o) ==
    \/ Find(o) \/ LookForHolder(o) \/ Refuse(o) \/ ApplyFails(o) \/ Bind(o)
    \/ Release(o) \/ ReleaseUnknown(o) \/ SaveLink(o) \/ SaveFails(o)

-----------------------------------------------------------------------------
(* A handler of messages in the daemon, and its sweep of old threads *)

Take(t) ==
    /\ Up /\ hand = NoHand
    /\ hand' = [pc |-> "route", thread |-> t, win |-> mem[Daemon][t].win]
    /\ UNCHANGED <<files, stores, cmd, job, batch, world, mishaps>>

Route ==
    /\ hand.pc = "route" /\ hand.win \in live \cup {None}
    /\ hand' = [hand EXCEPT !.pc = IF hand.win = None THEN "new" ELSE "live"]
    /\ UNCHANGED <<files, stores, cmd, job, batch, world, mishaps>>

\* The window is gone: the record gives up the one it names by now.
RouteGone ==
    /\ hand.pc = "route" /\ hand.win \notin live \cup {None}
    /\ IF mem[Daemon][hand.thread].known
       THEN /\ Update(Daemon, hand.thread, Released)
            /\ hand' = [hand EXCEPT !.pc = "new", !.win = None]
       ELSE hand' = NoHand /\ UNCHANGED <<disk, mem, open, stale>>
    /\ UNCHANGED <<requests, receipts, claim, cmd, job, batch, world, mishaps>>

\* The window got its prompt, nothing is to be done, or the attempt fails.
Leave ==
    /\ hand.pc \in {"route", "live", "new"}
    /\ hand' = NoHand
    /\ UNCHANGED <<files, stores, cmd, job, batch, world, mishaps>>

OpenWindow ==
    /\ hand.pc = "new"
    /\ \E w \in NewWindows \ live :
          /\ agent[w] = 0
          /\ live' = live \cup {w}
          /\ agent' = [agent EXCEPT ![w] = ids + 1]
          /\ hand' = [hand EXCEPT !.pc = "opened", !.win = w]
    /\ ids' = ids + 1
    /\ UNCHANGED <<files, stores, cmd, job, batch, mishaps>>

LaunchSet ==
    /\ hand.pc = "opened"
    /\ Put(Daemon, hand.thread, Held(hand.win, agent[hand.win]))
    /\ hand' = NoHand
    /\ UNCHANGED <<requests, receipts, claim, cmd, job, batch, world>>

StopKill ==
    /\ hand.pc = "live"
    /\ live' = live \ {hand.win}
    /\ hand' = [hand EXCEPT !.pc = "stop"]
    /\ UNCHANGED <<files, stores, cmd, job, batch, agent, ids, mishaps>>

StopSet ==
    /\ hand.pc = "stop"
    /\ Put(Daemon, hand.thread, Released)
    /\ hand' = NoHand
    /\ UNCHANGED <<requests, receipts, claim, cmd, job, batch, world>>

\* A record is forgotten, for its age or with its window gone for long.
SweepThread(t) ==
    /\ Up /\ mem[Daemon][t].known /\ Mishap
    /\ mem' = [mem EXCEPT ![Daemon][t] = Unknown]
    /\ Save(Daemon, mem'[Daemon])
    /\ UNCHANGED <<requests, receipts, claim, cmd, job, batch, hand, world>>

CloseWindow ==
    /\ \E w \in live : live' = live \ {w}
    /\ UNCHANGED <<files, stores, cmd, job, batch, hand, agent, ids, mishaps>>

CommandStep(r) ==
    \/ OpenLocal(r) \/ EndLocal(r) \/ ApplyStep(r)

DaemonStep == Start \/ Open \/ Pending \/ Drain \/ WriteReceipt \/ ApplyStep(Daemon)

HandlerStep ==
    \/ Route \/ RouteGone \/ Leave \/ OpenWindow \/ LaunchSet \/ StopKill \/ StopSet

Next ==
    \/ \E r \in Requests : Submit(r) \/ CommandStep(r) \/ Interrupt(r) \/ SweepLink(r)
    \/ DaemonStep \/ Crash
    \/ \E t \in Threads : Take(t) \/ SweepThread(t)
    \/ HandlerStep
    \/ CloseWindow

Spec == Init /\ [][Next]_vars

(***************************************************************************)
(* Fairness: processes that can go on do, and the daemon is started again  *)
(* (KeepAlive, Restart=on-failure)                                         *)
(***************************************************************************)
Fairness ==
    /\ \A r \in Requests : WF_vars(CommandStep(r))
    /\ WF_vars(DaemonStep)

FairSpec == Spec /\ Fairness
-----------------------------------------------------------------------------
(* Properties *)

Stores == {disk} \cup {mem[o] : o \in open}

\* Every variable keeps its type; for a record that is more than its fields.
\* (Not among the properties of the run.)
TypeOK ==
    /\ disk \in [Threads -> Thread] /\ mem \in [Owners -> [Threads -> Thread]]
    /\ claim \in Owners \cup {None} /\ stale \subseteq open /\ open \subseteq Owners
    /\ requests \in [Requests -> Nat]
    /\ receipts \in [Requests -> {None, "linked", "rejected"}]
    /\ cmd \in [Requests -> CmdPCs] /\ job \in [Owners -> Job]
    /\ batch \subseteq Requests /\ hand \in Hand
    /\ live \subseteq Windows /\ agent \in [Windows -> Nat] /\ ids \in Nat
    /\ mishaps \in Nat

\* "two watchers must not write the same state" (linkcmd_test.go:293), nor may a
\* command and the daemon: a store that is open has not been written under, so
\* no save undoes one of another process.
StoresAreCurrent == stale = {}

Submitted(r) == cmd[r] # "new"
Linked(r) == cmd[r] = "linked" \/ receipts[r] = "linked"

\* "a window can only belong to one thread" (linkq/apply_test.go:571): two
\* threads name one live window, in the file or in a store, only while a link of
\* that window is under way or has failed half way.
OneThreadPerWindow ==
    \A S \in Stores, t, u \in Threads :
        (t # u /\ S[t].win = S[u].win /\ S[t].win \in live)
        => \E r \in Requests : WindowOf[r] = S[t].win /\ Submitted(r) /\ ~Linked(r)

\* "want the session of the window it links" (linkq/apply_test.go:203): records
\* that name one window name one session, so that what the agent in it posts
\* finds its thread by either.
SessionFollowsWindow ==
    \A S \in Stores, t, u \in Threads :
        (S[t].win = S[u].win /\ S[t].win # None) => S[t].sess = S[u].sess

\* A request that has its receipt is not applied again, also when the files are
\* being swept: a link done long ago does not come back over a later one.
AppliedUntilAnswered ==
    [][(job[Daemon].pc = "bind" /\ job'[Daemon].pc = "release")
       => receipts[ReqOf(Daemon)] = None]_vars

\* A request that was written is answered, whatever fails and whoever had the
\* claim, unless it is swept away first.
EveryRequestAnswered ==
    \A r \in Requests :
        requests[r] > 0 ~> (receipts[r] # None \/ requests[r] = 0)

(***************************************************************************)
(* The inductive invariant behind StoresAreCurrent, OneThreadPerWindow and *)
(* SessionFollowsWindow.                                                   *)
(***************************************************************************)

\* A handler that has opened a window knows the session in it.
HandIsSound ==
    /\ hand.pc # "idle" => hand.thread \in Threads
    /\ hand.pc = "opened" => hand.win \in NewWindows /\ agent[hand.win] # 0

\* Only who holds the claim has the store open, and only who has it open is at
\* something that ends in a save.
ClaimIsHeld ==
    /\ open \subseteq {claim}
    /\ \A r \in Requests : cmd[r] \in {"open", "apply"} => claim = r
    /\ \A o \in Owners : job[o].pc # "idle" => o \in open
    /\ hand.pc # "idle" => Daemon \in open

\* A request is with its command or with the daemon; what the daemon is about to
\* apply has no receipt.
OneApplies ==
    /\ \A o \in Owners : job[o].pc = "idle" <=> job[o].req = None
    /\ \A r \in Requests :
          /\ job[r].pc # "idle" => job[r].req = r /\ cmd[r] = "apply"
          /\ requests[r] > 0 \/ receipts[r] # None => cmd[r] = "wait"
          /\ r \in batch \cup {job[Daemon].req} => cmd[r] = "wait" /\ receipts[r] = None
    /\ job[Daemon].req \notin batch

Unlinked(r) ==
    /\ Submitted(r) /\ ~Linked(r)
    /\ \A o \in Owners : ~(job[o].pc = "linked" /\ job[o].req = r)

\* The threads a link has still to release are all that share its window.
ReleasesAll ==
    \A o \in Owners, t \in Threads :
        (job[o].pc = "release" /\ mem[o][t].win = WindowOf[ReqOf(o)])
        => t = ThreadOf[ReqOf(o)] \/ t \in job[o].todo

SharedIsExplained ==
    \A S \in Stores, t, u \in Threads :
        (t # u /\ S[t].win = S[u].win /\ S[t].win # None)
        => \E r \in Requests : WindowOf[r] = S[t].win /\ Unlinked(r)

\* A window of the daemon's that is there, or was, has been opened.
OpenedFirst ==
    \A w \in NewWindows :
        (w \in live \/ \E r \in Requests : Submitted(r) /\ WindowOf[r] = w) => agent[w] # 0

\* No record names a window before the one of its launch does.
LaunchedOnce ==
    /\ \A S \in Stores, t \in Threads : S[t].win \in NewWindows => agent[S[t].win] # 0
    /\ hand.pc = "opened" => \A S \in Stores, t \in Threads : S[t].win # hand.win

OneSession ==
    \A S \in Stores, t, u \in Threads :
        (S[t].win = S[u].win /\ S[t].win # None) => S[t].sess = S[u].sess

IInv == TypeOK /\ HandIsSound /\ StoresAreCurrent /\ ClaimIsHeld /\ OneApplies

LinkInv == OpenedFirst /\ ReleasesAll /\ SharedIsExplained /\ LaunchedOnce /\ OneSession

\* The launch of a window is recorded before a link is run in it: what the two
\* theorems about windows assume.
LinksAfterLaunch ==
    hand.pc = "opened" => \A r \in Requests : WindowOf[r] = hand.win => ~Submitted(r)
=============================================================================
