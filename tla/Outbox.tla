------------------------------- MODULE Outbox -------------------------------
(***************************************************************************)
(* The outbound writer: an agent's post command leaves a record in the     *)
(* outbox and waits for its receipt; the writer goroutine of the daemon    *)
(* admits the record, sends it to the thread or to the merge request,      *)
(* records the transition of the review round and writes the receipt       *)
(* (internal/pipeline/outbox.go, internal/outbox).                         *)
(*                                                                         *)
(* Which rule rejects a record, and what a transition writes, is left      *)
(* open; how often a message gets into the thread is not.                  *)
(***************************************************************************)
EXTENDS Naturals

CONSTANTS
    Records,     \* what the agents write
    Keys,        \* postKey: session, kind, phase, revision and text
    KeyOf,       \* the key of each record
    Texts,       \* postText: the message as rendered, in its thread
    TextOf,      \* the text of each record
    Notes,       \* records that go to the merge request: never read back
    Replies,     \* records without a round transition
    None,        \* "no record"
    Attempts,    \* postAttempts
    MaxUnclear,  \* bound: posts that end without an answer
    MaxReplays,  \* bound: SIGUSR1 deliveries
    MaxFaults,   \* bound: files that cannot be read or written
    MaxCrashes   \* bound: crashes and stops

ASSUME OutboxAssumption ==
    /\ KeyOf \in [Records -> Keys] /\ TextOf \in [Records -> Texts]
    /\ Notes \subseteq Records /\ Replies \subseteq Records
    /\ None \notin Records
    /\ Attempts \in Nat \ {0}
    /\ {MaxUnclear, MaxReplays, MaxFaults, MaxCrashes} \subseteq Nat

VARIABLES
    outbox,     \* disk: the records
    receipt,    \* disk: the status in the receipt of each record, or "none"
    committed,  \* disk: records whose round transition is in the state file
    delivered,  \* outside: how often each message is in its thread
    told,       \* what the post command printed
    phase,      \* is the daemon up, stopping, stopped for good, or crashed?
    batch,      \* memory: records Pending returned, not handled yet
    recent,     \* memory: recentPosts, the keys of the last ten minutes
    job,        \* memory: what handlePost is at
    unclear, replays, faults, crashes

disk == <<outbox, receipt, committed>>
memory == <<phase, batch, recent, job>>
bounds == <<unclear, replays, faults, crashes>>
vars == <<disk, delivered, told, memory, bounds>>

-----------------------------------------------------------------------------
(* State *)

Statuses == {"posted", "rejected", "pending", "unknown"}
PCs == {"idle", "post", "delay", "readback", "record", "receipt"}

\* status: the receipt handlePost is about to write.
Job == [pc : PCs, rec : Records \cup {None}, attempt : 0..Attempts,
        status : Statuses \cup {"none"}]
NoJob == [pc |-> "idle", rec |-> None, attempt |-> 0, status |-> "none"]

Init ==
    /\ outbox = {} /\ receipt = [r \in Records |-> "none"] /\ committed = {}
    /\ delivered = [r \in Records |-> 0]
    /\ told = [r \in Records |-> "new"]
    /\ phase = "up" /\ batch = {} /\ recent = {} /\ job = NoJob
    /\ unclear = 0 /\ replays = 0 /\ faults = 0 /\ crashes = 0

Fault == /\ faults < MaxFaults
         /\ faults' = faults + 1
         /\ UNCHANGED <<unclear, replays, crashes>>

-----------------------------------------------------------------------------
(* The post command *)

Write(r) ==
    /\ told[r] = "new"
    /\ outbox' = outbox \cup {r}
    /\ told' = [told EXCEPT ![r] = "waiting"]
    /\ UNCHANGED <<receipt, committed, delivered, memory, bounds>>

\* Wait finds the receipt. The command that gives up, or finds another status,
\* says "pending" and changes nothing: the record stays for the writer.
Wait(r) ==
    /\ told[r] = "waiting" /\ receipt[r] \in {"posted", "rejected"}
    /\ told' = [told EXCEPT ![r] = receipt[r]]
    /\ UNCHANGED <<disk, delivered, memory, bounds>>

-----------------------------------------------------------------------------
(* DrainOutbox *)

Running == phase \in {"up", "stopping"}
At(pc) == Running /\ job.pc = pc
Cancelled == phase = "stopping"
Pending == {r \in outbox : receipt[r] = "none"}

\* Once a second; an outbox that cannot be read is read again at the next tick.
Drain ==
    /\ At("idle") /\ ~Cancelled /\ batch = {}
    /\ Pending # {}
    /\ batch' = Pending
    /\ UNCHANGED <<disk, delivered, told, phase, recent, job, bounds>>

\* What handlePost ends with, by way of writeReceipt.
Conclude(status) == job' = [job EXCEPT !.pc = "receipt", !.status = status]
Begin(r, pc, status) ==
    job' = [pc |-> pc, rec |-> r, attempt |-> 1, status |-> status]

\* Mutant: the agent is told, and no receipt is written.
RejectUnwritten(r) ==
    /\ job' = NoJob
    /\ UNCHANGED bounds

\* admitPost refuses the record: always when its key was delivered lately.
Reject(r) ==
    /\ Begin(r, "receipt", "rejected")
    /\ UNCHANGED bounds

Admit(r) ==
    /\ KeyOf[r] \notin recent
    /\ Begin(r, "post", "none")
    /\ UNCHANGED bounds

\* The head of the merge request cannot be confirmed.
AdmitFails(r) ==
    /\ KeyOf[r] \notin recent
    /\ Begin(r, "receipt", "pending")
    /\ Fault

\* Records are handled by age; any order is allowed here.
HandlePost ==
    /\ At("idle") /\ ~Cancelled
    /\ \E r \in batch :
          /\ Reject(r) \/ Admit(r) \/ AdmitFails(r)
          /\ batch' = batch \ {r}
    /\ UNCHANGED <<disk, delivered, told, phase, recent>>

-----------------------------------------------------------------------------
(* deliverPost and readbackPost *)

Sent == delivered' = [delivered EXCEPT ![job.rec] = @ + 1]

Posted ==
    /\ At("post")
    /\ Sent
    /\ job' = [job EXCEPT !.pc = "record"]
    /\ UNCHANGED <<disk, told, phase, batch, recent, bounds>>

\* ErrNotAccepted: another attempt follows, unless it was the last one or the
\* daemon is stopping.
Refused ==
    /\ At("post")
    /\ IF Cancelled \/ job.attempt = Attempts THEN Conclude("pending")
       ELSE job' = [job EXCEPT !.pc = "delay"]
    /\ UNCHANGED <<disk, delivered, told, phase, batch, recent, bounds>>

Delay ==
    /\ At("delay")
    /\ job' = IF Cancelled THEN [job EXCEPT !.pc = "readback"]
              ELSE [job EXCEPT !.pc = "post", !.attempt = @ + 1]
    /\ UNCHANGED <<disk, delivered, told, phase, batch, recent, bounds>>

\* Mutant: whatever error is taken for a refusal, and tried again.
UnclearRetried ==
    /\ At("post") /\ unclear < MaxUnclear
    /\ unclear' = unclear + 1
    /\ Sent \/ UNCHANGED delivered
    /\ IF job.attempt = Attempts THEN Conclude("pending")
       ELSE job' = [job EXCEPT !.pc = "delay"]
    /\ UNCHANGED <<disk, told, phase, batch, recent, replays, faults, crashes>>

\* Any other error: nobody knows whether the message got there.
Unclear ==
    /\ At("post") /\ unclear < MaxUnclear
    /\ unclear' = unclear + 1
    /\ Sent \/ UNCHANGED delivered
    /\ job' = [job EXCEPT !.pc = "readback"]
    /\ UNCHANGED <<disk, told, phase, batch, recent, replays, faults, crashes>>

\* A message of this text is among the replies of the thread, whoever's it is.
InThread(text) == \E r \in Records \ Notes : TextOf[r] = text /\ delivered[r] > 0

\* Mutant: the thread being readable is taken for the message being in it.
ReadbackTrusting ==
    /\ At("readback") /\ ~Cancelled
    /\ job.rec \notin Notes
    /\ job' = [job EXCEPT !.pc = "record"]
    /\ UNCHANGED <<disk, delivered, told, phase, batch, recent, bounds>>

\* The text stands in the thread: the message is taken as delivered.
Readback ==
    /\ At("readback") /\ ~Cancelled
    /\ job.rec \notin Notes /\ InThread(TextOf[job.rec])
    /\ job' = [job EXCEPT !.pc = "record"]
    /\ UNCHANGED <<disk, delivered, told, phase, batch, recent, bounds>>

\* Not found, not looked for, or not readable: left to a human.
ReadbackFails ==
    /\ At("readback")
    /\ Conclude("unknown")
    /\ IF Cancelled \/ job.rec \in Notes \/ ~InThread(TextOf[job.rec])
       THEN UNCHANGED bounds ELSE Fault
    /\ UNCHANGED <<disk, delivered, told, phase, batch, recent>>

-----------------------------------------------------------------------------
(* recordPost and writeReceipt *)

\* The round may have been replaced meanwhile: then nothing is applied.
Record ==
    /\ At("record")
    /\ recent' = recent \cup {KeyOf[job.rec]}
    /\ \/ committed' = committed \cup {job.rec} /\ job.rec \notin Replies
       \/ UNCHANGED committed
    /\ Conclude("posted")
    /\ UNCHANGED <<outbox, receipt, delivered, told, phase, batch, bounds>>

\* The state file cannot be written, or the thread was swept meanwhile: the key
\* is forgotten again.
RecordFails ==
    /\ At("record") /\ job.rec \notin Replies
    /\ recent' = recent \ {KeyOf[job.rec]}
    /\ Conclude("pending")
    /\ Fault \/ UNCHANGED bounds
    /\ UNCHANGED <<disk, delivered, told, phase, batch>>

WriteReceipt ==
    /\ At("receipt")
    /\ receipt' = [receipt EXCEPT ![job.rec] = job.status]
    /\ job' = NoJob
    /\ UNCHANGED <<outbox, committed, delivered, told, phase, batch, recent, bounds>>

\* "the record can be delivered again"
WriteReceiptFails ==
    /\ At("receipt")
    /\ job' = NoJob
    /\ Fault
    /\ UNCHANGED <<disk, delivered, told, phase, batch, recent>>

\* Ten minutes are over.
Expire ==
    /\ \E k \in recent : recent' = recent \ {k}
    /\ UNCHANGED <<disk, delivered, told, phase, batch, job, bounds>>

-----------------------------------------------------------------------------
(* Retry, Sweep, and the life of the daemon *)

Without(S) == [r \in Records |-> IF r \in S THEN "none" ELSE receipt[r]]
Those(statuses) == {r \in Records : receipt[r] \in statuses}

\* Mutant: a replay brings back all that was not posted.
RetryAll ==
    /\ Running /\ replays < MaxReplays
    /\ replays' = replays + 1
    /\ receipt' = Without(Those({"pending", "unknown"}))
    /\ UNCHANGED <<outbox, committed, delivered, told, memory, unclear, faults, crashes>>

\* handoffd replay: the pending receipts are dropped.
Retry ==
    /\ Running /\ replays < MaxReplays
    /\ replays' = replays + 1
    /\ receipt' = Without(Those({"pending"}))
    /\ UNCHANGED <<outbox, committed, delivered, told, memory, unclear, faults, crashes>>

\* A receipt that cannot be removed ends it, the rest stay.
RetryFails ==
    /\ Running /\ replays < MaxReplays
    /\ \E S \in SUBSET Those({"pending"}) : receipt' = Without(S)
    /\ Fault
    /\ UNCHANGED <<outbox, committed, delivered, told, memory>>

\* A record grew too old, handled or not; its receipt is the younger file.
Sweep(r) ==
    /\ Running
    /\ IF r \in outbox
       THEN outbox' = outbox \ {r} /\ UNCHANGED receipt
       ELSE receipt[r] # "none" /\ receipt' = Without({r}) /\ UNCHANGED outbox
    /\ UNCHANGED <<committed, delivered, told, memory, bounds>>

\* SIGTERM cancels the context; the record in hand is brought to an end.
Stop ==
    /\ phase = "up" /\ crashes < MaxCrashes
    /\ phase' = "stopping"
    /\ crashes' = crashes + 1
    /\ UNCHANGED <<disk, delivered, told, batch, recent, job, unclear, replays, faults>>

Exit ==
    /\ Cancelled /\ job.pc = "idle"
    /\ phase' = "stopped" /\ batch' = {} /\ recent' = {}
    /\ UNCHANGED <<disk, delivered, told, job, bounds>>

Crash ==
    /\ Running /\ crashes < MaxCrashes
    /\ crashes' = crashes + 1
    /\ phase' = "crashed" /\ batch' = {} /\ recent' = {} /\ job' = NoJob
    /\ UNCHANGED <<disk, delivered, told, unclear, replays, faults>>

Start ==
    /\ ~Running
    /\ phase' = "up"
    /\ UNCHANGED <<disk, delivered, told, batch, recent, job, bounds>>

Restart == phase = "crashed" /\ Start

Writer ==
    \/ Drain \/ HandlePost
    \/ Posted \/ Refused \/ Delay \/ Unclear \/ Readback \/ ReadbackFails
    \/ Record \/ RecordFails \/ WriteReceipt \/ WriteReceiptFails

Next ==
    \/ \E r \in Records : Write(r) \/ Wait(r) \/ Sweep(r)
    \/ Writer \/ Expire
    \/ Retry \/ RetryFails \/ Stop \/ Exit \/ Crash \/ Start

Spec == Init /\ [][Next]_vars

(***************************************************************************)
(* Fairness: the writer ticks, and the service manager starts the daemon   *)
(* again when it crashed, not when it was stopped (KeepAlive on an         *)
(* unsuccessful exit in deploy/local.handoffd.plist, Restart=on-failure in *)
(* deploy/handoffd.service).                                               *)
(***************************************************************************)
Fairness == WF_vars(Writer) /\ WF_vars(Exit) /\ WF_vars(Restart)

FairSpec == Spec /\ Fairness

-----------------------------------------------------------------------------
(* Properties *)

\* Every variable keeps its type. (Not among the properties of the run.)
TypeOK ==
    /\ outbox \subseteq Records /\ committed \subseteq Records
    /\ receipt \in [Records -> Statuses \cup {"none"}]
    /\ delivered \in [Records -> Nat]
    /\ told \in [Records -> {"new", "waiting", "posted", "rejected"}]
    /\ phase \in {"up", "stopping", "stopped", "crashed"}
    /\ batch \subseteq Records /\ recent \subseteq Keys
    /\ job \in Job /\ (job.pc # "idle" => job.rec # None)
    /\ {unclear, replays, faults, crashes} \subseteq Nat

\* A message reported as posted, to the receipt or to the agent, is in the
\* thread, and so is every message that moved the round. (Of records with
\* different texts: readback cannot tell two messages of one text apart.)
PostedIsDelivered ==
    \A r \in Records :
        (receipt[r] = "posted" \/ told[r] = "posted" \/ r \in committed)
        => delivered[r] > 0

Excuses == 1 + replays + faults + crashes

\* README.md:62-63, for what the writer does by itself: an ambiguous failure
\* never makes a second copy. One needs a replay, a file that could not be
\* written, or a restart.
ResendIsExplained ==
    \A r \in Records : delivered[r] <= Excuses

\* What a record looks like from outside. What a crash or a failed receipt makes
\* the daemon forget is forgotten in the job; a record that was swept while the
\* writer had it is gone when the writer is done with it.
Status(r) ==
    IF told[r] = "new" THEN "absent"
    ELSE IF receipt[r] # "none" THEN receipt[r]
    ELSE IF job.rec = r /\ job.pc \in {"readback", "record", "receipt"} THEN "sent"
    ELSE IF r \in outbox \cup batch \cup {job.rec} THEN "waiting" ELSE "gone"

Promise == INSTANCE Mailbox WITH
               status <- [r \in Records |-> Status(r)], copies <- delivered

\* The writer keeps what the mailbox promises, whatever fails: no second post
\* while it knows of a first, posted only what is there, and an acceptance
\* nobody knows of is settled by a human: a replay takes only the pending.
ImplementsMailbox == Promise!Spec

\* Every record gets its receipt, unless it grew too old or the daemon was told
\* to stop: whatever fails, the next tick or the next daemon takes it up.
EveryRecordAnswered ==
    \A r \in Records :
        r \in outbox ~> (receipt[r] # "none" \/ r \notin outbox \/ phase = "stopped")

(***************************************************************************)
(* The inductive invariant behind PostedIsDelivered and ImplementsMailbox. *)
(* A record the writer has in hand, or is about to take, has no receipt:   *)
(* so the receipt of a handled record is not written twice. What the       *)
(* writer is about to call posted is in the thread already.                *)
(***************************************************************************)

\* Readback finds a message by its text.
TextsDiffer == \A r, s \in Records : TextOf[r] = TextOf[s] => r = s

NewIsUntouched ==
    \A r \in Records : told[r] = "new" =>
        receipt[r] = "none" /\ r \notin outbox \cup batch \cup {job.rec}

HandUnanswered ==
    /\ job.pc = "idle" => job.rec = None
    /\ \A r \in Records : r \in batch \cup {job.rec} => receipt[r] = "none"
    /\ job.rec \notin batch

JobIsSound ==
    /\ job.pc = "delay" => job.attempt < Attempts
    /\ job.pc = "receipt" => job.status \in Statuses

DecisionIsTrue ==
    (job.pc = "record" \/ (job.pc = "receipt" /\ job.status = "posted"))
    => delivered[job.rec] > 0

IInv ==
    /\ TypeOK /\ NewIsUntouched /\ HandUnanswered /\ JobIsSound
    /\ TextsDiffer => PostedIsDelivered /\ DecisionIsTrue
=============================================================================
