---------------------------- MODULE OutboxProofs ----------------------------
(* Theorems about Outbox, for every value of its constants. What is called *)
(* posted is in the thread as long as no two records have the same text.   *)
EXTENDS Outbox, TLAPS

-----------------------------------------------------------------------------
(* The inductive invariant holds at first, and is kept by every step. *)

LEMMA InvInit == Init => IInv
  BY OutboxAssumption
     DEF Init, NoJob, IInv, TypeOK, Job, PCs, Statuses, PostedIsDelivered,
         NewIsUntouched, HandUnanswered, JobIsSound, DecisionIsTrue

\* What the two changes of the job leave alone.
LEMMA Concluded ==
  ASSUME job \in Job, NEW status \in Statuses, Conclude(status)
  PROVE  /\ job' \in Job /\ job'.rec = job.rec
         /\ job'.pc = "receipt" /\ job'.status = status
  BY DEF Job, PCs, Statuses, Conclude

LEMMA MovedOn ==
  ASSUME job \in Job, NEW pc \in PCs, NEW n \in 0..Attempts,
         job' = [job EXCEPT !.pc = pc, !.attempt = n]
  PROVE  /\ job' \in Job /\ job'.rec = job.rec /\ job'.pc = pc
         /\ job'.attempt = n /\ job'.status = job.status
  BY DEF Job, PCs, Statuses

LEMMA InvStep ==
  ASSUME IInv, [Next]_vars
  PROVE  IInv'
<1>. USE OutboxAssumption
     DEF IInv, TypeOK, PCs, Statuses, PostedIsDelivered, NewIsUntouched,
         HandUnanswered, JobIsSound, DecisionIsTrue, disk, memory, bounds, At, Running
\* The post commands.
<1>1. ASSUME NEW r \in Records, Write(r) PROVE IInv'
  BY <1>1 DEF Write
<1>2. ASSUME NEW r \in Records, Wait(r) PROVE IInv'
  BY <1>2 DEF Wait
\* DrainOutbox.
<1>3. CASE Drain
  BY <1>3 DEF Drain, Pending
<1>4. CASE HandlePost
  BY <1>4 DEF HandlePost, Job, Reject, Admit, AdmitFails, Begin, Fault
\* deliverPost and readbackPost.
<1>5. CASE Posted
  BY <1>5 DEF Posted, Job, Sent
<1>6. CASE Refused
  <2>1. CASE Conclude("pending")
    BY <1>6, <2>1, Concluded DEF Refused
  <2>2. CASE job' = [job EXCEPT !.pc = "delay"] /\ job.attempt # Attempts
    BY <1>6, <2>2 DEF Refused, Job
  <2>. QED
    BY <1>6, <2>1, <2>2 DEF Refused
<1>7. CASE Delay
  <2>1. CASE job' = [job EXCEPT !.pc = "readback"]
    BY <1>7, <2>1 DEF Delay, Job
  <2>2. CASE job' = [job EXCEPT !.pc = "post", !.attempt = @ + 1]
    <3>1. job.attempt \in 0..Attempts /\ job.attempt < Attempts
      BY <1>7 DEF Delay, Job
    <3>2. job.attempt + 1 \in 0..Attempts
      BY <3>1
    <3>3. job' = [job EXCEPT !.pc = "post", !.attempt = job.attempt + 1]
      BY <2>2
    <3>. QED
      BY <1>7, <3>2, <3>3, MovedOn DEF Delay
  <2>. QED
    BY <1>7, <2>1, <2>2 DEF Delay
<1>8. CASE Unclear
  BY <1>8 DEF Unclear, Job, Sent
<1>9. CASE Readback
  BY <1>9 DEF Readback, Job, InThread, TextsDiffer
<1>10. CASE ReadbackFails
  BY <1>10, Concluded DEF ReadbackFails, Fault
\* recordPost and writeReceipt.
<1>11. CASE Record
  <2>1. job.rec \in Records /\ job.pc = "record"
    BY <1>11 DEF Record, Job
  <2>2. /\ job' \in Job /\ job'.rec = job.rec
        /\ job'.pc = "receipt" /\ job'.status = "posted"
    BY <1>11, Concluded DEF Record
  <2>3. committed' \subseteq committed \cup {job.rec}
    BY <1>11 DEF Record
  <2>4. recent' \subseteq Keys
    BY <1>11, <2>1 DEF Record
  <2>5. UNCHANGED <<outbox, receipt, delivered, told, phase, batch, bounds>>
    BY <1>11 DEF Record
  <2>6. TypeOK' /\ NewIsUntouched' /\ HandUnanswered' /\ JobIsSound'
    BY <2>1, <2>2, <2>3, <2>4, <2>5
  <2>7. ASSUME TextsDiffer PROVE PostedIsDelivered' /\ DecisionIsTrue'
    <3>1. delivered[job.rec] > 0
      BY <2>1, <2>7
    <3>. QED
      BY <2>2, <2>3, <2>5, <2>7, <3>1
  <2>. QED
    BY <2>6, <2>7
<1>12. CASE RecordFails
  BY <1>12, Concluded DEF RecordFails, Fault
<1>13. CASE WriteReceipt
  BY <1>13 DEF WriteReceipt, Job, NoJob
<1>14. CASE WriteReceiptFails
  BY <1>14 DEF WriteReceiptFails, Job, NoJob, Fault
<1>15. CASE Expire
  BY <1>15 DEF Expire
\* Retry and Sweep.
<1>16. CASE Retry
  BY <1>16 DEF Retry, Without, Those
<1>17. CASE RetryFails
  BY <1>17 DEF RetryFails, Without, Those, Fault
<1>18. ASSUME NEW r \in Records, Sweep(r) PROVE IInv'
  BY <1>18 DEF Sweep, Without
\* The life of the daemon.
<1>19. CASE Stop
  BY <1>19 DEF Stop
<1>20. CASE Exit
  BY <1>20 DEF Exit
<1>21. CASE Crash
  BY <1>21 DEF Crash, Job, NoJob
<1>22. CASE Start
  BY <1>22 DEF Start
<1>23. CASE UNCHANGED vars
  BY <1>23 DEF vars
<1>. QED
  BY <1>1, <1>2, <1>3, <1>4, <1>5, <1>6, <1>7, <1>8, <1>9, <1>10, <1>11, <1>12, <1>13,
     <1>14, <1>15, <1>16, <1>17, <1>18, <1>19, <1>20, <1>21, <1>22, <1>23
     DEF Next, Writer

(* Every variable keeps its type. *)
THEOREM TypeCorrect == Spec => []TypeOK
<1>1. IInv => TypeOK
  BY DEF IInv
<1>. QED
  BY InvInit, InvStep, <1>1, PTL DEF Spec

(* What is called posted is in the thread, through refused and ambiguous   *)
(* posts, replays, failing files, stops and crashes.                       *)
THEOREM PostedIsInThread == ASSUME TextsDiffer PROVE Spec => []PostedIsDelivered
<1>1. IInv => PostedIsDelivered
  BY DEF IInv
<1>. QED
  BY InvInit, InvStep, <1>1, PTL DEF Spec

-----------------------------------------------------------------------------
(* The writer implements the mailbox. *)

\* What one step may do to one record, in the words of the mailbox.
Becomes(r, from, to) == Status(r) \in from /\ Status(r)' \in to

MoveOf(r) ==
    \/ Status(r)' = Status(r) /\ delivered'[r] = delivered[r]
    \/ Becomes(r, {"absent"}, {"waiting"}) /\ delivered'[r] = delivered[r]
    \/ /\ Becomes(r, {"waiting"}, {"sent"})
       /\ delivered'[r] \in {delivered[r], delivered[r] + 1}
    \/ /\ Becomes(r, {"sent"}, Statuses) /\ delivered'[r] = delivered[r]
       /\ TextsDiffer /\ Status(r)' = "posted" => delivered[r] > 0
    \/ /\ Becomes(r, {"sent", "pending"}, {"waiting"}) /\ delivered'[r] = delivered[r]
       /\ Excuses' > Excuses
    \/ /\ Becomes(r, {"waiting", "sent"} \cup Statuses, {"gone"})
       /\ delivered'[r] = delivered[r]

LEMMA StatusMoves ==
  ASSUME IInv, [Next]_vars, NEW r \in Records
  PROVE  MoveOf(r)
<1>. USE OutboxAssumption
     DEF IInv, TypeOK, PCs, Statuses, PostedIsDelivered, NewIsUntouched,
         HandUnanswered, JobIsSound, DecisionIsTrue, disk, memory, bounds, At, Running,
         Becomes, MoveOf, Status, Excuses
<1>1. ASSUME NEW s \in Records, Write(s) PROVE MoveOf(r)
  BY <1>1 DEF Write
<1>2. ASSUME NEW s \in Records, Wait(s) PROVE MoveOf(r)
  BY <1>2 DEF Wait
<1>3. CASE Drain
  BY <1>3 DEF Drain, Pending
<1>4. CASE HandlePost
  BY <1>4 DEF HandlePost, Reject, Admit, AdmitFails, Begin, Fault, Job
<1>5. CASE Posted
  <2>1. job \in Job /\ job' = [job EXCEPT !.pc = "record"] /\ job.pc = "post"
    BY <1>5 DEF Posted
  <2>2. job'.rec = job.rec /\ job'.pc = "record"
    BY <2>1 DEF Job
  <2>3. delivered' = [delivered EXCEPT ![job.rec] = @ + 1]
    BY <1>5 DEF Posted, Sent
  <2>4. UNCHANGED <<disk, told, batch>>
    BY <1>5 DEF Posted
  <2>5. CASE r = job.rec
    <3>1. told[r] # "new" /\ receipt[r] = "none"
      BY <2>5
    <3>2. Status(r) = "waiting"
      BY <2>1, <2>5, <3>1
    <3>3. told'[r] # "new" /\ receipt'[r] = "none"
      BY <2>4, <3>1
    <3>4. Status(r)' = "sent"
      BY <2>2, <2>5, <3>3
    <3>5. delivered'[r] \in {delivered[r], delivered[r] + 1}
      BY <2>3, <2>5
    <3>. QED
      BY <3>2, <3>4, <3>5 DEF MoveOf, Becomes
  <2>6. CASE r # job.rec
    BY <2>1, <2>2, <2>3, <2>4, <2>6
  <2>. QED
    BY <2>5, <2>6
<1>6. CASE Refused
  <2>1. job'.rec = job.rec /\ job.pc = "post" /\ job'.pc \in {"receipt", "delay"}
    <3>1. CASE Conclude("pending")
      BY <1>6, <3>1, Concluded DEF Refused
    <3>2. CASE job' = [job EXCEPT !.pc = "delay"]
      BY <1>6, <3>2 DEF Refused, Job
    <3>. QED
      BY <1>6, <3>1, <3>2 DEF Refused
  <2>2. UNCHANGED <<disk, told, batch, delivered>>
    BY <1>6 DEF Refused
  <2>3. CASE r = job.rec
    <3>1. told[r] # "new" /\ receipt[r] = "none" /\ Status(r) = "waiting"
      BY <2>1, <2>3
    <3>2. Status(r)' \in {"sent", "waiting"}
      BY <2>1, <2>2, <2>3, <3>1
    <3>. QED
      BY <2>2, <3>1, <3>2
  <2>4. CASE r # job.rec
    BY <2>1, <2>2, <2>4
  <2>. QED
    BY <2>3, <2>4
<1>7. CASE Delay
  BY <1>7 DEF Delay, Job
<1>8. CASE Unclear
  <2>1. job \in Job /\ job' = [job EXCEPT !.pc = "readback"] /\ job.pc = "post"
    BY <1>8 DEF Unclear
  <2>2. job'.rec = job.rec /\ job'.pc = "readback"
    BY <2>1 DEF Job
  <2>3. \/ delivered' = [delivered EXCEPT ![job.rec] = @ + 1]
        \/ delivered' = delivered
    BY <1>8 DEF Unclear, Sent
  <2>4. UNCHANGED <<disk, told, batch>>
    BY <1>8 DEF Unclear
  <2>5. CASE r = job.rec
    <3>1. told[r] # "new" /\ receipt[r] = "none"
      BY <2>5
    <3>2. Status(r) = "waiting"
      BY <2>1, <2>5, <3>1
    <3>3. told'[r] # "new" /\ receipt'[r] = "none"
      BY <2>4, <3>1
    <3>4. Status(r)' = "sent"
      BY <2>2, <2>5, <3>3
    <3>5. delivered'[r] \in {delivered[r], delivered[r] + 1}
      BY <2>3, <2>5
    <3>. QED
      BY <3>2, <3>4, <3>5 DEF MoveOf, Becomes
  <2>6. CASE r # job.rec
    BY <2>1, <2>2, <2>3, <2>4, <2>6
  <2>. QED
    BY <2>5, <2>6
<1>9. CASE Readback
  BY <1>9 DEF Readback, Job
<1>10. CASE ReadbackFails
  BY <1>10, Concluded DEF ReadbackFails
<1>11. CASE Record
  BY <1>11, Concluded DEF Record
<1>12. CASE RecordFails
  BY <1>12, Concluded DEF RecordFails
<1>13. CASE WriteReceipt
  BY <1>13 DEF WriteReceipt, Job, NoJob
<1>14. CASE WriteReceiptFails
  BY <1>14 DEF WriteReceiptFails, Job, NoJob, Fault
<1>15. CASE Expire
  BY <1>15 DEF Expire
<1>16. CASE Retry
  BY <1>16 DEF Retry, Without, Those
<1>17. CASE RetryFails
  BY <1>17 DEF RetryFails, Without, Those, Fault
<1>18. ASSUME NEW s \in Records, Sweep(s) PROVE MoveOf(r)
  BY <1>18 DEF Sweep, Without
<1>19. CASE Stop
  BY <1>19 DEF Stop
<1>20. CASE Exit
  BY <1>20 DEF Exit
<1>21. CASE Crash
  BY <1>21 DEF Crash, NoJob
<1>22. CASE Start
  BY <1>22 DEF Start
<1>23. CASE UNCHANGED vars
  BY <1>23 DEF vars
<1>. QED
  BY <1>1, <1>2, <1>3, <1>4, <1>5, <1>6, <1>7, <1>8, <1>9, <1>10, <1>11, <1>12, <1>13,
     <1>14, <1>15, <1>16, <1>17, <1>18, <1>19, <1>20, <1>21, <1>22, <1>23
     DEF Next, Writer

(* Nothing that was counted is forgotten. *)
LEMMA ExcusesCount == IInv => Excuses \in Nat
  BY DEF IInv, TypeOK, Excuses

LEMMA ExcusesStay ==
  ASSUME IInv, [Next]_vars
  PROVE  Excuses' >= Excuses
<1>. USE DEF bounds, disk, memory, Fault
<1>1. ASSUME NEW r \in Records, Write(r) \/ Wait(r) \/ Sweep(r)
      PROVE  UNCHANGED <<replays, faults, crashes>>
  BY <1>1 DEF Write, Wait, Sweep
<1>2. CASE Drain \/ Posted \/ Refused \/ Delay \/ Unclear \/ Readback \/ Record
           \/ WriteReceipt \/ Expire \/ Exit \/ Start \/ UNCHANGED vars
  <2>1. UNCHANGED <<replays, faults, crashes>>
    BY <1>2 DEF Drain, Posted, Refused, Delay, Unclear, Readback, Record,
                WriteReceipt, Expire, Exit, Start, vars
  <2>. QED
    BY <2>1, ExcusesCount DEF Excuses
<1>3. CASE HandlePost \/ ReadbackFails \/ RecordFails \/ WriteReceiptFails \/ RetryFails
  <2>1. faults' \in {faults, faults + 1} /\ UNCHANGED <<replays, crashes>>
    BY <1>3 DEF HandlePost, Reject, Admit, AdmitFails, ReadbackFails, RecordFails,
                WriteReceiptFails, RetryFails
  <2>. QED
    BY <2>1 DEF Excuses, IInv, TypeOK
<1>4. CASE Retry \/ Stop \/ Crash
  BY <1>4 DEF Retry, Stop, Crash, Excuses, IInv, TypeOK
<1>. QED
  BY <1>1, <1>2, <1>3, <1>4, ExcusesCount DEF Next, Writer, Excuses

(* A record that may still be posted has one more copy to its credit. *)
Unsent(r) == Status(r) \in {"absent", "waiting"}

CopiesExcused ==
    \A r \in Records :
        delivered[r] <= Excuses /\ (Unsent(r) => delivered[r] < Excuses)

(* A second copy takes a replay, a failing file or a restart. *)
THEOREM SecondCopyIsExcused == Spec => []ResendIsExplained
<1>1. Init => CopiesExcused
  <2>1. SUFFICES ASSUME Init, NEW r \in Records
                 PROVE  delivered[r] <= Excuses /\ delivered[r] < Excuses
    BY DEF CopiesExcused
  <2>2. Excuses = 1 /\ delivered[r] = 0
    BY <2>1 DEF Init, Excuses
  <2>. QED
    BY <2>2
<1>2. ASSUME IInv, IInv', CopiesExcused, [Next]_vars PROVE CopiesExcused'
  <2>1. SUFFICES ASSUME NEW r \in Records
                 PROVE  delivered'[r] <= Excuses' /\ (Unsent(r)' => delivered'[r] < Excuses')
    BY DEF CopiesExcused
  <2>2. MoveOf(r) /\ Excuses' >= Excuses /\ Excuses \in Nat
    BY <1>2, StatusMoves, ExcusesStay, ExcusesCount
  <2>3. Excuses' \in Nat /\ delivered[r] \in Nat /\ delivered'[r] \in Nat
    BY <1>2 DEF IInv, TypeOK, Excuses
  <2>4. delivered[r] <= Excuses /\ (Unsent(r) => delivered[r] < Excuses)
    BY <1>2 DEF CopiesExcused
  <2>. QED
    BY <2>2, <2>3, <2>4 DEF MoveOf, Becomes, Unsent, Statuses
<1>3. CopiesExcused => ResendIsExplained
  BY DEF CopiesExcused, ResendIsExplained
<1>. QED
  BY InvInit, InvStep, <1>1, <1>2, <1>3, PTL DEF Spec

(* Each step of the writer is a step of the mailbox. *)
LEMMA PromiseStep ==
  ASSUME TextsDiffer, IInv, [Next]_vars
  PROVE  Promise!Next
<1>1. SUFFICES ASSUME NEW r \in Records, MoveOf(r)
               PROVE  \/ Promise!Stay(r) \/ Promise!Write(r) \/ Promise!Send(r)
                      \/ Promise!Answer(r) \/ Promise!Forget(r)
                      \/ Promise!Replay(r) \/ Promise!Sweep(r)
  BY StatusMoves DEF Promise!Next
<1>. QED
  BY <1>1 DEF MoveOf, Becomes, Statuses, Promise!Stay, Promise!Write, Promise!Send,
              Promise!Answer, Promise!Forget, Promise!Replay, Promise!Sweep,
              Promise!Goes, Promise!Quiet, Promise!Answers

(* The detailed writer implements the abstract mailbox. *)
THEOREM MailboxImplemented == ASSUME TextsDiffer PROVE Spec => ImplementsMailbox
<1>1. Init => Promise!Init
  <2>1. Init => \A r \in Records : Status(r) = "absent"
    BY DEF Init, Status
  <2>2. Init => [r \in Records |-> Status(r)] = [r \in Records |-> "absent"]
    BY <2>1
  <2>. QED
    BY <2>2 DEF Init, Promise!Init
<1>. QED
  BY InvInit, InvStep, PromiseStep, <1>1, PTL DEF Spec, ImplementsMailbox, Promise!Spec
=============================================================================
