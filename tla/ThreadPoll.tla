----------------------------- MODULE ThreadPoll -----------------------------
(***************************************************************************)
(* The poll for replies Slack does not notify of (internal/threadpoll).    *)
(* For one thread: the cursor LastSeenTS, which the poll moves over what   *)
(* it admitted, and which the handlers of messages and the outbound writer *)
(* set to their own messages without asking what came before.              *)
(*                                                                         *)
(* The other feed is in Tailer, and what becomes of an admitted            *)
(* notification in Intake.                                                 *)
(***************************************************************************)
EXTENDS Integers

CONSTANTS
    MaxTS,         \* bound: messages in the thread
    MaxFaults      \* bound: commands and files that fail, crashes

ASSUME ThreadPollAssumption == MaxTS \in Nat \ {0} /\ MaxFaults \in Nat

Messages == 1..MaxTS

\* The timestamp of the thread itself is 0; a record of old has no cursor.
NoCursor == -1

VARIABLES
    posted,    \* outside: the last message of the thread
    cursor,    \* LastSeenTS, in memory and in the state file
    admitted,  \* messages in the inbox or settled
    settled,   \* messages in Seen
    hand,      \* the message a handler is at, or 0
    writer,    \* the daemon's own message whose record is under way, or 0
    poll,      \* what Poll is at
    jumped,    \* history: messages someone's cursor went over unadmitted
    faults

vars == <<posted, cursor, admitted, settled, hand, writer, poll, jumped, faults>>

Poll ==
    [pc : {"idle", "fetch", "admit", "save"}, since : NoCursor..MaxTS,
     snap : NoCursor..MaxTS, todo : SUBSET Messages, latest : NoCursor..MaxTS]

Idle == [pc |-> "idle", since |-> 0, snap |-> 0, todo |-> {}, latest |-> 0]

Init ==
    /\ posted = 0 /\ cursor \in {NoCursor, 0}
    /\ admitted = {} /\ settled = {} /\ hand = 0 /\ writer = 0
    /\ poll = Idle /\ jumped = {} /\ faults = 0

Fault == faults < MaxFaults /\ faults' = faults + 1

\* Somebody sets the cursor to a message of his own.
MoveTo(ts) ==
    /\ cursor' = ts
    /\ jumped' = jumped \cup (1..ts \ admitted)

-----------------------------------------------------------------------------
(* The thread, the handlers and the writer *)

Reply ==
    /\ posted < MaxTS
    /\ posted' = posted + 1
    /\ UNCHANGED <<cursor, admitted, settled, hand, writer, poll, jumped, faults>>

\* The writer posts for the owner: Slack does not notify him of that.
PostOwn ==
    /\ posted < MaxTS /\ writer = 0
    /\ posted' = posted + 1 /\ writer' = posted + 1
    /\ UNCHANGED <<cursor, admitted, settled, hand, poll, jumped, faults>>

\* A marker moves the cursor with the transition, anything else does not.
RecordPost ==
    /\ writer # 0 /\ writer' = 0
    /\ MoveTo(writer) \/ UNCHANGED <<cursor, jumped>>
    /\ UNCHANGED <<posted, admitted, settled, hand, poll, faults>>

\* Slack's log has the message, early or late, or never: Tailer.
Notify ==
    /\ \E m \in 1..posted \ admitted : admitted' = admitted \cup {m}
    /\ UNCHANGED <<posted, cursor, settled, hand, writer, poll, jumped, faults>>

Take ==
    /\ hand = 0 /\ \E m \in admitted \ settled : hand' = m
    /\ UNCHANGED <<posted, cursor, admitted, settled, writer, poll, jumped, faults>>

\* continueInWindow and progress, after what they do with the message.
Continue ==
    /\ hand # 0 /\ MoveTo(hand)
    /\ UNCHANGED <<posted, admitted, settled, hand, writer, poll, faults>>

Settle ==
    /\ hand # 0 /\ hand' = 0
    /\ settled' = settled \cup {hand}
    /\ UNCHANGED <<posted, cursor, admitted, writer, poll, jumped, faults>>

-----------------------------------------------------------------------------
(* Poll *)

\* Mutant: every poll starts from now.
StartFromNow ==
    /\ poll.pc = "idle"
    /\ poll' = [Idle EXCEPT !.pc = "fetch", !.since = posted, !.snap = cursor]
    /\ UNCHANGED <<posted, cursor, admitted, settled, hand, writer, jumped, faults>>

\* A thread without a cursor starts from now: what is older is left alone.
Start ==
    LET since == IF cursor = NoCursor THEN posted ELSE cursor IN
    /\ poll.pc = "idle"
    /\ poll' = [Idle EXCEPT !.pc = "fetch", !.since = since, !.snap = cursor]
    /\ jumped' = IF cursor = NoCursor THEN jumped \cup (1..posted \ admitted) ELSE jumped
    /\ UNCHANGED <<posted, cursor, admitted, settled, hand, writer, faults>>

Fetch ==
    /\ poll.pc = "fetch"
    /\ poll' = [poll EXCEPT !.pc = "admit", !.todo = (poll.since + 1)..posted,
                            !.latest = poll.since]
    /\ UNCHANGED <<posted, cursor, admitted, settled, hand, writer, jumped, faults>>

FetchFails ==
    /\ poll.pc = "fetch" /\ Fault
    /\ poll' = Idle
    /\ UNCHANGED <<posted, cursor, admitted, settled, hand, writer, jumped>>

IsNext(m) == m \in poll.todo /\ \A k \in poll.todo : m <= k

\* The oldest first; what is in Seen is passed over.
Admit ==
    /\ poll.pc = "admit"
    /\ \E m \in Messages :
          /\ IsNext(m)
          /\ admitted' = admitted \cup {m}
          /\ poll' = [poll EXCEPT !.todo = @ \ {m}, !.latest = m]
    /\ UNCHANGED <<posted, cursor, settled, hand, writer, jumped, faults>>

\* Mutant: the poll goes on with the next reply.
RefusedAndOn ==
    /\ poll.pc = "admit" /\ Fault
    /\ \E m \in Messages \ settled : IsNext(m) /\ poll' = [poll EXCEPT !.todo = @ \ {m}]
    /\ UNCHANGED <<posted, cursor, admitted, settled, hand, writer, jumped>>

\* The inbox is not written: the poll goes no further.
Refused ==
    /\ poll.pc = "admit" /\ Fault
    /\ \E m \in Messages \ settled : IsNext(m)
    /\ poll' = [poll EXCEPT !.pc = "save", !.todo = {}]
    /\ UNCHANGED <<posted, cursor, admitted, settled, hand, writer, jumped>>

Through ==
    /\ poll.pc = "admit" /\ poll.todo = {}
    /\ poll' = [poll EXCEPT !.pc = "save"]
    /\ UNCHANGED <<posted, cursor, admitted, settled, hand, writer, jumped, faults>>

\* Nothing is written when nothing was read; what others wrote is written over.
Save ==
    /\ poll.pc = "save"
    /\ cursor' = IF poll.latest # poll.snap THEN poll.latest ELSE cursor
    /\ poll' = Idle
    /\ UNCHANGED <<posted, admitted, settled, hand, writer, jumped, faults>>

SaveFails ==
    /\ poll.pc = "save" /\ poll.latest # poll.snap /\ Fault
    /\ poll' = Idle
    /\ UNCHANGED <<posted, cursor, admitted, settled, hand, writer, jumped>>

\* The record and the inbox are on disk, the rest is not.
Crash ==
    /\ Fault
    /\ hand' = 0 /\ writer' = 0 /\ poll' = Idle
    /\ UNCHANGED <<posted, cursor, admitted, settled, jumped>>

PollStep ==
    Start \/ Fetch \/ FetchFails \/ Admit \/ Refused \/ Through \/ Save \/ SaveFails

Next ==
    \/ Reply \/ PostOwn \/ RecordPost \/ Notify \/ Take \/ Continue \/ Settle
    \/ PollStep \/ Crash

Spec == Init /\ [][Next]_vars

\* Fairness: the poll's ticker goes on while the thread is within its window.
FairSpec == Spec /\ WF_vars(PollStep)

-----------------------------------------------------------------------------
(* Properties *)

\* The types of the variables; what the poll has yet to admit is newer than what
\* it admitted. (Not among the properties of the run.)
TypeOK ==
    /\ poll \in Poll /\ \A m \in poll.todo : m > poll.latest
    /\ posted \in 0..MaxTS /\ cursor \in NoCursor..MaxTS
    /\ settled \subseteq admitted /\ admitted \subseteq Messages /\ jumped \subseteq Messages
    /\ hand \in 0..MaxTS /\ writer \in 0..MaxTS /\ faults \in Nat

\* "the refused reply must stay ahead of the cursor" (threadpoll_test.go:133):
\* the poll moves the cursor over replies that are in the inbox, whatever is
\* admitted, settled or refused while it is at it.
PollPassesAdmitted ==
    [][(poll.pc = "save" /\ poll' # poll /\ cursor' # cursor)
       => (poll.since + 1)..cursor' \subseteq admitted]_vars

\* A reply nobody is notified of is admitted by a poll in the end, after
\* failures and crashes as well, unless another message's handler or the
\* daemon's own post set the cursor past it.
EveryReplyAdmitted ==
    \A m \in Messages : posted >= m ~> m \in admitted \cup jumped
=============================================================================
