---------------------------- MODULE IntakeProofs ----------------------------
(* Theorems about Intake, for every value of its constants. *)
EXTENDS Intake, SequenceTheorems, TLAPS

(* Constants and helpers *)

LEMMA ItemFacts ==
    /\ NoItem \notin Items
    /\ \A it \in Items : it.id \in Ids /\ it.replay \in BOOLEAN
    /\ \A m \in Ids, b \in BOOLEAN : [id |-> m, replay |-> b] \in Items
  BY IntakeAssumption DEF Items, IntakeAssumption

LEMMA IdleType == Idle \in Hand
  BY IntakeAssumption DEF Idle, Hand, PCs, Acts, IntakeAssumption

\* A record of Hand whose step needs an item has one.
HasItem(r) == r.pc # "idle" => r.item \in Items

\* What a handler turns to is well typed and has an item in hand.
LEMMA ThroughType ==
  ASSUME NEW r \in Hand, r.pc # "idle", HasItem(r)
  PROVE  Through(r) \in Hand /\ HasItem(Through(r))
<1>1. CASE r.own
  BY <1>1 DEF Through, Hand, HasItem, PCs
<1>2. CASE ~r.own /\ r.todo = <<>>
  BY <1>2, IdleType DEF Through, HasItem, Idle
<1>3. CASE ~r.own /\ r.todo # <<>>
  <2>1. r.todo \in Seq(Items)
    BY DEF Hand
  <2>2. Head(r.todo) \in Items /\ Tail(r.todo) \in Seq(Items)
    BY <2>1, <1>3
  <2>3. Through(r) = [pc |-> "check", item |-> Head(r.todo), attempt |-> 0,
                      act |-> "none", own |-> FALSE, todo |-> Tail(r.todo)]
    BY <1>3 DEF Through, Idle
  <2>4. 0 \in 0..Attempts
    BY IntakeAssumption DEF IntakeAssumption
  <2>. QED
    BY <2>2, <2>3, <2>4 DEF Hand, HasItem, PCs, Acts
<1>. QED
  BY <1>1, <1>2, <1>3

\* The settled ids stay a bounded sequence of ids.
LEMMA RememberedType ==
  ASSUME NEW m \in Ids, seen \in Seq(Ids), Len(seen) <= SeenCapacity
  PROVE  Remembered(m) \in Seq(Ids) /\ Len(Remembered(m)) <= SeenCapacity
<1>1. /\ Append(seen, m) \in Seq(Ids)
      /\ Len(Append(seen, m)) = Len(seen) + 1
  OBVIOUS
<1>2. /\ Tail(Append(seen, m)) \in Seq(Ids)
      /\ Len(Tail(Append(seen, m))) = Len(seen)
  BY <1>1
<1>. QED
  BY <1>1, <1>2, IntakeAssumption DEF Remembered, IntakeAssumption
-----------------------------------------------------------------------------
(* Type correctness: first what a step leaves in a handler's record. *)

LEMMA HeldItem ==
  ASSUME HandOK, NEW h \in Handlers
  PROVE  /\ hand[h] \in Hand
         /\ HasItem(hand[h])
         /\ hand[h].pc # "idle" => Id(h) \in Ids
<1>1. hand[h] \in Hand
  BY DEF HandOK
<1>2. hand[h].item \in Items \cup {NoItem}
  BY <1>1 DEF Hand
<1>3. HasItem(hand[h])
  BY <1>2 DEF HandOK, HasItem
<1>. QED
  BY <1>1, <1>3, ItemFacts DEF HasItem, Id

\* A handler whose record is replaced by one that is well typed.
LEMMA HandTyped ==
  ASSUME HandOK, NEW h \in Handlers, NEW r \in Hand, HasItem(r),
         hand' = [hand EXCEPT ![h] = r]
  PROVE  HandOK'
<1>1. hand' \in [Handlers -> Hand]
  BY DEF HandOK
<1>2. ASSUME NEW k \in Handlers, hand'[k].pc # "idle"
      PROVE  hand'[k].item # NoItem
  <2>1. CASE k = h
    <3>1. hand'[k] = r
      BY <2>1 DEF HandOK
    <3>2. r.item \in Items
      BY <3>1, <1>2 DEF HasItem
    <3>. QED
      BY <3>1, <3>2, ItemFacts
  <2>2. CASE k # h
    <3>1. hand'[k] = hand[k]
      BY <2>2 DEF HandOK
    <3>. QED
      BY <3>1, <1>2 DEF HandOK
  <2>. QED
    BY <2>1, <2>2
<1>. QED
  BY <1>1, <1>2 DEF HandOK

LEMMA GotoTyped ==
  ASSUME HandOK, NEW h \in Handlers, ~Busy(h, {"idle"}),
         NEW pc \in PCs, Goto(h, pc)
  PROVE  HandOK'
<1> DEFINE r == [hand[h] EXCEPT !.pc = pc]
<1>1. hand[h] \in Hand /\ hand[h].item \in Items
  BY HeldItem DEF Busy, HasItem
<1>2. r \in Hand /\ r.item = hand[h].item
  BY <1>1 DEF Hand
<1>3. hand' = [hand EXCEPT ![h] = r]
  BY DEF Goto
<1>. HIDE DEF r
<1>. QED
  BY <1>1, <1>2, <1>3, HandTyped DEF HasItem

LEMMA DecideTyped ==
  ASSUME HandOK, NEW h \in Handlers, ~Busy(h, {"idle"}),
         NEW act \in Acts, NEW pc \in PCs, Decide(h, act, pc)
  PROVE  HandOK'
<1> DEFINE r == [hand[h] EXCEPT !.act = act, !.pc = pc]
<1>1. hand[h] \in Hand /\ hand[h].item \in Items
  BY HeldItem DEF Busy, HasItem
<1>2. r \in Hand /\ r.item = hand[h].item
  BY <1>1 DEF Hand
<1>3. hand' = [hand EXCEPT ![h] = r]
  BY DEF Decide, HandOK
<1>. HIDE DEF r
<1>. QED
  BY <1>1, <1>2, <1>3, HandTyped DEF HasItem

LEMMA FinishTyped ==
  ASSUME HandOK, NEW h \in Handlers, ~Busy(h, {"idle"}), Finish(h)
  PROVE  HandOK'
<1>1. hand[h] \in Hand /\ HasItem(hand[h]) /\ hand[h].pc # "idle"
  BY HeldItem DEF Busy
<1>2. Through(hand[h]) \in Hand /\ HasItem(Through(hand[h]))
  BY <1>1, ThroughType
<1>. QED
  BY <1>2, HandTyped DEF Finish

LEMMA TypeInit == Init => TypeOK
<1> SUFFICES ASSUME Init PROVE TypeOK
  OBVIOUS
<1>1. StateOK
  BY IntakeAssumption DEF Init, StateOK, IntakeAssumption, Producers, Settled
<1>2. HandOK
  BY IdleType DEF Init, HandOK, Idle
<1>. QED
  BY <1>1, <1>2 DEF TypeOK

\* The steps of the producers, which leave the handlers alone.
LEMMA ProducerType ==
  ASSUME TypeOK,
         \/ \E f \in Feeds, m \in Ids : Admit(f, m)
         \/ Produce \/ Signal
  PROVE  TypeOK'
<1> USE DEF disk, history, shared, producers, bounds
<1>1. ASSUME NEW f \in Feeds, NEW m \in Ids, Admit(f, m)
      PROVE  StateOK' /\ HandOK'
  <2>1. [id |-> m, replay |-> FALSE] \in Items
    BY ItemFacts
  <2>2. copies' \in [Ids -> Nat]
    BY <1>1 DEF TypeOK, StateOK, Admit
  <2>3. inbox' \in [Ids -> {"none", "notification", "replay"}] /\ admitted' \subseteq Ids
    BY <1>1 DEF TypeOK, StateOK, Admit, AddToInbox, Source
  <2>4. sending' \in [Producers -> Items \cup {NoItem}]
    BY <1>1, <2>1 DEF TypeOK, StateOK, Admit, Producers
  <2>. QED
    BY <1>1, <2>2, <2>3, <2>4 DEF TypeOK, StateOK, HandOK, Admit
<1>2. ASSUME NEW p \in Producers, Send(p)
      PROVE  StateOK' /\ HandOK'
  BY <1>2, ItemFacts
     DEF TypeOK, StateOK, HandOK, Send
<1>3. ASSUME RecoverPeek
      PROVE  StateOK' /\ HandOK'
  BY <1>3
     DEF TypeOK, StateOK, HandOK, RecoverPeek, Recorded
<1>4. ASSUME RecoverPeekFails
      PROVE  StateOK' /\ HandOK'
  BY <1>4
     DEF TypeOK, StateOK, HandOK, RecoverPeekFails, FileFault
<1>5. ASSUME RecoverNext
      PROVE  StateOK' /\ HandOK'
  <2> PICK it \in recover : \/ RecoverSettled(it) \/ RecoverSettledFails(it)
                         \/ RecoverEnqueue(it) \/ RecoverEnqueueFails(it)
    BY <1>5 DEF RecoverNext
  <2>1. it \in Items /\ it.id \in Ids
    BY ItemFacts DEF TypeOK, StateOK
  <2>2. CASE RecoverSettled(it)
    BY <2>1, <2>2 DEF TypeOK, StateOK, HandOK, RecoverSettled
  <2>3. CASE RecoverSettledFails(it)
    BY <2>1, <2>3 DEF TypeOK, StateOK, HandOK, RecoverSettledFails, FileFault
  <2>4. CASE RecoverEnqueue(it)
    <3>1. inbox' \in [Ids -> {"none", "notification", "replay"}] /\ admitted' \subseteq Ids
      BY <2>1, <2>4 DEF TypeOK, StateOK, RecoverEnqueue, AddToInbox, Source
    <3>2. sending' \in [Producers -> Items \cup {NoItem}]
      BY <2>1, <2>4, IntakeAssumption DEF TypeOK, StateOK, RecoverEnqueue, Producers, IntakeAssumption
    <3>. QED
      BY <2>4, <3>1, <3>2 DEF TypeOK, StateOK, HandOK, RecoverEnqueue
  <2>5. CASE RecoverEnqueueFails(it)
    BY <2>1, <2>5 DEF TypeOK, StateOK, HandOK, RecoverEnqueueFails, FileFault
  <2>. QED
    BY <2>2, <2>3, <2>4, <2>5
<1>6. ASSUME RecoverDone
      PROVE  StateOK' /\ HandOK'
  BY <1>6
     DEF TypeOK, StateOK, HandOK, RecoverDone
<1>7. ASSUME ReplayNext
      PROVE  StateOK' /\ HandOK'
  <2> PICK m \in replays : ReplayBusy(m) \/ ReplayEnqueue(m) \/ ReplayEnqueueFails(m)
    BY <1>7 DEF ReplayNext
  <2>1. m \in Ids /\ [id |-> m, replay |-> TRUE] \in Items
    BY ItemFacts DEF TypeOK, StateOK
  <2>2. UNCHANGED <<phase, recover, hand>>
    BY <1>7 DEF ReplayNext
  <2>3. CASE ReplayBusy(m)
    BY <2>2, <2>3 DEF TypeOK, StateOK, HandOK, ReplayBusy
  <2>4. CASE ReplayEnqueue(m)
    <3>1. inbox' \in [Ids -> {"none", "notification", "replay"}] /\ admitted' \subseteq Ids
      BY <2>1, <2>4 DEF TypeOK, StateOK, ReplayEnqueue, AddToInbox, Source
    <3>2. sending' \in [Producers -> Items \cup {NoItem}]
      BY <2>1, <2>4 DEF TypeOK, StateOK, ReplayEnqueue, Producers
    <3>. QED
      BY <2>1, <2>2, <2>4, <3>1, <3>2 DEF TypeOK, StateOK, HandOK, ReplayEnqueue
  <2>5. CASE ReplayEnqueueFails(m)
    BY <2>2, <2>5 DEF TypeOK, StateOK, HandOK, ReplayEnqueueFails, FileFault
  <2>. QED
    BY <2>3, <2>4, <2>5
<1>8. ASSUME Signal
      PROVE  StateOK' /\ HandOK'
  BY <1>8
     DEF TypeOK, StateOK, HandOK, Signal
<1>. QED
  BY <1>1, <1>2, <1>3, <1>4, <1>5, <1>6, <1>7, <1>8 DEF Produce, TypeOK

\* The steps of a handler.
LEMMA HandlerType ==
  ASSUME TypeOK, NEW h \in Handlers, HandleStep(h)
  PROVE  TypeOK'
<1> USE DEF disk, history, shared, producers, bounds
<1>0. StateOK /\ HandOK
  BY DEF TypeOK
<1>1. ASSUME Answer(h) PROVE StateOK' /\ HandOK'
  <2>1. ~Busy(h, {"idle"})
    BY <1>1 DEF Answer, Busy
  <2>2. Id(h) \in Ids /\ hand[h].item \in Items
    BY <1>0, <2>1, HeldItem DEF Busy, HasItem
  <2>3. StateOK'
    BY <1>0, <1>1, <2>2, ItemFacts DEF StateOK, Answer
  <2>4. HandOK'
    BY <1>0, <1>1, <2>1, DecideTyped DEF Answer, Acts, PCs
  <2>. QED
    BY <2>3, <2>4
<1>2. ASSUME Drop(h) PROVE StateOK' /\ HandOK'
  <2>1. ~Busy(h, {"idle"})
    BY <1>2 DEF Drop, Busy
  <2>2. Id(h) \in Ids /\ hand[h].item \in Items
    BY <1>0, <2>1, HeldItem DEF Busy, HasItem
  <2>3. StateOK'
    BY <1>0, <1>2, <2>2, ItemFacts DEF StateOK, Drop
  <2>4. HandOK'
    BY <1>0, <1>2, <2>1, DecideTyped DEF Drop, Acts, PCs
  <2>. QED
    BY <2>3, <2>4
<1>3. ASSUME EscalationFails(h) PROVE StateOK' /\ HandOK'
  <2>1. ~Busy(h, {"idle"})
    BY <1>3 DEF EscalationFails, Busy
  <2>2. Id(h) \in Ids /\ hand[h].item \in Items
    BY <1>0, <2>1, HeldItem DEF Busy, HasItem
  <2>3. StateOK'
    BY <1>0, <1>3, <2>2, ItemFacts DEF StateOK, EscalationFails
  <2>4. HandOK'
    BY <1>0, <1>3, <2>1, DecideTyped DEF EscalationFails, Acts, PCs
  <2>. QED
    BY <2>3, <2>4
<1>4. ASSUME Bury(h) PROVE StateOK' /\ HandOK'
  <2>1. ~Busy(h, {"idle"})
    BY <1>4 DEF Bury, Busy
  <2>2. Id(h) \in Ids /\ hand[h].item \in Items
    BY <1>0, <2>1, HeldItem DEF Busy, HasItem
  <2>3. StateOK'
    BY <1>0, <1>4, <2>2, ItemFacts DEF StateOK, Bury
  <2>4. HandOK'
    BY <1>0, <1>4, <2>1, GotoTyped DEF Bury, PCs
  <2>. QED
    BY <2>3, <2>4
<1>5. ASSUME Commit(h) PROVE StateOK' /\ HandOK'
  <2>1. ~Busy(h, {"idle"})
    BY <1>5 DEF Commit, Busy
  <2>2. Id(h) \in Ids /\ hand[h].item \in Items
    BY <1>0, <2>1, HeldItem DEF Busy, HasItem
  <2>3. StateOK'
    BY <1>0, <1>5, <2>2, RememberedType, IntakeAssumption, ItemFacts DEF StateOK, Commit, IntakeAssumption
  <2>4. HandOK'
    BY <1>0, <1>5, <2>1, GotoTyped DEF Commit, PCs
  <2>. QED
    BY <2>3, <2>4
<1>6. ASSUME CommitFails(h) PROVE StateOK' /\ HandOK'
  <2>1. ~Busy(h, {"idle"})
    BY <1>6 DEF CommitFails, Busy
  <2>2. Id(h) \in Ids /\ hand[h].item \in Items
    BY <1>0, <2>1, HeldItem DEF Busy, HasItem
  <2>3. StateOK'
    BY <1>0, <1>6, <2>2, ItemFacts DEF StateOK, CommitFails, FileFault
  <2>4. HandOK'
    BY <1>0, <1>6, <2>1, DecideTyped DEF CommitFails, Acts, PCs
  <2>. QED
    BY <2>3, <2>4
<1>7. ASSUME Forget(h) PROVE StateOK' /\ HandOK'
  <2>1. ~Busy(h, {"idle"})
    BY <1>7 DEF Forget, Busy
  <2>2. Id(h) \in Ids /\ hand[h].item \in Items
    BY <1>0, <2>1, HeldItem DEF Busy, HasItem
  <2>3. StateOK'
    BY <1>0, <1>7, <2>2, ItemFacts DEF StateOK, Forget
  <2>4. HandOK'
    BY <1>0, <1>7, <2>1, GotoTyped DEF Forget, PCs
  <2>. QED
    BY <2>3, <2>4
<1>8. ASSUME ForgetFails(h) PROVE StateOK' /\ HandOK'
  <2>1. ~Busy(h, {"idle"})
    BY <1>8 DEF ForgetFails, Busy
  <2>2. Id(h) \in Ids /\ hand[h].item \in Items
    BY <1>0, <2>1, HeldItem DEF Busy, HasItem
  <2>3. StateOK'
    BY <1>0, <1>8, <2>2, ItemFacts DEF StateOK, ForgetFails, FileFault
  <2>4. HandOK'
    BY <1>0, <1>8, <2>1, GotoTyped DEF ForgetFails, PCs
  <2>. QED
    BY <2>3, <2>4
<1>9. ASSUME StartTriage(h) PROVE StateOK' /\ HandOK'
  <2>1. ~Busy(h, {"idle"})
    BY <1>9 DEF StartTriage, Busy
  <2>2. Id(h) \in Ids /\ hand[h].item \in Items
    BY <1>0, <2>1, HeldItem DEF Busy, HasItem
  <2>3. StateOK'
    BY <1>0, <1>9, <2>2, ItemFacts DEF StateOK, StartTriage
  <2>4. HandOK'
    BY <1>0, <1>9, <2>1, GotoTyped DEF StartTriage, PCs
  <2>. QED
    BY <2>3, <2>4
<1>10. ASSUME Defer(h) PROVE StateOK' /\ HandOK'
  <2>1. ~Busy(h, {"idle"})
    BY <1>10 DEF Defer, Busy
  <2>2. Id(h) \in Ids /\ hand[h].item \in Items
    BY <1>0, <2>1, HeldItem DEF Busy, HasItem
  <2>3. StateOK'
    BY <1>0, <1>10, <2>2, IntakeAssumption, ItemFacts DEF StateOK, Defer, IntakeAssumption
  <2>4. HandOK'
    BY <1>0, <1>10, <2>1, FinishTyped DEF Defer, PCs
  <2>. QED
    BY <2>3, <2>4
<1>11. ASSUME BuryFails(h) PROVE StateOK' /\ HandOK'
  <2>1. ~Busy(h, {"idle"})
    BY <1>11 DEF BuryFails, Busy
  <2>2. Id(h) \in Ids /\ hand[h].item \in Items
    BY <1>0, <2>1, HeldItem DEF Busy, HasItem
  <2>3. StateOK'
    BY <1>0, <1>11, <2>2, ItemFacts DEF StateOK, BuryFails, FileFault
  <2>4. HandOK'
    BY <1>0, <1>11, <2>1, FinishTyped DEF BuryFails, PCs
  <2>. QED
    BY <2>3, <2>4
<1>12. ASSUME Unbury(h) PROVE StateOK' /\ HandOK'
  <2>1. ~Busy(h, {"idle"})
    BY <1>12 DEF Unbury, Busy
  <2>2. Id(h) \in Ids /\ hand[h].item \in Items
    BY <1>0, <2>1, HeldItem DEF Busy, HasItem
  <2>3. StateOK'
    BY <1>0, <1>12, <2>2, ItemFacts DEF StateOK, Unbury
  <2>4. HandOK'
    BY <1>0, <1>12, <2>1, FinishTyped DEF Unbury, PCs
  <2>. QED
    BY <2>3, <2>4
<1>13. ASSUME UnburyFails(h) PROVE StateOK' /\ HandOK'
  <2>1. ~Busy(h, {"idle"})
    BY <1>13 DEF UnburyFails, Busy
  <2>2. Id(h) \in Ids /\ hand[h].item \in Items
    BY <1>0, <2>1, HeldItem DEF Busy, HasItem
  <2>3. StateOK'
    BY <1>0, <1>13, <2>2, ItemFacts DEF StateOK, UnburyFails, FileFault
  <2>4. HandOK'
    BY <1>0, <1>13, <2>1, FinishTyped DEF UnburyFails, PCs
  <2>. QED
    BY <2>3, <2>4
<1>14. ASSUME Release(h) PROVE StateOK' /\ HandOK'
  <2>1. ~Busy(h, {"idle"})
    BY <1>14 DEF Release, Busy
  <2>2. Id(h) \in Ids /\ hand[h].item \in Items
    BY <1>0, <2>1, HeldItem DEF Busy, HasItem
  <2>3. StateOK'
    BY <1>0, <1>14, <2>2, ItemFacts DEF StateOK, Release, Released
  <2>4. HandOK'
    BY <1>0, <1>14, <2>1, GotoTyped, FinishTyped DEF Release, PCs
  <2>. QED
    BY <2>3, <2>4
<1>15. ASSUME Check(h) PROVE StateOK' /\ HandOK'
  <2>1. ~Busy(h, {"idle"})
    BY <1>15 DEF Check, Busy
  <2>2. StateOK'
    BY <1>0, <1>15 DEF StateOK, Check
  <2>3. CASE Decide(h, "stale", "forget")
    BY <1>0, <2>1, <2>2, <2>3, DecideTyped DEF Acts, PCs
  <2>4. CASE hand' = [hand EXCEPT ![h].pc = "run", ![h].attempt = 1]
    <3> DEFINE r == [hand[h] EXCEPT !.pc = "run", !.attempt = 1]
    <3>1. hand[h] \in Hand /\ hand[h].item \in Items
      BY <1>0, <2>1, HeldItem DEF Busy, HasItem
    <3>2. 1 \in 0..Attempts
      BY IntakeAssumption DEF IntakeAssumption
    <3>3. r \in Hand /\ r.item = hand[h].item
      BY <3>1, <3>2 DEF Hand, PCs
    <3>4. hand' = [hand EXCEPT ![h] = r]
      BY <1>0, <2>4 DEF HandOK
    <3> HIDE DEF r
    <3>. QED
      BY <1>0, <2>2, <3>1, <3>3, <3>4, HandTyped DEF HasItem
  <2>. QED
    BY <1>15, <2>2, <2>3, <2>4 DEF Check
<1>16. ASSUME AttemptFails(h) PROVE StateOK' /\ HandOK'
  <2>1. ~Busy(h, {"idle"})
    BY <1>16 DEF AttemptFails, Busy
  <2>2. StateOK'
    BY <1>0, <1>16 DEF StateOK, AttemptFails, Released
  <2>3. CASE Decide(h, "error", "bury")
    BY <1>0, <2>1, <2>2, <2>3, DecideTyped DEF Acts, PCs
  <2>4. CASE /\ hand[h].attempt < Attempts
              /\ hand' = [hand EXCEPT ![h].attempt = @ + 1, ![h].pc = "run"]
    <3> DEFINE r == [hand[h] EXCEPT !.attempt = hand[h].attempt + 1, !.pc = "run"]
    <3>1. hand[h] \in Hand /\ hand[h].item \in Items
      BY <1>0, <2>1, HeldItem DEF Busy, HasItem
    <3>2. hand[h].attempt + 1 \in 0..Attempts
      BY <2>4, <3>1, IntakeAssumption DEF Hand, IntakeAssumption
    <3>3. r \in Hand /\ r.item = hand[h].item
      BY <3>1, <3>2 DEF Hand, PCs
    <3>4. hand' = [hand EXCEPT ![h] = r]
      BY <1>0, <2>4 DEF HandOK
    <3> HIDE DEF r
    <3>. QED
      BY <1>0, <2>2, <3>1, <3>3, <3>4, HandTyped DEF HasItem
  <2>. QED
    BY <1>16, <2>2, <2>3, <2>4 DEF AttemptFails
<1>17. ASSUME Wake(h) PROVE StateOK' /\ HandOK'
  <2>1. hand[h].pc = "wake"
    BY <1>17 DEF Wake, Busy
  <2>2. Id(h) \in Ids /\ hand[h] \in Hand /\ hand[h].item \in Items
    BY <1>0, <2>1, HeldItem DEF HasItem
  <2> DEFINE waited == deferred[RootOf[Id(h)]]
             r == [hand[h] EXCEPT !.own = FALSE, !.todo = waited]
  <2>3. waited \in Seq(Items)
    BY <1>0, <2>2, IntakeAssumption DEF StateOK, IntakeAssumption
  <2>4. r \in Hand /\ HasItem(r) /\ r.pc = "wake"
    BY <2>1, <2>2, <2>3 DEF Hand, HasItem
  <2>5. StateOK'
    BY <1>0, <1>17, <2>2, IntakeAssumption DEF StateOK, Wake, IntakeAssumption
  <2>6. hand' = [hand EXCEPT ![h] = Through(r)]
    BY <1>17 DEF Wake
  <2> HIDE DEF r
  <2>7. Through(r) \in Hand /\ HasItem(Through(r))
    BY <2>4, ThroughType
  <2>. QED
    BY <1>0, <2>5, <2>6, <2>7, HandTyped
<1>18. ASSUME NEW g \in Goroutines, SpawnTriage(h, g) PROVE StateOK' /\ HandOK'
  <2>1. h # g /\ g \in Handlers /\ hand[h].pc = "start"
    BY <1>18 DEF SpawnTriage, Busy, Handlers
  <2>2. Id(h) \in Ids /\ hand[h] \in Hand /\ HasItem(hand[h]) /\ hand[h].item \in Items
    BY <1>0, <2>1, HeldItem DEF HasItem
  <2>3. StateOK'
    BY <1>0, <1>18, <2>2, IntakeAssumption DEF StateOK, SpawnTriage, IntakeAssumption
  <2>4. Through(hand[h]) \in Hand /\ HasItem(Through(hand[h]))
    BY <2>1, <2>2, ThroughType
  <2> DEFINE r == [Idle EXCEPT !.pc = "triage", !.item = hand[h].item, !.own = TRUE]
  <2>5. r \in Hand /\ HasItem(r)
    BY <2>2, IdleType DEF Hand, HasItem, PCs
  <2>6. hand' = [hand EXCEPT ![h] = Through(hand[h]), ![g] = r]
    BY <1>18 DEF SpawnTriage
  <2> HIDE DEF r
  <2>7. hand' \in [Handlers -> Hand]
    BY <1>0, <2>1, <2>4, <2>5, <2>6 DEF HandOK
  <2>8. ASSUME NEW k \in Handlers, hand'[k].pc # "idle" PROVE hand'[k].item # NoItem
    <3>1. CASE k = g
      BY <1>0, <2>5, <2>6, <2>8, <3>1, ItemFacts DEF HandOK, HasItem
    <3>2. CASE k = h
      BY <1>0, <2>1, <2>4, <2>6, <2>8, <3>2, ItemFacts DEF HandOK, HasItem
    <3>3. CASE k # h /\ k # g
      BY <1>0, <2>6, <2>8, <3>3 DEF HandOK
    <3>. QED
      BY <3>1, <3>2, <3>3
  <2>. QED
    BY <2>3, <2>7, <2>8 DEF HandOK
<1>. QED
  BY <1>1, <1>2, <1>3, <1>4, <1>5, <1>6, <1>7, <1>8, <1>9, <1>10, <1>11, <1>12,
     <1>13, <1>14, <1>15, <1>16, <1>17, <1>18 DEF HandleStep, TypeOK

LEMMA TypeStep == TypeOK /\ [Next]_vars => TypeOK'
<1> SUFFICES ASSUME TypeOK, [Next]_vars PROVE TypeOK'
  OBVIOUS
<1>1. CASE Take
  <2>1. hand[Worker].pc = "idle" /\ Worker \in Handlers
    BY <1>1 DEF Take, Busy, Handlers
  <2>2. queue # <<>> /\ queue \in Seq(Items)
    BY <1>1 DEF Take, TypeOK, StateOK
  <2>3. Head(queue) \in Items /\ Tail(queue) \in Seq(Items)
    BY <2>2
  <2>4. StateOK'
    BY <1>1, <2>3 DEF Take, TypeOK, StateOK, disk, history, producers, bounds
  <2>5. hand[Worker] \in Hand
    BY <2>1, HeldItem DEF TypeOK
  <2> DEFINE r == [hand[Worker] EXCEPT !.pc = "check", !.item = Head(queue)]
  <2>6. r \in Hand /\ HasItem(r)
    BY <2>3, <2>5 DEF Hand, HasItem, PCs
  <2>7. hand' = [hand EXCEPT ![Worker] = r]
    BY <1>1, <2>1 DEF Take, TypeOK, HandOK
  <2> HIDE DEF r
  <2>. QED
    BY <2>1, <2>4, <2>6, <2>7, HandTyped DEF TypeOK
<1>2. CASE Crash
  <2>1. StateOK'
    BY <1>2 DEF TypeOK, StateOK, Crash, disk, history
  <2>2. HandOK'
    BY <1>2, IdleType DEF HandOK, Crash, Idle
  <2>. QED
    BY <2>1, <2>2 DEF TypeOK
<1>3. CASE UNCHANGED vars
  BY <1>3 DEF TypeOK, StateOK, HandOK, vars, disk, history, shared, producers, bounds
<1>. QED
  BY <1>1, <1>2, <1>3, ProducerType, HandlerType DEF Next

\* TypeOK is an invariant of every instance of Intake: the fields keep their
\* types and the settled ids never outgrow their capacity (state.CommitSeen).
THEOREM TypeCorrect == Spec => []TypeOK
  BY TypeInit, TypeStep, PTL DEF Spec

-----------------------------------------------------------------------------
(* Nothing is lost. The inductive invariant carries, beside the property,   *)
(* what the steps that take a durable copy away rely on: a handler on its   *)
(* way to remove an inbox record or a dead letter can vouch for the id.     *)

LEMMA InvInit == Init => IInv
<1> SUFFICES ASSUME Init PROVE IInv
  OBVIOUS
<1>. QED
  BY TypeInit DEF IInv, Init, NothingLost, SettledIsAccounted, Settled, HandsVouched,
                  Vouched, Idle

\* Turning to the next item takes nothing away.
LEMMA ThroughVouched ==
  ASSUME NEW r \in Hand, r.pc # "idle", r.act = "answered" => r.item.id \in answered
  PROVE  Vouched(Through(r))
<1>1. CASE r.own
  BY <1>1 DEF Vouched, Through, Hand
<1>2. CASE ~r.own /\ r.todo = <<>>
  BY <1>2 DEF Vouched, Through, Idle
<1>3. CASE ~r.own /\ r.todo # <<>>
  BY <1>3 DEF Vouched, Through, Idle
<1>. QED
  BY <1>1, <1>2, <1>3

\* Remembering an id settles that id and no other.
LEMMA RememberedKeeps ==
  ASSUME NEW m \in Ids, seen \in Seq(Ids), NEW i \in DOMAIN Remembered(m)
  PROVE  Remembered(m)[i] \in Settled \cup {m}
<1>1. ASSUME NEW j \in 1..(Len(seen) + 1)
      PROVE  Append(seen, m)[j] \in Settled \cup {m}
  BY DEF Settled
<1>2. CASE m \in Settled
  BY <1>2 DEF Remembered, Settled
<1>3. CASE m \notin Settled /\ Len(Append(seen, m)) <= SeenCapacity
  BY <1>1, <1>3 DEF Remembered
<1>4. CASE m \notin Settled /\ ~(Len(Append(seen, m)) <= SeenCapacity)
  <2> DEFINE longer == Append(seen, m)
  <2>1. Remembered(m) = Tail(longer)
    BY <1>4 DEF Remembered
  <2>2. longer \in Seq(Ids) /\ Len(longer) = Len(seen) + 1
    OBVIOUS
  <2> HIDE DEF longer
  <2>3. /\ DOMAIN Tail(longer) = 1..Len(seen)
        /\ \A j \in 1..Len(seen) : Tail(longer)[j] = longer[j + 1]
    BY <2>2
  <2>4. i \in 1..Len(seen) /\ i + 1 \in 1..(Len(seen) + 1)
    BY <2>1, <2>3
  <2>5. longer[i + 1] \in Settled \cup {m}
    BY <1>1, <2>4 DEF longer
  <2>. QED
    BY <2>1, <2>3, <2>4, <2>5
<1>. QED
  BY <1>2, <1>3, <1>4

\* A step of handler h leaves the others, but for the triage it may start.
LEMMA OthersVouched ==
  ASSUME TypeOK, HandsVouched, NEW h \in Handlers, Vouched(hand[h])',
         \A m \in Ids : Accounted(m) => Accounted(m)',
         answered \subseteq answered',
         \A k \in Handlers \ {h} :
            \/ hand'[k] = hand[k]
            \/ hand'[k].pc = "triage" /\ hand'[k].act = "none"
  PROVE  HandsVouched'
<1> SUFFICES ASSUME NEW k \in Handlers, k # h PROVE Vouched(hand[k])'
  BY DEF HandsVouched
<1>1. CASE hand'[k].pc = "triage" /\ hand'[k].act = "none"
  BY <1>1 DEF Vouched
<1>2. CASE hand'[k] = hand[k] /\ hand[k].pc = "idle"
  BY <1>2 DEF HandsVouched, Vouched
<1>3. CASE hand'[k] = hand[k] /\ hand[k].pc # "idle"
  <2>1. hand[k].item.id \in Ids
    BY <1>3, HeldItem DEF TypeOK, Id
  <2>2. Vouched(hand[k])
    BY DEF HandsVouched
  <2>. QED
    BY <1>3, <2>1, <2>2 DEF Vouched
<1>. QED
  BY <1>1, <1>2, <1>3

\* A step that leaves the disk and the histories alone can break only what is
\* said of the handlers.
LEMMA QuietStep ==
  ASSUME IInv, UNCHANGED <<disk, history>>
  PROVE  /\ NothingLost' /\ SettledIsAccounted'
         /\ \A m \in Ids : Accounted(m) => Accounted(m)'
         /\ answered \subseteq answered'
  BY DEF IInv, NothingLost, SettledIsAccounted, Settled, Accounted, disk, history

\* The steps that leave the handlers alone.
LEMMA ProducerInv ==
  ASSUME IInv,
         \/ \E f \in Feeds, m \in Ids : Admit(f, m)
         \/ Produce \/ Signal
  PROVE  NothingLost' /\ SettledIsAccounted' /\ HandsVouched'
<1>1. UNCHANGED <<dead, seen, answered, hand>>
  BY DEF Admit, Produce, Send, RecoverPeek, RecoverPeekFails, RecoverNext,
         RecoverSettled, RecoverSettledFails, RecoverEnqueue, RecoverEnqueueFails,
         RecoverDone, ReplayNext, ReplayBusy, ReplayEnqueue, ReplayEnqueueFails,
         Signal, disk, history
<1>2. \A m : Accounted(m)' <=> Accounted(m)
  BY <1>1 DEF Accounted
<1>3. HandsVouched'
  BY <1>1 DEF IInv, HandsVouched, Vouched, Accounted
<1>4. SettledIsAccounted'
  BY <1>1 DEF IInv, SettledIsAccounted, Settled, Accounted
<1>5. ASSUME NEW it \in Items, AddToInbox(it)
      PROVE  NothingLost'
  BY <1>1, <1>5, ItemFacts DEF IInv, TypeOK, StateOK, NothingLost, AddToInbox, Source, Accounted
<1>6. ASSUME UNCHANGED <<inbox, admitted>>
      PROVE  NothingLost'
  BY <1>1, <1>6 DEF IInv, NothingLost, Accounted
<1>7. ASSUME NEW it \in recover, RecoverSettled(it)
      PROVE  NothingLost'
  <2>1. Accounted(it.id)
    BY <1>7 DEF IInv, SettledIsAccounted, RecoverSettled
  <2>2. \A m \in admitted : m # it.id => inbox'[m] = inbox[m]
    BY <1>7 DEF RecoverSettled, IInv, TypeOK, StateOK
  <2>3. admitted' = admitted
    BY <1>7 DEF RecoverSettled, history
  <2>. QED
    BY <1>2, <2>1, <2>2, <2>3 DEF IInv, NothingLost
<1>8. NothingLost'
  <2>1. ASSUME NEW f \in Feeds, NEW m \in Ids, Admit(f, m)
        PROVE  NothingLost'
    BY <2>1, <1>5, ItemFacts DEF Admit
  <2>2. ASSUME NEW it \in recover, RecoverEnqueue(it)
        PROVE  NothingLost'
    BY <2>2, <1>5 DEF RecoverEnqueue, IInv, TypeOK, StateOK
  <2>3. ASSUME NEW m \in replays, ReplayEnqueue(m)
        PROVE  NothingLost'
    BY <2>3, <1>5, ItemFacts DEF ReplayEnqueue, IInv, TypeOK, StateOK
  <2>. QED
    BY <2>1, <2>2, <2>3, <1>6, <1>7
       DEF Produce, Send, RecoverPeek, RecoverPeekFails, RecoverNext,
           RecoverSettledFails, RecoverEnqueueFails, RecoverDone, ReplayNext, ReplayBusy,
           ReplayEnqueueFails, Signal, disk, history
<1>. QED
  BY <1>3, <1>4, <1>8

\* The steps of a handler.
LEMMA HandlerInv ==
  ASSUME IInv, NEW h \in Handlers, HandleStep(h)
  PROVE  NothingLost' /\ SettledIsAccounted' /\ HandsVouched'
<1> DEFINE Lasting == /\ \A m \in Ids : Accounted(m) => Accounted(m)'
                      /\ answered \subseteq answered'
           Others == \A k \in Handlers \ {h} :
                        \/ hand'[k] = hand[k]
                        \/ hand'[k].pc = "triage" /\ hand'[k].act = "none"
<1> USE DEF disk, history
<1>0. /\ HandOK /\ StateOK /\ TypeOK /\ hand[h] \in Hand /\ Vouched(hand[h])
      /\ hand[h].pc # "idle" => Id(h) \in Ids
  BY HeldItem DEF IInv, TypeOK, HandsVouched
\* A handler that only turns to its next item.
<1>a. ASSUME Finish(h), ~Busy(h, {"idle"}), Lasting
      PROVE  Vouched(hand[h])' /\ Others
  <2>1. hand' = [hand EXCEPT ![h] = Through(hand[h])]
    BY <1>a DEF Finish
  <2>2. hand'[h] = Through(hand[h]) /\ Others
    BY <1>0, <2>1 DEF HandOK
  <2>3. Vouched(Through(hand[h]))
    BY <1>0, <1>a, ThroughVouched DEF Busy, Vouched
  <2>4. Through(hand[h]).pc \in {"wake", "idle", "check"}
    BY DEF Through, Idle
  <2>. QED
    BY <1>a, <2>2, <2>3, <2>4 DEF Vouched
<1>1. ASSUME Drop(h) PROVE NothingLost' /\ SettledIsAccounted' /\ HandsVouched'
  <2>1. NothingLost' /\ SettledIsAccounted' /\ Lasting
    BY <1>1, QuietStep DEF Drop
  <2>2. Others /\ hand'[h].pc = "bury" /\ hand'[h].act = "dropped"
    BY <1>0, <1>1 DEF Drop, Decide, HandOK, Hand
  <2>3. Vouched(hand[h])'
    BY <2>2 DEF Vouched
  <2>. QED
    BY <1>0, <2>1, <2>2, <2>3, OthersVouched DEF IInv
<1>2. ASSUME EscalationFails(h) PROVE NothingLost' /\ SettledIsAccounted' /\ HandsVouched'
  <2>1. NothingLost' /\ SettledIsAccounted' /\ Lasting
    BY <1>2, QuietStep DEF EscalationFails
  <2>2. Others /\ hand'[h].pc = "bury" /\ hand'[h].act = "error"
    BY <1>0, <1>2 DEF EscalationFails, Decide, HandOK, Hand
  <2>3. Vouched(hand[h])'
    BY <2>2 DEF Vouched
  <2>. QED
    BY <1>0, <2>1, <2>2, <2>3, OthersVouched DEF IInv
<1>3. ASSUME CommitFails(h) PROVE NothingLost' /\ SettledIsAccounted' /\ HandsVouched'
  <2>1. NothingLost' /\ SettledIsAccounted' /\ Lasting
    BY <1>3, QuietStep DEF CommitFails
  <2>2. Others /\ hand'[h].pc = "release" /\ hand'[h].act = "uncommitted"
    BY <1>0, <1>3 DEF CommitFails, Decide, HandOK, Hand
  <2>3. Vouched(hand[h])'
    BY <2>2 DEF Vouched
  <2>. QED
    BY <1>0, <2>1, <2>2, <2>3, OthersVouched DEF IInv
<1>4. ASSUME StartTriage(h) PROVE NothingLost' /\ SettledIsAccounted' /\ HandsVouched'
  <2>1. NothingLost' /\ SettledIsAccounted' /\ Lasting
    BY <1>4, QuietStep DEF StartTriage
  <2>2. /\ Others /\ hand'[h].pc = "start" /\ hand[h].pc # "idle"
        /\ hand'[h].act = hand[h].act /\ hand'[h].item = hand[h].item
    BY <1>0, <1>4 DEF StartTriage, Goto, HandOK, Hand, Busy
  <2>3. Vouched(hand[h])'
    BY <1>0, <2>1, <2>2 DEF Vouched
  <2>. QED
    BY <1>0, <2>1, <2>2, <2>3, OthersVouched DEF IInv
<1>5. ASSUME ForgetFails(h) PROVE NothingLost' /\ SettledIsAccounted' /\ HandsVouched'
  <2>1. NothingLost' /\ SettledIsAccounted' /\ Lasting
    BY <1>5, QuietStep DEF ForgetFails
  <2>2. /\ Others /\ hand'[h].pc = "release" /\ hand[h].pc # "idle"
        /\ hand'[h].act = hand[h].act /\ hand'[h].item = hand[h].item
    BY <1>0, <1>5 DEF ForgetFails, Goto, HandOK, Hand, Busy
  <2>3. Vouched(hand[h])'
    BY <1>0, <2>1, <2>2 DEF Vouched
  <2>. QED
    BY <1>0, <2>1, <2>2, <2>3, OthersVouched DEF IInv
<1>6. ASSUME Defer(h) PROVE NothingLost' /\ SettledIsAccounted' /\ HandsVouched'
  <2>1. NothingLost' /\ SettledIsAccounted' /\ Lasting
    BY <1>6, QuietStep DEF Defer
  <2>2. Finish(h) /\ ~Busy(h, {"idle"})
    BY <1>6 DEF Defer, Busy
  <2>3. Vouched(hand[h])' /\ Others
    BY <1>a, <2>1, <2>2
  <2>. QED
    BY <1>0, <2>1, <2>2, <2>3, OthersVouched DEF IInv
<1>7. ASSUME BuryFails(h) PROVE NothingLost' /\ SettledIsAccounted' /\ HandsVouched'
  <2>1. NothingLost' /\ SettledIsAccounted' /\ Lasting
    BY <1>7, QuietStep DEF BuryFails
  <2>2. Finish(h) /\ ~Busy(h, {"idle"})
    BY <1>7 DEF BuryFails, Busy
  <2>3. Vouched(hand[h])' /\ Others
    BY <1>a, <2>1, <2>2
  <2>. QED
    BY <1>0, <2>1, <2>2, <2>3, OthersVouched DEF IInv
<1>8. ASSUME UnburyFails(h) PROVE NothingLost' /\ SettledIsAccounted' /\ HandsVouched'
  <2>1. NothingLost' /\ SettledIsAccounted' /\ Lasting
    BY <1>8, QuietStep DEF UnburyFails
  <2>2. Finish(h) /\ ~Busy(h, {"idle"})
    BY <1>8 DEF UnburyFails, Busy
  <2>3. Vouched(hand[h])' /\ Others
    BY <1>a, <2>1, <2>2
  <2>. QED
    BY <1>0, <2>1, <2>2, <2>3, OthersVouched DEF IInv
<1>9. ASSUME Check(h) PROVE NothingLost' /\ SettledIsAccounted' /\ HandsVouched'
  <2>1. NothingLost' /\ SettledIsAccounted' /\ Lasting
    BY <1>9, QuietStep DEF Check
  <2>2. Others /\ hand'[h].item = hand[h].item /\ hand[h].pc = "check"
    BY <1>0, <1>9 DEF Check, Decide, HandOK, Hand, Busy
  <2>3. Vouched(hand[h])'
    <3>1. CASE ~hand[h].item.replay /\ Id(h) \in Settled
      <4>1. hand'[h].pc = "forget" /\ hand'[h].act = "stale"
        BY <1>0, <1>9, <3>1 DEF Check, Decide, HandOK, Hand
      <4>2. Accounted(Id(h)) /\ Id(h) \in Ids
        BY <1>0, <2>2, <3>1 DEF IInv, SettledIsAccounted
      <4>. QED
        BY <2>1, <2>2, <4>1, <4>2 DEF Vouched, Id
    <3>2. CASE ~(~hand[h].item.replay /\ Id(h) \in Settled)
      <4>1. hand'[h].pc = "run" /\ hand'[h].act = hand[h].act
        BY <1>0, <1>9, <3>2 DEF Check, HandOK, Hand
      <4>. QED
        BY <1>0, <2>1, <2>2, <4>1 DEF Vouched
    <3>. QED
      BY <3>1, <3>2
  <2>. QED
    BY <1>0, <2>1, <2>2, <2>3, OthersVouched DEF IInv
<1>10. ASSUME AttemptFails(h) PROVE NothingLost' /\ SettledIsAccounted' /\ HandsVouched'
  <2>1. NothingLost' /\ SettledIsAccounted' /\ Lasting
    BY <1>10, QuietStep DEF AttemptFails
  <2>2. Others /\ hand'[h].item = hand[h].item /\ hand[h].pc \in {"run", "start"}
    BY <1>0, <1>10 DEF AttemptFails, Decide, HandOK, Hand, Busy
  <2>3. Vouched(hand[h])'
    <3>1. CASE hand[h].attempt < Attempts
      <4>1. hand'[h].pc = "run" /\ hand'[h].act = hand[h].act
        BY <1>0, <1>10, <3>1 DEF AttemptFails, HandOK, Hand
      <4>. QED
        BY <1>0, <2>1, <2>2, <4>1 DEF Vouched
    <3>2. CASE ~(hand[h].attempt < Attempts)
      <4>1. hand'[h].pc = "bury" /\ hand'[h].act = "error"
        BY <1>0, <1>10, <3>2 DEF AttemptFails, Decide, HandOK, Hand
      <4>. QED
        BY <4>1 DEF Vouched
    <3>. QED
      BY <3>1, <3>2
  <2>. QED
    BY <1>0, <2>1, <2>2, <2>3, OthersVouched DEF IInv
<1>11. ASSUME Answer(h) PROVE NothingLost' /\ SettledIsAccounted' /\ HandsVouched'
  <2>1. answered' = answered \cup {Id(h)} /\ UNCHANGED <<disk, admitted>>
    BY <1>11 DEF Answer
  <2>2. NothingLost' /\ SettledIsAccounted' /\ Lasting
    BY <2>1 DEF IInv, NothingLost, SettledIsAccounted, Settled, Accounted
  <2>3. /\ Others /\ hand'[h].item = hand[h].item
        /\ hand'[h].pc = "commit" /\ hand'[h].act = "answered"
    BY <1>0, <1>11 DEF Answer, Decide, HandOK, Hand
  <2>4. Vouched(hand[h])'
    BY <2>1, <2>3 DEF Vouched, Accounted, Id
  <2>. QED
    BY <1>0, <2>2, <2>3, <2>4, OthersVouched DEF IInv
<1>12. ASSUME Bury(h) PROVE NothingLost' /\ SettledIsAccounted' /\ HandsVouched'
  <2>1. dead' = dead \cup {Id(h)} /\ UNCHANGED <<inbox, seen, history>>
    BY <1>12 DEF Bury
  <2>2. NothingLost' /\ SettledIsAccounted' /\ Lasting
    BY <2>1 DEF IInv, NothingLost, SettledIsAccounted, Settled, Accounted
  <2>3. /\ Others /\ hand'[h].item = hand[h].item /\ hand[h].pc = "bury"
        /\ hand'[h].pc = "commit" /\ hand'[h].act = hand[h].act
    BY <1>0, <1>12 DEF Bury, Goto, HandOK, Hand, Busy
  <2>4. Vouched(hand[h])'
    BY <1>0, <2>1, <2>2, <2>3 DEF Vouched, Accounted, Id
  <2>. QED
    BY <1>0, <2>2, <2>3, <2>4, OthersVouched DEF IInv
<1>13. ASSUME Commit(h) PROVE NothingLost' /\ SettledIsAccounted' /\ HandsVouched'
  <2>1. seen' = Remembered(Id(h)) /\ UNCHANGED <<inbox, dead, history>>
    BY <1>13 DEF Commit
  <2>2. hand[h].pc = "commit" /\ Id(h) \in Ids /\ Accounted(Id(h))
    BY <1>0, <1>13 DEF Commit, Busy, Vouched, Id
  <2>3. Settled' \subseteq Settled \cup {Id(h)}
    BY <1>0, <2>1, <2>2, RememberedKeeps DEF StateOK, Settled
  <2>4. NothingLost' /\ SettledIsAccounted' /\ Lasting
    BY <2>1, <2>2, <2>3 DEF IInv, NothingLost, SettledIsAccounted, Accounted
  <2>5. /\ Others /\ hand'[h].item = hand[h].item
        /\ hand'[h].pc = "forget" /\ hand'[h].act = hand[h].act
    BY <1>0, <1>13 DEF Commit, Goto, HandOK, Hand
  <2>6. Vouched(hand[h])'
    BY <1>0, <2>2, <2>4, <2>5 DEF Vouched, Id
  <2>. QED
    BY <1>0, <2>4, <2>5, <2>6, OthersVouched DEF IInv
<1>14. ASSUME Forget(h) PROVE NothingLost' /\ SettledIsAccounted' /\ HandsVouched'
  <2>1. inbox' = [inbox EXCEPT ![Id(h)] = "none"] /\ UNCHANGED <<dead, seen, history>>
    BY <1>14 DEF Forget
  <2>2. hand[h].pc = "forget" /\ Id(h) \in Ids /\ Accounted(Id(h))
    BY <1>0, <1>14 DEF Forget, Busy, Vouched, Id
  <2>3. SettledIsAccounted' /\ Lasting /\ (\A m : Accounted(m)' <=> Accounted(m))
    BY <2>1 DEF IInv, SettledIsAccounted, Settled, Accounted
  <2>4. \A m \in admitted : m # Id(h) => inbox'[m] = inbox[m]
    BY <1>0, <2>1 DEF StateOK
  <2>5. NothingLost'
    BY <2>1, <2>2, <2>3, <2>4 DEF IInv, NothingLost
  <2>6. /\ Others /\ hand'[h].item = hand[h].item
        /\ hand'[h].pc = "release" /\ hand'[h].act = hand[h].act
    BY <1>0, <1>14 DEF Forget, Goto, HandOK, Hand
  <2>7. Vouched(hand[h])'
    BY <1>0, <2>2, <2>3, <2>6 DEF Vouched
  <2>. QED
    BY <1>0, <2>3, <2>5, <2>6, <2>7, OthersVouched DEF IInv
<1>15. ASSUME Release(h) PROVE NothingLost' /\ SettledIsAccounted' /\ HandsVouched'
  <2>1. NothingLost' /\ SettledIsAccounted' /\ Lasting
    BY <1>15, QuietStep DEF Release
  <2>2. hand[h].pc = "release"
    BY <1>15 DEF Release, Busy
  <2>3. Vouched(hand[h])' /\ Others
    <3>1. CASE hand[h].item.replay /\ hand[h].act = "answered"
      <4>1. /\ Others /\ hand'[h].item = hand[h].item
            /\ hand'[h].pc = "unbury" /\ hand'[h].act = hand[h].act
        BY <1>0, <1>15, <3>1 DEF Release, Goto, HandOK, Hand
      <4>. QED
        BY <1>0, <2>1, <2>2, <3>1, <4>1 DEF Vouched
    <3>2. CASE ~(hand[h].item.replay /\ hand[h].act = "answered")
      BY <1>a, <1>15, <2>1, <2>2, <3>2 DEF Release, Busy
    <3>. QED
      BY <3>1, <3>2
  <2>. QED
    BY <1>0, <2>1, <2>3, OthersVouched DEF IInv
<1>16. ASSUME Unbury(h) PROVE NothingLost' /\ SettledIsAccounted' /\ HandsVouched'
  <2>1. dead' = dead \ {Id(h)} /\ UNCHANGED <<inbox, seen, history>>
    BY <1>16 DEF Unbury
  <2>2. hand[h].pc = "unbury" /\ Id(h) \in answered
    BY <1>0, <1>16 DEF Unbury, Busy, Vouched, Id
  <2>3. \A m : Accounted(m) => Accounted(m)'
    BY <2>1, <2>2 DEF Accounted
  <2>4. NothingLost' /\ SettledIsAccounted' /\ Lasting
    BY <2>1, <2>3 DEF IInv, NothingLost, SettledIsAccounted, Settled
  <2>5. Vouched(hand[h])' /\ Others
    BY <1>a, <1>16, <2>2, <2>4 DEF Unbury, Busy
  <2>. QED
    BY <1>0, <2>4, <2>5, OthersVouched DEF IInv
<1>17. ASSUME Wake(h) PROVE NothingLost' /\ SettledIsAccounted' /\ HandsVouched'
  <2>1. NothingLost' /\ SettledIsAccounted' /\ Lasting
    BY <1>17, QuietStep DEF Wake
  <2> DEFINE r == [hand[h] EXCEPT !.own = FALSE, !.todo = deferred[RootOf[Id(h)]]]
  <2>2. hand' = [hand EXCEPT ![h] = Through(r)]
    BY <1>17 DEF Wake
  <2>3. ~r.own
    BY <1>0 DEF Hand
  <2>4. hand'[h] = Through(r) /\ Others
    BY <1>0, <2>2 DEF HandOK
  <2> HIDE DEF r
  <2>5. hand'[h].pc \in {"idle", "check"} /\ hand'[h].act = "none"
    BY <2>3, <2>4 DEF Through, Idle
  <2>6. Vouched(hand[h])'
    BY <2>5 DEF Vouched
  <2>. QED
    BY <1>0, <2>1, <2>4, <2>6, OthersVouched DEF IInv
<1>18. ASSUME NEW g \in Goroutines, SpawnTriage(h, g)
       PROVE  NothingLost' /\ SettledIsAccounted' /\ HandsVouched'
  <2>1. NothingLost' /\ SettledIsAccounted' /\ Lasting
    BY <1>18, QuietStep DEF SpawnTriage
  <2>2. hand[h].pc = "start" /\ h # g /\ g \in Handlers
    BY <1>18 DEF SpawnTriage, Busy, Handlers
  <2>3. hand' = [hand EXCEPT
           ![h] = Through(hand[h]),
           ![g] = [Idle EXCEPT !.pc = "triage", !.item = hand[h].item, !.own = TRUE]]
    BY <1>18 DEF SpawnTriage
  <2>4. hand'[h] = Through(hand[h]) /\ Others
    BY <1>0, <2>2, <2>3 DEF HandOK, Idle
  <2>5. Vouched(Through(hand[h]))
    BY <1>0, <2>2, ThroughVouched DEF Vouched
  <2>6. Through(hand[h]).pc \in {"wake", "idle", "check"}
    BY DEF Through, Idle
  <2>7. Vouched(hand[h])'
    BY <2>1, <2>4, <2>5, <2>6 DEF Vouched
  <2>. QED
    BY <1>0, <2>1, <2>4, <2>7, OthersVouched DEF IInv
<1>. QED
  BY <1>1, <1>2, <1>3, <1>4, <1>5, <1>6, <1>7, <1>8, <1>9, <1>10, <1>11, <1>12,
     <1>13, <1>14, <1>15, <1>16, <1>17, <1>18 DEF HandleStep

LEMMA InvStep == IInv /\ [Next]_vars => IInv'
<1> SUFFICES ASSUME IInv, [Next]_vars PROVE IInv'
  OBVIOUS
<1> USE DEF disk, history
<1>0. TypeOK'
  BY TypeStep DEF IInv
<1>1. CASE Take
  <2>1. NothingLost' /\ SettledIsAccounted' /\ answered' = answered /\ dead' = dead
    BY <1>1, QuietStep DEF Take
  <2>2. \A m \in Ids : Accounted(m) => Accounted(m)'
    BY <2>1 DEF Accounted
  <2>3. /\ Worker \in Handlers /\ hand[Worker].pc = "idle" /\ hand'[Worker].pc = "check"
        /\ hand'[Worker].act = hand[Worker].act
        /\ \A k \in Handlers \ {Worker} : hand'[k] = hand[k]
    BY <1>1 DEF Take, Busy, Handlers, IInv, TypeOK, HandOK, Hand
  <2>4. Vouched(hand[Worker])'
    BY <2>3 DEF Vouched, IInv, HandsVouched
  <2>. QED
    BY <1>0, <2>1, <2>2, <2>3, <2>4, OthersVouched DEF IInv
<1>2. CASE Crash
  <2>1. NothingLost' /\ SettledIsAccounted'
    BY <1>2, QuietStep DEF Crash
  <2>2. \A h \in Handlers : hand'[h] = Idle
    BY <1>2 DEF Crash
  <2>3. HandsVouched'
    BY <2>2 DEF HandsVouched, Vouched, Idle
  <2>. QED
    BY <1>0, <2>1, <2>3 DEF IInv
<1>3. CASE UNCHANGED vars
  BY <1>0, <1>3 DEF IInv, vars, NothingLost, SettledIsAccounted, Settled, HandsVouched,
                    Vouched, Accounted
<1>. QED
  BY <1>0, <1>1, <1>2, <1>3, ProducerInv, HandlerInv DEF Next, IInv

\* README.md:24-25: whatever fails and whenever the daemon dies, an admitted
\* notification is in the inbox, answered, or in the dead letters.
THEOREM NothingIsLost == Spec => []NothingLost
<1>1. IInv => NothingLost
  BY DEF IInv
<1>. QED
  BY <1>1, InvInit, InvStep, PTL DEF Spec


\* A dead letter leaves the file only when a replay of it was answered: the
\* step that removes it belongs to a handler that can vouch for the answer.
LEMMA UnburyStep ==
  ASSUME IInv, [Next]_vars, NEW m \in dead \ dead'
  PROVE  m \in answered
<1>1. PICK h \in Handlers : Unbury(h)
  <2>1. CASE \E h \in Handlers : HandleStep(h)
    <3> PICK h \in Handlers : HandleStep(h)
      BY <2>1
    <3>1. CASE Unbury(h)
      BY <3>1
    <3>2. CASE ~Unbury(h)
      <4>1. dead \subseteq dead'
        BY <3>2 DEF HandleStep, Check, Answer, Drop, EscalationFails, AttemptFails, Defer,
                    StartTriage, SpawnTriage, Wake, Bury, BuryFails, Commit, CommitFails,
                    Forget, ForgetFails, Release, UnburyFails, disk
      <4>. QED
        BY <4>1
    <3>. QED
      BY <3>1, <3>2
  <2>2. CASE ~\E h \in Handlers : HandleStep(h)
    <3>1. dead' = dead
      BY <2>2 DEF Next, Admit, Produce, Send, RecoverPeek, RecoverPeekFails, RecoverNext,
                  RecoverSettled, RecoverSettledFails, RecoverEnqueue, RecoverEnqueueFails,
                  RecoverDone, ReplayNext, ReplayBusy, ReplayEnqueue, ReplayEnqueueFails,
                  Signal, Take, Crash, vars, disk
    <3>. QED
      BY <3>1
  <2>. QED
    BY <2>1, <2>2
<1>2. m = Id(h) /\ hand[h].pc = "unbury"
  BY <1>1 DEF Unbury, Busy
<1>. QED
  BY <1>2 DEF IInv, HandsVouched, Vouched, Id

THEOREM DeadLettersStay == Spec => DeadLetterLeavesAnswered
<1>1. IInv /\ [Next]_vars => [\A m \in dead \ dead' : m \in answered]_vars
  BY UnburyStep
<1>. QED
  BY <1>1, InvInit, InvStep, PTL DEF Spec, DeadLetterLeavesAnswered

-----------------------------------------------------------------------------
(* What is deferred has a waker. Every step of a handler but two moves that *)
(* handler alone, and keeps the mark it owns and the item it owns it for.   *)

\* Handler h goes to another step with what it holds.
Advances(h) ==
    /\ hand'[h].pc # "idle"
    /\ hand'[h].own = hand[h].own
    /\ hand'[h].item = hand[h].item
    /\ hand'[h].todo = hand[h].todo

\* Handler h, and no other, goes on: with what it holds, or with its next item.
Moves(h) ==
    /\ hand[h].pc # "idle"
    /\ \A k \in Handlers \ {h} : hand'[k] = hand[k]
    /\ Advances(h) \/ hand'[h] = Through(hand[h])

LEMMA HandlerMoves ==
  ASSUME TypeOK, NEW h \in Handlers, HandleStep(h)
  PROVE  Moves(h) \/ Wake(h) \/ \E g \in Goroutines : SpawnTriage(h, g)
<1>0. hand \in [Handlers -> Hand] /\ hand[h] \in Hand
      /\ hand[h] = [pc |-> hand[h].pc, item |-> hand[h].item, attempt |-> hand[h].attempt,
                    act |-> hand[h].act, own |-> hand[h].own, todo |-> hand[h].todo]
  BY DEF TypeOK, HandOK, Hand
<1>1. CASE Bury(h)
  BY <1>0, <1>1 DEF Bury, Goto, Moves, Advances, Busy
<1>2. CASE Commit(h)
  BY <1>0, <1>2 DEF Commit, Goto, Moves, Advances, Busy
<1>3. CASE Forget(h)
  BY <1>0, <1>3 DEF Forget, Goto, Moves, Advances, Busy
<1>4. CASE ForgetFails(h)
  BY <1>0, <1>4 DEF ForgetFails, Goto, Moves, Advances, Busy
<1>5. CASE StartTriage(h)
  BY <1>0, <1>5 DEF StartTriage, Goto, Moves, Advances, Busy
<1>6. CASE Answer(h)
  BY <1>0, <1>6 DEF Answer, Decide, Moves, Advances, Busy
<1>7. CASE Drop(h)
  BY <1>0, <1>7 DEF Drop, Decide, Moves, Advances, Busy
<1>8. CASE EscalationFails(h)
  BY <1>0, <1>8 DEF EscalationFails, Decide, Moves, Advances, Busy
<1>9. CASE CommitFails(h)
  BY <1>0, <1>9 DEF CommitFails, Decide, Moves, Advances, Busy
<1>10. CASE Defer(h)
  BY <1>0, <1>10 DEF Defer, Finish, Moves, Busy
<1>11. CASE BuryFails(h)
  BY <1>0, <1>11 DEF BuryFails, Finish, Moves, Busy
<1>12. CASE Unbury(h)
  BY <1>0, <1>12 DEF Unbury, Finish, Moves, Busy
<1>13. CASE UnburyFails(h)
  BY <1>0, <1>13 DEF UnburyFails, Finish, Moves, Busy
<1>14. CASE Check(h)
  BY <1>0, <1>14 DEF Check, Decide, Moves, Advances, Busy
<1>15. CASE AttemptFails(h)
  BY <1>0, <1>15 DEF AttemptFails, Decide, Moves, Advances, Busy
<1>16. CASE Release(h)
  BY <1>0, <1>16 DEF Release, Goto, Finish, Moves, Advances, Busy
<1>. QED
  BY <1>1, <1>2, <1>3, <1>4, <1>5, <1>6, <1>7, <1>8, <1>9, <1>10, <1>11, <1>12, <1>13, <1>14, <1>15, <1>16 DEF HandleStep

\* A thread stays watched while its owners keep their marks.
LEMMA StaysWatched ==
  ASSUME NEW r,
         \A g \in Goroutines : hand[g].own /\ RootOf[Id(g)] = r =>
            hand'[g].own /\ hand'[g].item = hand[g].item
  PROVE  Watched(r) => Watched(r)'
  BY DEF Watched, Id

\* A handler that moves keeps its mark, or is free without one.
LEMMA MovesKeepsMarks ==
  ASSUME TypeOK, OwnersAreAtWork, NEW h \in Handlers, Moves(h)
  PROVE  /\ OwnersAreAtWork'
         /\ \A k \in Handlers : hand[k].own => hand'[k].own /\ hand'[k].item = hand[k].item
<1>0. hand[h] \in Hand
  BY DEF TypeOK, HandOK
<1>1. CASE Advances(h)
  BY <1>1 DEF Moves, Advances, OwnersAreAtWork
<1>2. CASE hand'[h] = Through(hand[h])
  <2>1. hand[h].own => /\ hand'[h].own /\ hand'[h].pc = "wake"
                       /\ hand'[h].item = hand[h].item
    BY <1>0, <1>2 DEF Through, Hand
  <2>2. ~hand[h].own => ~hand'[h].own
    BY <1>0, <1>2 DEF Through, Idle, Hand
  <2>. QED
    BY <2>1, <2>2 DEF Moves, OwnersAreAtWork
<1>. QED
  BY <1>1, <1>2 DEF Moves

LEMMA WakerInit == Init => WakerInv
  BY DEF Init, WakerInv, OwnersAreAtWork, MarksAreWatched, DeferredBehindMark, Idle

LEMMA WakerStep == TypeOK /\ WakerInv /\ [Next]_vars => WakerInv'
<1> SUFFICES ASSUME TypeOK, WakerInv, [Next]_vars PROVE WakerInv'
  OBVIOUS
<1> USE DEF disk, history, shared, producers, bounds
<1>0. /\ hand \in [Handlers -> Hand] /\ deferred \in [Roots -> Seq(Items)]
      /\ Goroutines \subseteq Handlers
  BY DEF TypeOK, HandOK, StateOK, Handlers
<1>1. CASE UNCHANGED <<hand, inflight, deferred>>
  BY <1>1 DEF WakerInv, OwnersAreAtWork, MarksAreWatched, DeferredBehindMark, Watched, Id
<1>2. CASE Take
  <2>1. /\ UNCHANGED <<inflight, deferred>> /\ hand[Worker].pc = "idle"
        /\ hand' = [hand EXCEPT ![Worker].pc = "check", ![Worker].item = Head(queue)]
        /\ Worker \in Handlers
    BY <1>2 DEF Take, Busy, Handlers
  <2>2. OwnersAreAtWork'
    BY <1>0, <2>1 DEF WakerInv, OwnersAreAtWork, Hand
  <2>3. \A k \in Goroutines : hand[k].own => hand'[k] = hand[k]
    BY <1>0, <2>1 DEF WakerInv, OwnersAreAtWork
  <2>4. MarksAreWatched'
    BY <2>1, <2>3, StaysWatched DEF WakerInv, MarksAreWatched
  <2>. QED
    BY <2>1, <2>2, <2>4 DEF WakerInv, DeferredBehindMark
<1>3. ASSUME NEW h \in Handlers, HandleStep(h), Moves(h),
             ~Wake(h), ~\E g \in Goroutines : SpawnTriage(h, g)
      PROVE  WakerInv'
  <2>1. /\ OwnersAreAtWork'
        /\ \A k \in Handlers : hand[k].own => hand'[k].own /\ hand'[k].item = hand[k].item
    BY <1>3, MovesKeepsMarks DEF WakerInv
  <2>2. \A r \in inflight : Watched(r)'
    BY <1>0, <2>1, StaysWatched DEF WakerInv, MarksAreWatched
  <2>3. CASE UNCHANGED <<inflight, deferred>>
    BY <2>1, <2>2, <2>3 DEF WakerInv, MarksAreWatched, DeferredBehindMark
  <2>4. CASE Defer(h)
    <3>1. /\ inflight' = inflight /\ RootOf[Id(h)] \in inflight
          /\ \A r \in Roots : r # RootOf[Id(h)] => deferred'[r] = deferred[r]
      BY <1>0, <2>4 DEF Defer
    <3>2. DeferredBehindMark'
      BY <3>1 DEF WakerInv, DeferredBehindMark
    <3>. QED
      BY <2>1, <2>2, <3>1, <3>2 DEF WakerInv, MarksAreWatched
  <2>. QED
    BY <1>3, <2>3, <2>4
       DEF HandleStep, Check, Answer, Drop, EscalationFails, AttemptFails, StartTriage,
           Bury, BuryFails, Commit, CommitFails, Forget, ForgetFails, Release, Unbury,
           UnburyFails
<1>4. ASSUME NEW h \in Handlers, Wake(h)
      PROVE  WakerInv'
  <2> DEFINE r == RootOf[Id(h)]
             rec == [hand[h] EXCEPT !.own = FALSE, !.todo = deferred[r]]
  <2>1. /\ inflight' = inflight \ {r}
        /\ deferred' = [deferred EXCEPT ![r] = <<>>]
        /\ hand' = [hand EXCEPT ![h] = Through(rec)]
    BY <1>4 DEF Wake
  <2>2. ~rec.own
    BY <1>0 DEF Hand
  <2>3. hand'[h] = Through(rec) /\ \A k \in Handlers \ {h} : hand'[k] = hand[k]
    BY <1>0, <2>1
  <2> HIDE DEF rec
  <2>4. ~hand'[h].own
    BY <2>2, <2>3 DEF Through, Idle
  <2>5. OwnersAreAtWork'
    BY <2>3, <2>4 DEF WakerInv, OwnersAreAtWork
  <2>6. ASSUME NEW q \in inflight' PROVE Watched(q)'
    <3>1. q \in inflight /\ q # r
      BY <2>1, <2>6
    <3>2. Watched(q)
      BY <3>1 DEF WakerInv, MarksAreWatched
    <3> HIDE DEF r
    <3>3. \A g \in Goroutines : hand[g].own /\ RootOf[Id(g)] = q =>
              hand'[g].own /\ hand'[g].item = hand[g].item
      BY <1>0, <2>3, <3>1 DEF r
    <3>. QED
      BY <3>2, <3>3, StaysWatched
  <2>7. DeferredBehindMark'
    BY <1>0, <2>1 DEF WakerInv, DeferredBehindMark
  <2>. QED
    BY <2>5, <2>6, <2>7 DEF WakerInv, MarksAreWatched
<1>5. ASSUME NEW h \in Handlers, NEW g \in Goroutines, SpawnTriage(h, g)
      PROVE  WakerInv'
  <2> DEFINE rec == [Idle EXCEPT !.pc = "triage", !.item = hand[h].item, !.own = TRUE]
  <2>1. /\ inflight' = inflight \cup {RootOf[Id(h)]} /\ deferred' = deferred
        /\ hand' = [hand EXCEPT ![h] = Through(hand[h]), ![g] = rec]
        /\ hand[h].pc = "start" /\ hand[g].pc = "idle" /\ h # g
    BY <1>5 DEF SpawnTriage, Busy
  <2>2. rec.own /\ rec.pc = "triage" /\ rec.item = hand[h].item
    BY DEF Idle
  <2> HIDE DEF rec
  <2>3. /\ hand'[g] = rec /\ hand'[h] = Through(hand[h])
        /\ \A k \in Handlers \ {h, g} : hand'[k] = hand[k]
    BY <1>0, <2>1
  <2>4. hand[h].own => hand'[h].own /\ hand'[h].pc = "wake" /\ hand'[h].item = hand[h].item
    BY <1>0, <2>3 DEF Through, Hand
  <2>5. ~hand[h].own => ~hand'[h].own
    BY <1>0, <2>3 DEF Through, Idle
  <2>6. OwnersAreAtWork'
    BY <2>2, <2>3, <2>4, <2>5 DEF WakerInv, OwnersAreAtWork
  <2>7. ~hand[g].own
    BY <1>0, <2>1 DEF WakerInv, OwnersAreAtWork
  <2>8. \A k \in Goroutines : hand[k].own => hand'[k].own /\ hand'[k].item = hand[k].item
    BY <1>0, <2>3, <2>4, <2>7
  <2>9. ASSUME NEW q \in inflight' PROVE Watched(q)'
    <3>1. CASE q \in inflight
      BY <2>8, <3>1, StaysWatched DEF WakerInv, MarksAreWatched
    <3>2. CASE q = RootOf[Id(h)]
      BY <2>2, <2>3, <3>2 DEF Watched, Id
    <3>. QED
      BY <2>1, <2>9, <3>1, <3>2
  <2>. QED
    BY <2>1, <2>6, <2>9 DEF WakerInv, MarksAreWatched, DeferredBehindMark
<1>6. CASE Crash
  BY <1>6 DEF Crash, WakerInv, OwnersAreAtWork, MarksAreWatched, DeferredBehindMark, Idle
<1>. QED
  <2>1. ASSUME NEW h \in Handlers, HandleStep(h) PROVE WakerInv'
    BY <2>1, <1>3, <1>4, <1>5, HandlerMoves
  <2>2. ASSUME \/ \E f \in Feeds, m \in Ids : Admit(f, m)
               \/ Produce \/ Signal
               \/ UNCHANGED vars
        PROVE  UNCHANGED <<hand, inflight, deferred>>
    BY <2>2 DEF Admit, Produce, Send, RecoverPeek, RecoverPeekFails, RecoverNext,
         RecoverSettled, RecoverSettledFails, RecoverEnqueue, RecoverEnqueueFails,
         RecoverDone, ReplayNext, ReplayBusy, ReplayEnqueue, ReplayEnqueueFails,
         Signal, vars
  <2>. QED
    BY <1>1, <1>2, <1>6, <2>1, <2>2 DEF Next

\* What waits behind a triage is let through by a goroutine that is at work:
\* replayDeferred frees the thread and takes the list in one lock section.
THEOREM DeferredIsWoken == Spec => []DeferredHasWaker
<1>1. TypeOK /\ WakerInv => DeferredHasWaker
  BY DEF WakerInv, MarksAreWatched, DeferredBehindMark, Watched, DeferredHasWaker
<1>. QED
  BY <1>1, TypeInit, TypeStep, WakerInit, WakerStep, PTL DEF Spec

-----------------------------------------------------------------------------
(* The intake implements Admission. Beside IInv the proof needs that what   *)
(* reaches a handler was admitted: an outcome is never that of a message    *)
(* whose status is still "unknown".                                         *)

LEMMA OnlyInit == Init => OnlyAdmitted
<1> SUFFICES ASSUME Init PROVE OnlyFrom(AdmittedItems)
  BY DEF OnlyAdmitted
<1>1. /\ queue = <<>> /\ sending = [p \in Producers |-> NoItem]
      /\ deferred = [r \in Roots |-> <<>>] /\ hand = [h \in Handlers |-> Idle]
  BY DEF Init
<1>2. \A S : <<>> \in Seq(S)
  OBVIOUS
<1>3. \A S : HandFrom(Idle, S)
  BY <1>2 DEF HandFrom, Idle
<1>. QED
  BY <1>1, <1>2, <1>3 DEF OnlyFrom

\* The next item of a handler is one it had.
LEMMA ThroughFrom ==
  ASSUME NEW S, NEW r \in Hand, r.pc # "idle", HandFrom(r, S)
  PROVE  HandFrom(Through(r), S)
<1>1. CASE r.own
  BY <1>1 DEF Through, HandFrom, Hand
<1>2. CASE ~r.own /\ r.todo = <<>>
  BY <1>2 DEF Through, HandFrom, Idle
<1>3. CASE ~r.own /\ r.todo # <<>>
  <2>1. Head(r.todo) \in S /\ Tail(r.todo) \in Seq(S)
    BY <1>3 DEF HandFrom
  <2>. QED
    BY <1>3, <2>1 DEF Through, HandFrom, Idle
<1>. QED
  BY <1>1, <1>2, <1>3

\* A handler's step hands on what it was given.
LEMMA HandlerOnly ==
  ASSUME TypeOK, NEW S, OnlyFrom(S), NEW h \in Handlers, HandleStep(h)
  PROVE  OnlyFrom(S)'
<1> USE DEF disk, history, shared, producers, bounds
<1>0. /\ hand \in [Handlers -> Hand] /\ Goroutines \subseteq Handlers
      /\ deferred \in [Roots -> Seq(S)] /\ UNCHANGED <<queue, sending>>
      /\ \A k \in Handlers : HandFrom(hand[k], S)
  BY DEF TypeOK, HandOK, Handlers, OnlyFrom, HandleStep, Check, Answer, Drop,
         EscalationFails, AttemptFails, Defer, StartTriage, SpawnTriage, Wake, Bury,
         BuryFails, Commit, CommitFails, Forget, ForgetFails, Release, Unbury, UnburyFails
<1>1. ASSUME Moves(h), ~Wake(h), ~\E g \in Goroutines : SpawnTriage(h, g)
      PROVE  OnlyFrom(S)'
  <2>1. HandFrom(hand'[h], S)
    BY <1>0, <1>1, ThroughFrom DEF Moves, Advances, HandFrom
  <2>2. \A k \in Handlers : HandFrom(hand'[k], S)
    BY <1>0, <1>1, <2>1 DEF Moves
  <2>3. deferred' \in [Roots -> Seq(S)]
    <3>1. CASE deferred' = deferred
      BY <1>0, <3>1
    <3>2. CASE Defer(h)
      <4>1. hand[h].item \in S
        BY <1>0, <3>2 DEF Defer, Busy, HandFrom
      <4>2. deferred' = [deferred EXCEPT ![RootOf[Id(h)]] = Append(@, hand[h].item)]
        BY <3>2 DEF Defer
      <4>3. \A s \in Seq(S) : Append(s, hand[h].item) \in Seq(S)
        BY <4>1
      <4>. QED
        BY <1>0, <4>2, <4>3
    <3>. QED
      BY <1>1, <3>1, <3>2
         DEF HandleStep, Check, Answer, Drop, EscalationFails, AttemptFails, StartTriage,
             Bury, BuryFails, Commit, CommitFails, Forget, ForgetFails, Release, Unbury,
             UnburyFails
  <2>. QED
    BY <1>0, <2>2, <2>3 DEF OnlyFrom
<1>2. CASE Wake(h)
  <2> DEFINE waited == deferred[RootOf[Id(h)]]
             r == [hand[h] EXCEPT !.own = FALSE, !.todo = waited]
  <2>1. /\ deferred' = [deferred EXCEPT ![RootOf[Id(h)]] = <<>>]
        /\ hand' = [hand EXCEPT ![h] = Through(r)]
        /\ hand[h].pc = "wake"
    BY <1>2 DEF Wake, Busy
  <2>2. RootOf[Id(h)] \in Roots
    BY <2>1, HeldItem, IntakeAssumption DEF TypeOK, IntakeAssumption
  <2>3. waited \in Seq(S) /\ waited \in Seq(Items)
    BY <1>0, <2>2 DEF TypeOK, StateOK
  <2>4. r \in Hand /\ r.pc = "wake" /\ HandFrom(r, S)
    BY <1>0, <2>1, <2>3 DEF Hand, HandFrom
  <2> HIDE DEF r
  <2>5. HandFrom(Through(r), S)
    BY <2>4, ThroughFrom
  <2>6. \A k \in Handlers : HandFrom(hand'[k], S)
    BY <1>0, <2>1, <2>5
  <2>7. deferred' \in [Roots -> Seq(S)]
    <3>1. <<>> \in Seq(S)
      OBVIOUS
    <3>. QED
      BY <1>0, <2>1, <3>1
  <2>. QED
    BY <1>0, <2>6, <2>7 DEF OnlyFrom
<1>3. ASSUME NEW g \in Goroutines, SpawnTriage(h, g)
      PROVE  OnlyFrom(S)'
  <2> DEFINE r == [Idle EXCEPT !.pc = "triage", !.item = hand[h].item, !.own = TRUE]
  <2>1. /\ hand' = [hand EXCEPT ![h] = Through(hand[h]), ![g] = r]
        /\ deferred' = deferred /\ hand[h].pc = "start"
    BY <1>3 DEF SpawnTriage, Busy
  <2>2. HandFrom(r, S)
    BY <1>0, <2>1 DEF HandFrom, Idle
  <2> HIDE DEF r
  <2>3. HandFrom(Through(hand[h]), S)
    BY <1>0, <2>1, ThroughFrom
  <2>4. \A k \in Handlers : HandFrom(hand'[k], S)
    BY <1>0, <2>1, <2>2, <2>3
  <2>. QED
    BY <1>0, <2>1, <2>4 DEF OnlyFrom
<1>. QED
  BY <1>1, <1>2, <1>3, HandlerMoves

LEMMA OnlyStep == TypeOK /\ OnlyAdmitted /\ [Next]_vars => OnlyAdmitted'
<1> SUFFICES ASSUME TypeOK, OnlyAdmitted, [Next]_vars PROVE OnlyAdmitted'
  OBVIOUS
<1> USE DEF disk, history, shared, producers, bounds
<1> PICK S : S = AdmittedItems'
  OBVIOUS
<1>1. admitted \subseteq admitted'
  BY DEF Next, Admit, Produce, Send, RecoverPeek, RecoverPeekFails, RecoverNext,
         RecoverSettled, RecoverSettledFails, RecoverEnqueue, RecoverEnqueueFails,
         RecoverDone, ReplayNext, ReplayBusy, ReplayEnqueue, ReplayEnqueueFails,
         Signal, Take, Crash, HandleStep, Check, Answer, Drop,
         EscalationFails, AttemptFails, Defer, StartTriage, SpawnTriage, Wake, Bury,
         BuryFails, Commit, CommitFails, Forget, ForgetFails, Release, Unbury,
         UnburyFails, vars, AddToInbox
<1>2. AdmittedItems \subseteq S
  BY <1>1 DEF AdmittedItems
<1>3. OnlyFrom(S)
  BY <1>2, SeqMonotonic DEF OnlyAdmitted, OnlyFrom, HandFrom
<1>4. OnlyFrom(S)' => OnlyAdmitted'
  BY DEF OnlyAdmitted, OnlyFrom, HandFrom
<1>5. ASSUME NEW it \in Items, AddToInbox(it)
      PROVE  it \in S
  BY <1>5 DEF AddToInbox, AdmittedItems
<1>6. ASSUME queue' = queue, deferred' = deferred, hand' = hand,
             NEW p \in Producers, NEW it \in Items, AddToInbox(it),
             sending' = [sending EXCEPT ![p] = it]
      PROVE  OnlyFrom(S)'
  <2>1. it \in S
    BY <1>5, <1>6
  <2>2. sending' \in [Producers -> S \cup {NoItem}]
    BY <1>3, <1>6, <2>1 DEF OnlyFrom
  <2>. QED
    BY <1>3, <1>6, <2>2 DEF OnlyFrom
<1>7. ASSUME queue' = queue, deferred' = deferred, sending' = sending, hand' = hand
      PROVE  OnlyFrom(S)'
  BY <1>3, <1>7 DEF OnlyFrom
<1>8. ASSUME NEW f \in Feeds, NEW m \in Ids, Admit(f, m)
      PROVE  OnlyFrom(S)'
  BY <1>6, <1>8, ItemFacts DEF Admit, Producers
<1>9. ASSUME NEW p \in Producers, Send(p)
      PROVE  OnlyFrom(S)'
  <2>1. sending[p] \in S
    BY <1>3, <1>9 DEF OnlyFrom, Send
  <2>. QED
    BY <1>3, <1>9, <2>1 DEF OnlyFrom, Send
<1>10. ASSUME RecoverNext PROVE OnlyFrom(S)'
  <2> PICK it \in recover : \/ RecoverSettled(it) \/ RecoverSettledFails(it)
                         \/ RecoverEnqueue(it) \/ RecoverEnqueueFails(it)
    BY <1>10 DEF RecoverNext
  <2>a. queue' = queue /\ deferred' = deferred /\ hand' = hand
    BY DEF RecoverSettled, RecoverSettledFails, RecoverEnqueue, RecoverEnqueueFails
  <2>1. CASE RecoverEnqueue(it)
    <3>1. it \in Items /\ "main" \in Producers
      BY IntakeAssumption DEF TypeOK, StateOK, Producers, IntakeAssumption
    <3>. QED
      BY <1>6, <2>a, <2>1, <3>1 DEF RecoverEnqueue
  <2>2. CASE RecoverSettled(it) \/ RecoverSettledFails(it) \/ RecoverEnqueueFails(it)
    <3>1. sending' = sending
      BY <2>2 DEF RecoverSettled, RecoverSettledFails, RecoverEnqueueFails
    <3>. QED
      BY <1>7, <2>a, <3>1
  <2>. QED
    BY <2>1, <2>2
<1>11. ASSUME ReplayNext PROVE OnlyFrom(S)'
  <2> PICK m \in replays : ReplayBusy(m) \/ ReplayEnqueue(m) \/ ReplayEnqueueFails(m)
    BY <1>11 DEF ReplayNext
  <2>1. queue' = queue /\ deferred' = deferred /\ hand' = hand
    BY <1>11 DEF ReplayNext, ReplayBusy, ReplayEnqueue, ReplayEnqueueFails
  <2>2. CASE ReplayEnqueue(m)
    <3>1. [id |-> m, replay |-> TRUE] \in Items /\ "signal" \in Producers
      BY ItemFacts DEF TypeOK, StateOK, Producers
    <3>. QED
      BY <1>6, <2>1, <2>2, <3>1 DEF ReplayEnqueue
  <2>3. CASE ReplayBusy(m) \/ ReplayEnqueueFails(m)
    <3>1. sending' = sending
      BY <2>3 DEF ReplayBusy, ReplayEnqueueFails
    <3>. QED
      BY <1>7, <2>1, <3>1
  <2>. QED
    BY <2>2, <2>3
<1>12. ASSUME Take PROVE OnlyFrom(S)'
  <2>1. queue \in Seq(S) /\ queue # <<>>
    BY <1>3, <1>12 DEF OnlyFrom, Take
  <2>2. Head(queue) \in S /\ Tail(queue) \in Seq(S)
    BY <2>1
  <2>3. /\ hand' = [hand EXCEPT ![Worker].pc = "check", ![Worker].item = Head(queue)]
        /\ hand \in [Handlers -> Hand] /\ Worker \in Handlers
    BY <1>12 DEF Take, TypeOK, HandOK, Handlers
  <2>4. hand'[Worker].item = Head(queue) /\ hand'[Worker].todo = hand[Worker].todo
    BY <2>3 DEF Hand
  <2>5. \A k \in Handlers : HandFrom(hand'[k], S)
    BY <1>3, <2>2, <2>3, <2>4 DEF OnlyFrom, HandFrom
  <2>6. queue' = Tail(queue) /\ sending' = sending /\ deferred' = deferred
    BY <1>12 DEF Take
  <2>. QED
    BY <1>3, <2>2, <2>5, <2>6 DEF OnlyFrom
<1>13. ASSUME Crash PROVE OnlyFrom(S)'
  <2>1. /\ queue' = <<>> /\ sending' = [p \in Producers |-> NoItem]
        /\ deferred' = [r \in Roots |-> <<>>] /\ hand' = [h \in Handlers |-> Idle]
    BY <1>13 DEF Crash
  <2>2. <<>> \in Seq(S)
    OBVIOUS
  <2>3. HandFrom(Idle, S)
    BY <2>2 DEF HandFrom, Idle
  <2>. QED
    BY <2>1, <2>2, <2>3 DEF OnlyFrom
<1>. QED
  <2>1. ASSUME NEW h \in Handlers, HandleStep(h) PROVE OnlyFrom(S)'
    BY <1>3, <2>1, HandlerOnly
  <2>2. ASSUME \/ RecoverPeek \/ RecoverPeekFails \/ RecoverDone \/ Signal
               \/ UNCHANGED vars
        PROVE  OnlyFrom(S)'
    BY <1>7, <2>2 DEF RecoverPeek, RecoverPeekFails, RecoverDone, Signal, vars
  <2>. QED
    BY <1>4, <1>8, <1>9, <1>10, <1>11, <1>12, <1>13, <2>1, <2>2 DEF Next, Produce

\* The refinement mapping.
Status == [m \in Ids |-> StatusOf(m)]

\* A step that changes where one id stands, and one that changes nothing.
LEMMA OneStands ==
  ASSUME NEW m \in Ids, \A k \in Ids \ {m} : StatusOf(k)' = StatusOf(k)
  PROVE  /\ Status[m] = StatusOf(m)
         /\ Status' = [Status EXCEPT ![m] = StatusOf(m)']
  BY DEF Status

LEMMA AllStand ==
  ASSUME \A k \in Ids : StatusOf(k)' = StatusOf(k)
  PROVE  Status' = Status
  BY DEF Status

\* What is written to the inbox is received, or known already.
LEMMA AddRefines ==
  ASSUME TypeOK, NEW it \in Items, AddToInbox(it), UNCHANGED <<dead, answered>>
  PROVE  Abstract!Receive(it.id) \/ Status' = Status
<1>0. it.id \in Ids
  BY ItemFacts
<1>1. \A k \in Ids \ {it.id} : StatusOf(k)' = StatusOf(k)
  BY DEF AddToInbox, StatusOf, TypeOK, StateOK
<1>2. inbox'[it.id] # "none"
  BY <1>0 DEF AddToInbox, Source, TypeOK, StateOK
<1>3. CASE StatusOf(it.id) = "unknown"
  <2>1. StatusOf(it.id)' = "admitted"
    BY <1>2, <1>3 DEF StatusOf
  <2>. QED
    BY <1>0, <1>1, <1>3, <2>1, OneStands DEF Status, Abstract!Receive, Abstract!Move
<1>4. CASE StatusOf(it.id) # "unknown"
  <2>1. StatusOf(it.id)' = StatusOf(it.id)
    BY <1>2, <1>4 DEF StatusOf
  <2>. QED
    BY <1>1, <2>1, AllStand
<1>. QED
  BY <1>3, <1>4

\* The inbox record of an id that is accounted for may go.
LEMMA ForgetRefines ==
  ASSUME TypeOK, NEW m \in Ids, Accounted(m),
         inbox' = [inbox EXCEPT ![m] = "none"], UNCHANGED <<dead, answered>>
  PROVE  Status' = Status
<1>1. \A k \in Ids : StatusOf(k)' = StatusOf(k)
  BY DEF StatusOf, Accounted, TypeOK, StateOK
<1>. QED
  BY <1>1, AllStand

\* What a handler has in hand was admitted, and is not lost.
LEMMA InHandIsKnown ==
  ASSUME IInv, OnlyAdmitted, NEW h \in Handlers, hand[h].pc # "idle"
  PROVE  Id(h) \in Ids /\ StatusOf(Id(h)) # "unknown"
<1>1. hand[h].item \in AdmittedItems
  BY DEF OnlyAdmitted, OnlyFrom, HandFrom
<1>2. Id(h) \in Ids /\ Id(h) \in admitted
  BY <1>1, ItemFacts DEF AdmittedItems, Id
<1>. QED
  BY <1>2 DEF IInv, NothingLost, Accounted, StatusOf

LEMMA HandlerRefines ==
  ASSUME IInv, OnlyAdmitted, NEW h \in Handlers, HandleStep(h)
  PROVE  Abstract!Next \/ Status' = Status
<1> USE DEF disk, history
<1>0. TypeOK /\ Vouched(hand[h])
  BY DEF IInv, HandsVouched
<1>1. CASE Answer(h)
  <2>1. hand[h].pc # "idle" /\ answered' = answered \cup {Id(h)} /\ UNCHANGED <<inbox, dead>>
    BY <1>1 DEF Answer, Busy
  <2>2. Id(h) \in Ids /\ StatusOf(Id(h)) # "unknown"
    BY <2>1, InHandIsKnown
  <2>3. \A k \in Ids \ {Id(h)} : StatusOf(k)' = StatusOf(k)
    BY <2>1 DEF StatusOf
  <2> PICK m \in Ids : m = Id(h)
    BY <2>2
  <2>4. answered' = answered \cup {m}
    BY <2>1
  <2>5. StatusOf(m)' = "answered"
    BY <2>4 DEF StatusOf
  <2>6. CASE StatusOf(m) = "answered"
    BY <2>3, <2>5, <2>6, AllStand
  <2>7. CASE StatusOf(m) \in {"admitted", "parked"}
    <3>1. Abstract!Resolve(m)
      BY <2>3, <2>5, <2>7, OneStands DEF Status, Abstract!Resolve, Abstract!Move
    <3>. QED
      BY <3>1 DEF Abstract!Next
  <2>. QED
    BY <2>2, <2>6, <2>7 DEF StatusOf
<1>2. CASE Bury(h)
  <2>1. hand[h].pc # "idle" /\ dead' = dead \cup {Id(h)} /\ UNCHANGED <<inbox, answered>>
    BY <1>2 DEF Bury, Busy
  <2>2. Id(h) \in Ids /\ StatusOf(Id(h)) # "unknown"
    BY <2>1, InHandIsKnown
  <2>3. \A k \in Ids \ {Id(h)} : StatusOf(k)' = StatusOf(k)
    BY <2>1 DEF StatusOf
  <2> PICK m \in Ids : m = Id(h)
    BY <2>2
  <2>4. dead' = dead \cup {m} /\ answered' = answered
    BY <2>1
  <2>5. CASE StatusOf(m) \in {"answered", "parked"}
    <3>1. StatusOf(m)' = StatusOf(m)
      BY <2>4, <2>5 DEF StatusOf
    <3>. QED
      BY <2>3, <3>1, AllStand
  <2>6. CASE StatusOf(m) = "admitted"
    <3>1. StatusOf(m)' = "parked"
      BY <2>4, <2>6 DEF StatusOf
    <3>2. Abstract!Park(m)
      BY <2>3, <2>6, <3>1, OneStands DEF Status, Abstract!Park, Abstract!Move
    <3>. QED
      BY <3>2 DEF Abstract!Next
  <2>. QED
    BY <2>2, <2>5, <2>6 DEF StatusOf
<1>3. CASE Forget(h)
  <2>1. hand[h].pc = "forget" /\ inbox' = [inbox EXCEPT ![Id(h)] = "none"]
        /\ UNCHANGED <<dead, answered>>
    BY <1>3 DEF Forget, Busy
  <2>2. Id(h) \in Ids /\ Accounted(Id(h))
    BY <1>0, <2>1, InHandIsKnown DEF Vouched, Id
  <2>. QED
    BY <1>0, <2>1, <2>2, ForgetRefines
<1>4. CASE Unbury(h)
  <2>1. hand[h].pc = "unbury" /\ dead' = dead \ {Id(h)} /\ UNCHANGED <<inbox, answered>>
    BY <1>4 DEF Unbury, Busy
  <2>2. Id(h) \in answered
    BY <1>0, <2>1 DEF Vouched, Id
  <2>3. \A k \in Ids : StatusOf(k)' = StatusOf(k)
    BY <2>1, <2>2 DEF StatusOf
  <2>. QED
    BY <2>3, AllStand
<1>5. ASSUME UNCHANGED <<inbox, dead, answered>>
      PROVE  Status' = Status
  BY <1>5, AllStand DEF StatusOf
<1>. QED
  BY <1>1, <1>2, <1>3, <1>4, <1>5
     DEF HandleStep, Check, Drop, EscalationFails, AttemptFails, Defer, StartTriage,
         SpawnTriage, Wake, BuryFails, Commit, CommitFails, ForgetFails, Release,
         UnburyFails

LEMMA StepRefines ==
  ASSUME IInv, OnlyAdmitted, [Next]_vars
  PROVE  Abstract!Next \/ Status' = Status
<1> USE DEF disk, history, shared, producers, bounds
<1>0. TypeOK
  BY DEF IInv
<1>1. ASSUME NEW it \in Items, AddToInbox(it), UNCHANGED <<dead, answered>>
      PROVE  Abstract!Next \/ Status' = Status
  <2>1. it.id \in Ids
    BY ItemFacts
  <2>. QED
    BY <1>0, <1>1, <2>1, AddRefines DEF Abstract!Next
<1>2. ASSUME UNCHANGED <<inbox, dead, answered>>
      PROVE  Status' = Status
  BY <1>2, AllStand DEF StatusOf
<1>3. ASSUME NEW f \in Feeds, NEW m \in Ids, Admit(f, m)
      PROVE  Abstract!Next \/ Status' = Status
  BY <1>1, <1>3, ItemFacts DEF Admit
<1>4. CASE RecoverNext
  <2> PICK it \in recover : \/ RecoverSettled(it) \/ RecoverSettledFails(it)
                         \/ RecoverEnqueue(it) \/ RecoverEnqueueFails(it)
    BY <1>4 DEF RecoverNext
  <2>0. it \in Items /\ it.id \in Ids
    BY <1>0, ItemFacts DEF TypeOK, StateOK
  <2>1. CASE RecoverEnqueue(it)
    BY <1>1, <2>0, <2>1 DEF RecoverEnqueue
  <2>2. CASE RecoverSettled(it)
    BY <1>0, <2>0, <2>2, ForgetRefines DEF RecoverSettled, IInv, SettledIsAccounted
  <2>3. CASE RecoverSettledFails(it) \/ RecoverEnqueueFails(it)
    BY <1>2, <2>3 DEF RecoverSettledFails, RecoverEnqueueFails
  <2>. QED
    BY <2>1, <2>2, <2>3
<1>5. CASE ReplayNext
  <2> PICK m \in replays : ReplayBusy(m) \/ ReplayEnqueue(m) \/ ReplayEnqueueFails(m)
    BY <1>5 DEF ReplayNext
  <2>1. CASE ReplayEnqueue(m)
    <3>1. [id |-> m, replay |-> TRUE] \in Items
      BY <1>0, ItemFacts DEF TypeOK, StateOK
    <3>. QED
      BY <1>1, <2>1, <3>1 DEF ReplayEnqueue
  <2>2. CASE ReplayBusy(m) \/ ReplayEnqueueFails(m)
    BY <1>2, <2>2 DEF ReplayBusy, ReplayEnqueueFails
  <2>. QED
    BY <2>1, <2>2
<1>6. ASSUME NEW p \in Producers, Send(p)
      PROVE  Status' = Status
  BY <1>2, <1>6 DEF Send
<1>7. ASSUME RecoverPeek \/ RecoverPeekFails \/ RecoverDone \/ Signal \/ Take \/ Crash
      PROVE  Status' = Status
  BY <1>2, <1>7 DEF RecoverPeek, RecoverPeekFails, RecoverDone, Signal, Take, Crash
<1>8. CASE UNCHANGED vars
  BY <1>2, <1>8 DEF vars
<1>. QED
  BY <1>3, <1>4, <1>5, <1>6, <1>7, <1>8, HandlerRefines DEF Next, Produce

LEMMA InitRefines == Init => Abstract!Init
  BY DEF Init, Abstract!Init, StatusOf

\* README.md:24-25 as a protocol: a message goes from the inbox to an outcome
\* or to the dead letters, from those only to an outcome, and never back.
THEOREM IntakeImplementsAdmission == Spec => ImplementsAdmission
<1>1. IInv => TypeOK
  BY DEF IInv
<1>2. IInv /\ OnlyAdmitted /\ [Next]_vars
        => [Abstract!Next]_([m \in Ids |-> StatusOf(m)])
  BY StepRefines DEF Status
<1>. QED
  BY <1>1, <1>2, InvInit, InvStep, OnlyInit, OnlyStep, InitRefines, PTL
     DEF Spec, ImplementsAdmission, Abstract!Spec
=============================================================================
