-------------------------- MODULE WaitQueueProofs ---------------------------
(* Theorems about WaitQueue, for every value of its constants. The files   *)
(* of the window are a finite set, which Enqueue counts.                   *)
EXTENDS WaitQueue, FiniteSetTheorems, TLAPS

-----------------------------------------------------------------------------
(* Type correctness: first what a step leaves in a goroutine's record. *)

LEMMA OffType == Off \in Proc /\ Off.pc = "idle" /\ HasPrompt(Off)
  BY DEF Off, Proc, PCs, HasPrompt

LEMMA TypeInit == Init => TypeOK
  BY OffType DEF Init, TypeOK, StateOK, ProcOK

LEMMA ProcTyped ==
  ASSUME ProcOK, NEW a \in Actors, NEW r \in Proc, HasPrompt(r),
         proc' = [proc EXCEPT ![a] = r]
  PROVE  ProcOK'
<1>1. proc' \in [Actors -> Proc]
  BY DEF ProcOK
<1>2. ASSUME NEW b \in Actors PROVE HasPrompt(proc'[b])
  <2>1. CASE b = a
    BY <2>1 DEF ProcOK
  <2>2. CASE b # a
    BY <2>2 DEF ProcOK
  <2>. QED
    BY <2>1, <2>2
<1>. QED
  BY <1>1, <1>2 DEF ProcOK, HasPrompt

LEMMA LeaveTyped ==
  ASSUME ProcOK, NEW a \in Actors, Leave(a)
  PROVE  ProcOK'
  BY OffType, ProcTyped DEF Leave

\* Moving on is safe when the goroutine has a prompt, or needs none.
LEMMA GotoTyped ==
  ASSUME ProcOK, NEW a \in Actors, NEW pc \in PCs, Goto(a, pc),
         \/ pc \in {"peek", "keep", "aside", "idle"}
         \/ proc[a].prompt \in Prompts
  PROVE  ProcOK'
<1> DEFINE r == [proc[a] EXCEPT !.pc = pc]
<1>1. r \in Proc /\ r.pc = pc /\ r.prompt = proc[a].prompt
  BY DEF Proc, ProcOK
<1>2. proc' = [proc EXCEPT ![a] = r]
  BY DEF Goto
<1> HIDE DEF r
<1>3. HasPrompt(r)
  BY <1>1 DEF HasPrompt
<1>. QED
  BY <1>1, <1>2, <1>3, ProcTyped

LEMMA PromptTyped ==
  ASSUME ProcOK, NEW a \in Actors, NEW pc \in PCs, NEW p \in Prompts,
         proc' = [proc EXCEPT ![a].pc = pc, ![a].prompt = p]
  PROVE  ProcOK'
<1> DEFINE r == [proc[a] EXCEPT !.pc = pc, !.prompt = p]
<1>1. r \in Proc /\ r.prompt = p
  BY DEF Proc, ProcOK
<1>2. proc' = [proc EXCEPT ![a] = r]
  BY DEF ProcOK
<1> HIDE DEF r
<1>3. HasPrompt(r)
  BY <1>1 DEF HasPrompt
<1>. QED
  BY <1>1, <1>2, <1>3, ProcTyped

LEMMA TodoTyped ==
  ASSUME ProcOK, NEW a \in Actors, NEW S \in SUBSET Prompts,
         proc' = [proc EXCEPT ![a].pc = "aside", ![a].todo = S]
  PROVE  ProcOK'
<1> DEFINE r == [proc[a] EXCEPT !.pc = "aside", !.todo = S]
<1>1. r \in Proc /\ r.pc = "aside"
  BY DEF Proc, ProcOK, PCs
<1>2. proc' = [proc EXCEPT ![a] = r]
  BY DEF ProcOK
<1> HIDE DEF r
<1>3. HasPrompt(r)
  BY <1>1 DEF HasPrompt
<1>. QED
  BY <1>1, <1>2, <1>3, ProcTyped

\* SendPrompt, the same for a deliverer and for a drain.
LEMMA TypeTyped ==
  ASSUME StateOK, ProcOK, NEW a \in Actors, Type(a)
  PROVE  StateOK' /\ ProcOK'
<1>1. proc[a].prompt \in Prompts
  BY DEF ProcOK, HasPrompt, Type, At
<1>. QED
  BY <1>1, GotoTyped DEF Type, StateOK, PCs, callers, disk, bounds

LEMMA EnterTyped ==
  ASSUME StateOK, ProcOK, NEW a \in Actors, Enter(a)
  PROVE  StateOK' /\ ProcOK'
<1>1. proc[a].prompt \in Prompts
  BY DEF ProcOK, HasPrompt, Enter, At
<1>2. sent' \in [Prompts -> Nat]
  BY DEF StateOK, Enter
<1>3. fate' \in [Prompts -> {"new", "pending", "refused", "accepted"}]
  BY DEF StateOK, Enter, Tell
<1>. QED
  BY <1>1, <1>2, <1>3, GotoTyped, LeaveTyped DEF Enter, StateOK, PCs, disk, bounds

LEMMA SendFailsTyped ==
  ASSUME StateOK, ProcOK, NEW a \in Actors, SendFails(a)
  PROVE  StateOK' /\ ProcOK'
<1>1. ProcOK'
  BY GotoTyped, LeaveTyped DEF SendFails, SendFailed, PCs
<1>2. fate' \in [Prompts -> {"new", "pending", "refused", "accepted"}]
  BY DEF StateOK, SendFails, SendFailed, Tell
<1>3. faults' \in Nat /\ crashes' \in Nat
  BY DEF StateOK, SendFails, WindowFails, Fault, bounds
<1>. QED
  BY <1>1, <1>2, <1>3 DEF SendFails, StateOK, disk, agent

\* The steps of deliver.
LEMMA DelivererType ==
  ASSUME TypeOK, NEW d \in Deliverers,
         DelivererStep(d) \/ \E p \in Prompts : Deliver(d, p)
  PROVE  TypeOK'
<1> USE DEF disk, agent, callers, bounds
<1>0. StateOK /\ ProcOK /\ d \in Actors /\ proc[d] \in Proc /\ HasPrompt(proc[d])
  BY DEF TypeOK, ProcOK, Actors
<1>1. ASSUME NEW p \in Prompts, Deliver(d, p) PROVE StateOK' /\ ProcOK'
  <2> DEFINE now == waiting = {} /\ session # "blocked"
             r == [Off EXCEPT !.pc = IF now THEN "type" ELSE "append",
                              !.prompt = p, !.first = (waiting = {})]
  <2>1. r \in Proc /\ HasPrompt(r)
    BY DEF Off, Proc, PCs, HasPrompt
  <2>2. proc' = [proc EXCEPT ![d] = r]
    BY <1>1 DEF Deliver
  <2> HIDE DEF r
  <2>3. ProcOK'
    BY <1>0, <2>1, <2>2, ProcTyped
  <2>4. mu' \in Deliverers \cup {None} /\ fate' \in [Prompts -> {"new", "pending", "refused", "accepted"}]
    BY <1>0, <1>1 DEF Deliver, StateOK
  <2>. QED
    BY <1>0, <1>1, <2>3, <2>4 DEF Deliver, StateOK
<1>2. ASSUME NEW p \in Prompts, DeliverFails(d, p) PROVE StateOK' /\ ProcOK'
  <2>1. fate' \in [Prompts -> {"new", "pending", "refused", "accepted"}]
    BY <1>0, <1>2 DEF DeliverFails, StateOK
  <2>. QED
    BY <1>0, <1>2, <2>1 DEF DeliverFails, StateOK, ProcOK, HasPrompt, Fault
<1>3. ASSUME Enqueue(d) PROVE StateOK' /\ ProcOK'
  <2>1. proc[d].prompt \in Prompts
    BY <1>0, <1>3 DEF Enqueue, At, HasPrompt
  <2>2. Cardinality({q \in Prompts : at[q] > 0}) \in Nat
    <3>1. Cardinality(Prompts) \in Nat /\ IsFiniteSet(Prompts)
      BY FS_CardinalityType, WaitQueueAssumption DEF WaitQueueAssumption
    <3>. QED
      BY <3>1, FS_Subset, FS_CardinalityType
  <2>3. at' \in [Prompts -> Nat]
    BY <1>0, <1>3, <2>1, <2>2 DEF Enqueue, StateOK
  <2>4. StateOK'
    BY <1>0, <1>3, <2>1, <2>3 DEF Enqueue, StateOK, Tell
  <2>5. ProcOK'
    <3>1. CASE Leave(d)
      BY <1>0, <3>1, LeaveTyped
    <3>2. ASSUME NEW k \in Drains, proc' = [proc EXCEPT ![d] = Off, ![k].pc = "peek"]
          PROVE  ProcOK'
      <4>1. k # d /\ k \in Actors
        BY WaitQueueAssumption DEF WaitQueueAssumption, Actors
      <4> DEFINE r == [proc[k] EXCEPT !.pc = "peek"]
      <4>2. r \in Proc /\ HasPrompt(r)
        BY <1>0, <4>1 DEF ProcOK, Proc, PCs, HasPrompt
      <4>3. proc' = [proc EXCEPT ![d] = Off, ![k] = r]
        BY <1>0, <3>2, <4>1 DEF ProcOK
      <4> HIDE DEF r
      <4>. QED
        BY <1>0, <4>1, <4>2, <4>3, OffType DEF ProcOK
    <3>. QED
      BY <1>3, <3>1, <3>2 DEF Enqueue
  <2>. QED
    BY <2>4, <2>5
<1>4. ASSUME EnqueueFails(d) PROVE StateOK' /\ ProcOK'
  <2>1. fate' \in [Prompts -> {"new", "pending", "refused", "accepted"}]
    BY <1>0, <1>4 DEF EnqueueFails, StateOK, Tell
  <2>. QED
    BY <1>0, <1>4, <2>1, LeaveTyped DEF EnqueueFails, StateOK, Fault
<1>5. ASSUME Type(d) PROVE StateOK' /\ ProcOK'
  BY <1>0, <1>5, TypeTyped
<1>6. ASSUME Enter(d) PROVE StateOK' /\ ProcOK'
  BY <1>0, <1>6, EnterTyped
<1>7. ASSUME SendFails(d) PROVE StateOK' /\ ProcOK'
  BY <1>0, <1>7, SendFailsTyped
<1>. QED
  BY <1>1, <1>2, <1>3, <1>4, <1>5, <1>6, <1>7 DEF DelivererStep, TypeOK

\* The steps of drain and of keepUndelivered.
LEMMA DrainType ==
  ASSUME TypeOK, NEW k \in Drains, DrainStep(k) \/ Stop(k)
  PROVE  TypeOK'
<1> USE DEF disk, agent, callers, bounds
<1>0. StateOK /\ ProcOK /\ k \in Actors /\ proc[k] \in Proc /\ HasPrompt(proc[k])
  BY DEF TypeOK, ProcOK, Actors
<1>1. ASSUME Peek(k) PROVE StateOK' /\ ProcOK'
  BY <1>0, <1>1, LeaveTyped, PromptTyped DEF Peek, StateOK, PCs
<1>2. ASSUME PeekFails(k) PROVE StateOK' /\ ProcOK'
  BY <1>0, <1>2, LeaveTyped DEF PeekFails, StateOK, Fault
<1>3. ASSUME AwaitUnblocked(k) PROVE StateOK' /\ ProcOK'
  BY <1>0, <1>3, GotoTyped DEF AwaitUnblocked, StateOK, PCs, At, HasPrompt
<1>4. ASSUME AwaitFails(k) PROVE StateOK' /\ ProcOK'
  BY <1>0, <1>4, GotoTyped DEF AwaitFails, StateOK, PCs
<1>5. ASSUME Type(k) PROVE StateOK' /\ ProcOK'
  BY <1>0, <1>5, TypeTyped
<1>6. ASSUME Enter(k) PROVE StateOK' /\ ProcOK'
  BY <1>0, <1>6, EnterTyped
<1>7. ASSUME SendFails(k) PROVE StateOK' /\ ProcOK'
  BY <1>0, <1>7, SendFailsTyped
<1>8. ASSUME Remove(k) PROVE StateOK' /\ ProcOK'
  BY <1>0, <1>8, GotoTyped DEF Remove, StateOK, PCs
<1>9. ASSUME RemoveFails(k) PROVE StateOK' /\ ProcOK'
  BY <1>0, <1>9, LeaveTyped DEF RemoveFails, StateOK, Fault
<1>10. ASSUME KeepPeek(k) PROVE StateOK' /\ ProcOK'
  BY <1>0, <1>10, LeaveTyped, TodoTyped DEF KeepPeek, StateOK
<1>11. ASSUME KeepWrite(k) PROVE StateOK' /\ ProcOK'
  BY <1>0, <1>11, PromptTyped DEF KeepWrite, StateOK, PCs
<1>12. ASSUME KeepRemove(k) PROVE StateOK' /\ ProcOK'
  <2>1. proc[k].todo \ {proc[k].prompt} \in SUBSET Prompts
    BY <1>0 DEF Proc
  <2>2. StateOK'
    BY <1>0, <1>12 DEF KeepRemove, StateOK
  <2>3. ProcOK'
    <3>1. CASE proc[k].todo = {proc[k].prompt}
      BY <1>0, <1>12, <3>1, LeaveTyped DEF KeepRemove
    <3>2. CASE proc[k].todo # {proc[k].prompt}
      <4>1. proc' = [proc EXCEPT ![k].pc = "aside",
                                 ![k].todo = proc[k].todo \ {proc[k].prompt}]
        BY <1>0, <1>12, <3>2 DEF KeepRemove, ProcOK
      <4>. QED
        BY <1>0, <2>1, <4>1, TodoTyped
    <3>. QED
      BY <3>1, <3>2
  <2>. QED
    BY <2>2, <2>3
<1>13. ASSUME KeepFails(k) PROVE StateOK' /\ ProcOK'
  BY <1>0, <1>13, LeaveTyped DEF KeepFails, StateOK, Fault
<1>14. ASSUME Stop(k) PROVE StateOK' /\ ProcOK'
  BY <1>0, <1>14, GotoTyped DEF Stop, WindowGone, StateOK, PCs
<1>. QED
  BY <1>1, <1>2, <1>3, <1>4, <1>5, <1>6, <1>7, <1>8, <1>9, <1>10, <1>11, <1>12,
     <1>13, <1>14 DEF DrainStep, TypeOK

LEMMA TypeStep == TypeOK /\ [Next]_vars => TypeOK'
<1> SUFFICES ASSUME TypeOK, [Next]_vars PROVE TypeOK'
  OBVIOUS
<1> USE DEF disk, agent, callers, bounds
<1>1. CASE Close
  BY <1>1 DEF Close, WindowGone, TypeOK, StateOK, ProcOK, HasPrompt
<1>2. ASSUME NEW s \in {"working", "blocked", "ended"}, Report(s) PROVE TypeOK'
  BY <1>2 DEF Report, TypeOK, StateOK, ProcOK, HasPrompt
<1>3. CASE Crash
  BY <1>3, OffType DEF Crash, TypeOK, StateOK, ProcOK, HasPrompt
<1>4. CASE Resume
  <2>1. StateOK'
    BY <1>4 DEF Resume, TypeOK, StateOK
  <2>2. ProcOK'
    <3>1. CASE UNCHANGED proc
      BY <3>1 DEF TypeOK, ProcOK, HasPrompt
    <3>2. ASSUME NEW k \in Drains, Goto(k, "peek") PROVE ProcOK'
      BY <3>2, GotoTyped DEF TypeOK, PCs, Actors
    <3>3. ASSUME NEW k \in Drains, Goto(k, "keep") PROVE ProcOK'
      BY <3>3, GotoTyped DEF TypeOK, PCs, Actors
    <3>. QED
      BY <1>4, <3>1, <3>2, <3>3 DEF Resume
  <2>. QED
    BY <2>1, <2>2 DEF TypeOK
<1>5. CASE ResumeFails
  BY <1>5 DEF ResumeFails, Fault, TypeOK, StateOK, ProcOK, HasPrompt
<1>6. CASE UNCHANGED vars
  BY <1>6 DEF vars, TypeOK, StateOK, ProcOK, HasPrompt
<1>. QED
  BY <1>1, <1>2, <1>3, <1>4, <1>5, <1>6, DelivererType, DrainType DEF Next

\* Every variable of the wait queue keeps its type.
THEOREM TypeCorrect == Spec => []TypeOK
  BY TypeInit, TypeStep, PTL DEF Spec

-----------------------------------------------------------------------------
(* Nothing that was accepted vanishes. *)

LEMMA InvInit == Init => IInv
<1> SUFFICES ASSUME Init PROVE IInv
  OBVIOUS
<1>. QED
  BY TypeInit DEF IInv, Init, AcceptedIsKept, AllJustified, Justified, Off

\* What justifies taking a prompt away lasts: submissions and files kept aside
\* only accumulate, and what is typed stays typed until someone submits it.
LEMMA Lasting ==
  ASSUME IInv, [Next]_vars
  PROVE  /\ aside \subseteq aside'
         /\ \A p \in Prompts : sent[p] > 0 => sent'[p] > 0
         /\ window' => window
         /\ window' => \A p \in line : p \in line' \/ sent'[p] > 0
<1> USE DEF disk, agent, bounds
<1>0. /\ window \in BOOLEAN /\ line \subseteq Prompts /\ sent \in [Prompts -> Nat]
  BY DEF IInv, TypeOK, StateOK
<1>1. ASSUME NEW a \in Actors, Enter(a)
      PROVE  /\ UNCHANGED <<aside, window>>
             /\ \A p \in Prompts : sent[p] > 0 => sent'[p] > 0
             /\ \A p \in line : sent'[p] > 0
  BY <1>0, <1>1 DEF Enter
<1>2. ASSUME NEW a \in Actors, Type(a)
      PROVE  UNCHANGED <<aside, window, sent>> /\ line \subseteq line'
  BY <1>2 DEF Type
<1>3. ASSUME NEW k \in Drains, KeepWrite(k)
      PROVE  aside \subseteq aside' /\ UNCHANGED <<window, line, sent>>
  BY <1>3 DEF KeepWrite
<1>4. ASSUME WindowGone, UNCHANGED aside
      PROVE  aside \subseteq aside' /\ ~window' /\ sent' = sent
  BY <1>4 DEF WindowGone
<1>5. ASSUME NEW d \in Deliverers, DelivererStep(d) \/ \E p \in Prompts : Deliver(d, p),
             ~Type(d), ~Enter(d)
      PROVE  UNCHANGED <<aside, agent>>
  BY <1>5 DEF DelivererStep, Deliver, DeliverFails, Enqueue, EnqueueFails, SendFails
<1>6. ASSUME NEW k \in Drains, DrainStep(k), ~Type(k), ~Enter(k), ~KeepWrite(k)
      PROVE  UNCHANGED <<aside, agent>>
  BY <1>6 DEF DrainStep, Peek, PeekFails, AwaitUnblocked, AwaitFails, SendFails, Remove,
              RemoveFails, KeepPeek, KeepRemove, KeepFails
<1>7. CASE Next
  <2>1. CASE \E a \in Actors : Enter(a)
    BY <1>1, <2>1
  <2>2. CASE \E a \in Actors : Type(a)
    BY <1>2, <2>2
  <2>3. CASE (\E k \in Drains : KeepWrite(k))
    BY <1>3, <2>3
  <2>4. CASE Close \/ \E k \in Drains : Stop(k)
    BY <1>4, <2>4 DEF Close, Stop
  <2>5. CASE \/ \E s \in {"working", "blocked", "ended"} : Report(s)
             \/ Crash \/ Resume \/ ResumeFails
    <3>1. UNCHANGED <<aside, window, line, sent>>
      BY <2>5 DEF Report, Crash, Resume, ResumeFails
    <3>. QED
      BY <3>1
  <2>6. CASE ~\E a \in Actors : Enter(a) \/ Type(a)
    <3>1. \A d \in Deliverers : ~Type(d) /\ ~Enter(d)
      BY <2>6 DEF Actors
    <3>2. \A k \in Drains : ~Type(k) /\ ~Enter(k)
      BY <2>6 DEF Actors
    <3>. QED
      BY <1>5, <1>6, <1>7, <2>3, <2>4, <2>5, <3>1, <3>2 DEF Next
  <2>. QED
    BY <2>1, <2>2, <2>6
<1>8. CASE UNCHANGED vars
  BY <1>8 DEF vars
<1>. QED
  BY <1>7, <1>8

\* A goroutine whose record a step leaves alone stays justified.
LEMMA OthersJustified ==
  ASSUME IInv, [Next]_vars, NEW a \in Actors, proc'[a] = proc[a]
  PROVE  Justified(proc[a])'
<1>1. Justified(proc[a]) /\ HasPrompt(proc[a])
  BY DEF IInv, AllJustified, TypeOK, ProcOK
<1>. QED
  BY <1>1, Lasting DEF Justified, HasPrompt

\* Who leaves, or goes where nothing has to be shown, is justified.
LEMMA Unburdened ==
  ASSUME ProcOK, NEW a \in Actors,
         Leave(a) \/ \E pc \in PCs \ {"enter", "remove", "clear"} : Goto(a, pc)
  PROVE  Justified(proc[a])' /\ \A b \in Actors \ {a} : proc'[b] = proc[b]
<1>1. CASE Leave(a)
  BY <1>1 DEF Leave, Justified, Off, ProcOK
<1>2. ASSUME NEW pc \in PCs \ {"enter", "remove", "clear"}, Goto(a, pc)
      PROVE  Justified(proc[a])' /\ \A b \in Actors \ {a} : proc'[b] = proc[b]
  <2>1. proc'[a].pc = pc /\ \A b \in Actors \ {a} : proc'[b] = proc[b]
    BY <1>2 DEF Goto, ProcOK, Proc
  <2>. QED
    BY <2>1 DEF Justified
<1>. QED
  BY <1>1, <1>2

LEMMA SendJustified ==
  ASSUME IInv, NEW a \in Actors, Type(a) \/ Enter(a) \/ SendFails(a)
  PROVE  Justified(proc[a])' /\ \A b \in Actors \ {a} : proc'[b] = proc[b]
<1>0. ProcOK /\ StateOK /\ HasPrompt(proc[a]) /\ Justified(proc[a])
  BY DEF IInv, TypeOK, ProcOK, AllJustified
<1>1. CASE Type(a)
  <2>1. /\ proc'[a].pc = "enter" /\ proc'[a].prompt = proc[a].prompt
        /\ \A b \in Actors \ {a} : proc'[b] = proc[b]
    BY <1>0, <1>1 DEF Type, Goto, ProcOK, Proc
  <2>2. proc[a].prompt \in line'
    BY <1>1 DEF Type
  <2>. QED
    BY <2>1, <2>2 DEF Justified
<1>2. CASE Enter(a) /\ a \in Deliverers
  BY <1>0, <1>2, Unburdened DEF Enter
<1>3. CASE Enter(a) /\ a \notin Deliverers
  <2>1. /\ proc'[a].pc = "remove" /\ proc'[a].prompt = proc[a].prompt
        /\ \A b \in Actors \ {a} : proc'[b] = proc[b]
    BY <1>0, <1>3 DEF Enter, Goto, ProcOK, Proc
  <2>2. proc[a].prompt \in Prompts /\ (proc[a].prompt \in line \/ sent[proc[a].prompt] > 0)
    BY <1>0, <1>3 DEF Enter, At, HasPrompt, Justified
  <2>3. sent'[proc[a].prompt] > 0
    BY <1>0, <1>3, <2>2 DEF Enter, StateOK
  <2>. QED
    BY <2>1, <2>3 DEF Justified
<1>4. CASE SendFails(a)
  BY <1>0, <1>4, Unburdened DEF SendFails, SendFailed, PCs
<1>. QED
  BY <1>1, <1>2, <1>3, <1>4

LEMMA JustifiedStep == IInv /\ [Next]_vars => AllJustified'
<1> SUFFICES ASSUME IInv, [Next]_vars PROVE AllJustified'
  OBVIOUS
<1> USE DEF PCs
<1>0. ProcOK
  BY DEF IInv, TypeOK
<1>1. ASSUME NEW a \in Actors, Justified(proc[a])',
             \A b \in Actors \ {a} : proc'[b] = proc[b]
      PROVE  AllJustified'
  BY <1>1, OthersJustified DEF AllJustified
<1>2. ASSUME UNCHANGED proc PROVE AllJustified'
  BY <1>2, OthersJustified DEF AllJustified
<1>3. ASSUME NEW a \in Actors, Type(a) \/ Enter(a) \/ SendFails(a) PROVE AllJustified'
  BY <1>1, <1>3, SendJustified
<1>4. ASSUME NEW d \in Deliverers, NEW p \in Prompts, Deliver(d, p) PROVE AllJustified'
  <2>1. /\ d \in Actors /\ proc'[d].pc \in {"type", "append"}
        /\ \A b \in Actors \ {d} : proc'[b] = proc[b]
    BY <1>0, <1>4 DEF Deliver, ProcOK, Off, Actors
  <2>2. Justified(proc[d])'
    BY <2>1 DEF Justified
  <2>. QED
    BY <1>1, <2>1, <2>2
<1>5. ASSUME NEW d \in Deliverers, Enqueue(d) PROVE AllJustified'
  <2>1. CASE Leave(d)
    BY <1>0, <1>1, <2>1, Unburdened DEF Actors
  <2>2. ASSUME NEW k \in Drains, proc' = [proc EXCEPT ![d] = Off, ![k].pc = "peek"]
        PROVE  AllJustified'
    <3>1. k # d /\ k \in Actors /\ d \in Actors
      BY WaitQueueAssumption DEF WaitQueueAssumption, Actors
    <3>2. /\ proc'[k].pc = "peek" /\ proc'[d] = Off
          /\ \A b \in Actors \ {d, k} : proc'[b] = proc[b]
      BY <1>0, <2>2, <3>1 DEF ProcOK, Proc
    <3>3. Justified(proc[k])' /\ Justified(proc[d])'
      BY <3>2 DEF Justified, Off
    <3>. QED
      BY <3>2, <3>3, OthersJustified DEF AllJustified
  <2>. QED
    BY <1>5, <2>1, <2>2 DEF Enqueue
<1>6. ASSUME NEW d \in Deliverers, EnqueueFails(d) PROVE AllJustified'
  BY <1>0, <1>1, <1>6, Unburdened DEF EnqueueFails, Actors
<1>7. ASSUME NEW k \in Drains, Peek(k) PROVE AllJustified'
  <2>1. CASE Leave(k)
    BY <1>0, <1>1, <2>1, Unburdened DEF Actors
  <2>2. ASSUME NEW p \in Prompts, proc' = [proc EXCEPT ![k].pc = "await", ![k].prompt = p]
        PROVE  AllJustified'
    <3>1. /\ k \in Actors /\ proc'[k].pc = "await"
          /\ \A b \in Actors \ {k} : proc'[b] = proc[b]
      BY <1>0, <2>2 DEF ProcOK, Proc, Actors
    <3>. QED
      BY <1>1, <3>1 DEF Justified
  <2>. QED
    BY <1>7, <2>1, <2>2 DEF Peek
<1>8. ASSUME NEW k \in Drains,
             PeekFails(k) \/ AwaitUnblocked(k) \/ AwaitFails(k) \/ Remove(k)
             \/ RemoveFails(k) \/ KeepFails(k) \/ Stop(k)
      PROVE  AllJustified'
  <2>1. Leave(k) \/ \E pc \in PCs \ {"enter", "remove", "clear"} : Goto(k, pc)
    BY <1>8 DEF PeekFails, AwaitUnblocked, AwaitFails, Remove, RemoveFails, KeepFails, Stop
  <2>. QED
    BY <1>0, <1>1, <2>1, Unburdened DEF Actors
<1>9. ASSUME NEW k \in Drains, KeepPeek(k) PROVE AllJustified'
  <2>1. CASE Leave(k)
    BY <1>0, <1>1, <2>1, Unburdened DEF Actors
  <2>2. CASE proc' = [proc EXCEPT ![k].pc = "aside", ![k].todo = waiting]
    <3>1. /\ k \in Actors /\ proc'[k].pc = "aside"
          /\ \A b \in Actors \ {k} : proc'[b] = proc[b]
      BY <1>0, <2>2 DEF ProcOK, Proc, Actors
    <3>. QED
      BY <1>1, <3>1 DEF Justified
  <2>. QED
    BY <1>9, <2>1, <2>2 DEF KeepPeek
<1>10. ASSUME NEW k \in Drains, KeepWrite(k) PROVE AllJustified'
  <2>1. PICK p \in Prompts : /\ aside' = aside \cup {p}
                             /\ proc' = [proc EXCEPT ![k].pc = "clear", ![k].prompt = p]
    BY <1>10 DEF KeepWrite
  <2>2. /\ k \in Actors /\ proc'[k].pc = "clear" /\ proc'[k].prompt = p
        /\ \A b \in Actors \ {k} : proc'[b] = proc[b]
    BY <1>0, <2>1 DEF ProcOK, Proc, Actors
  <2>3. Justified(proc[k])'
    BY <2>1, <2>2 DEF Justified
  <2>. QED
    BY <1>1, <2>2, <2>3
<1>11. ASSUME NEW k \in Drains, KeepRemove(k) PROVE AllJustified'
  <2>1. CASE Leave(k)
    BY <1>0, <1>1, <2>1, Unburdened DEF Actors
  <2>2. CASE proc' = [proc EXCEPT ![k].pc = "aside", ![k].todo = @ \ {proc[k].prompt}]
    <3>1. /\ k \in Actors /\ proc'[k].pc = "aside"
          /\ \A b \in Actors \ {k} : proc'[b] = proc[b]
      BY <1>0, <2>2 DEF ProcOK, Proc, Actors
    <3>. QED
      BY <1>1, <3>1 DEF Justified
  <2>. QED
    BY <1>11, <2>1, <2>2 DEF KeepRemove
<1>12. CASE Crash
  BY <1>12 DEF Crash, AllJustified, Justified, Off
<1>13. CASE Resume
  <2>1. ASSUME NEW k \in Drains, Goto(k, "peek") \/ Goto(k, "keep") PROVE AllJustified'
    BY <1>0, <1>1, <2>1, Unburdened DEF Actors
  <2>. QED
    BY <1>2, <1>13, <2>1 DEF Resume
<1>14. CASE \/ \E d \in Deliverers, p \in Prompts : DeliverFails(d, p)
            \/ Close \/ \E s \in {"working", "blocked", "ended"} : Report(s)
            \/ ResumeFails \/ UNCHANGED vars
  BY <1>2, <1>14 DEF DeliverFails, Close, Report, ResumeFails, vars
<1>. QED
  BY <1>3, <1>4, <1>5, <1>6, <1>7, <1>8, <1>9, <1>10, <1>11, <1>12, <1>13, <1>14
     DEF Next, DelivererStep, DrainStep, Actors

\* What leaves the queue was submitted or put aside: only a drain takes it.
LEMMA TakenIsDone ==
  ASSUME IInv, [Next]_vars, NEW p \in waiting \ waiting'
  PROVE  sent'[p] > 0 \/ p \in aside'
<1> USE DEF disk, agent, callers, bounds
<1>0. /\ ProcOK /\ p \in Prompts
      /\ \A a \in Actors : Justified(proc[a]) /\ HasPrompt(proc[a])
  BY DEF IInv, TypeOK, StateOK, ProcOK, AllJustified
<1>1. PICK k \in Drains : Remove(k) \/ KeepRemove(k)
  BY DEF Next, DelivererStep, DrainStep, Deliver, DeliverFails, Enqueue, EnqueueFails,
         Type, Enter, SendFails, Peek, PeekFails, AwaitUnblocked, AwaitFails,
         RemoveFails, KeepPeek, KeepWrite, KeepFails, Stop, Close, Report, Crash,
         Resume, ResumeFails, vars
<1>2. CASE Remove(k)
  <2>1. p = proc[k].prompt /\ sent[p] > 0
    BY <1>0, <1>2 DEF Remove, At, Justified, Actors
  <2>. QED
    BY <1>0, <2>1, Lasting
<1>3. CASE KeepRemove(k)
  <2>1. p = proc[k].prompt /\ p \in aside
    BY <1>0, <1>3 DEF KeepRemove, At, Justified, Actors
  <2>. QED
    BY <2>1, Lasting
<1>. QED
  BY <1>1, <1>2, <1>3

LEMMA AcceptedStep == IInv /\ [Next]_vars => AcceptedIsKept'
<1> SUFFICES ASSUME IInv, [Next]_vars, NEW p \in Prompts, fate'[p] = "accepted"
             PROVE  sent'[p] > 0 \/ p \in waiting' \/ p \in aside'
  BY DEF AcceptedIsKept
<1> USE DEF disk, agent, callers, bounds
<1>0. /\ StateOK /\ ProcOK /\ AcceptedIsKept
      /\ \A a \in Actors : HasPrompt(proc[a]) /\ Justified(proc[a])
  BY DEF IInv, TypeOK, ProcOK, AllJustified
\* What was accepted before: only a drain takes it out of the queue.
<1>1. CASE fate[p] = "accepted"
  <2>1. sent[p] > 0 \/ p \in waiting \/ p \in aside
    BY <1>0, <1>1 DEF AcceptedIsKept
  <2>2. CASE sent[p] > 0 \/ p \in aside
    BY <2>2, Lasting
  <2>3. CASE p \in waiting /\ p \notin waiting'
    BY <2>3, TakenIsDone
  <2>. QED
    BY <2>1, <2>2, <2>3
\* What is accepted by this step: queued, or submitted.
<1>2. CASE fate[p] # "accepted"
  <2>1. fate \in [Prompts -> {"new", "pending", "refused", "accepted"}]
    BY <1>0 DEF StateOK
  <2>2. \/ \E d \in Deliverers : Enqueue(d)
        \/ \E a \in Actors : Enter(a) /\ a \in Deliverers
    <3>1. ASSUME NEW d \in Deliverers, NEW q \in Prompts, Deliver(d, q) \/ DeliverFails(d, q)
          PROVE  FALSE
      BY <1>2, <2>1, <3>1 DEF Deliver, DeliverFails
    <3>2. ASSUME NEW a \in Actors, EnqueueFails(a) \/ SendFails(a)
          PROVE  FALSE
      BY <1>2, <2>1, <3>2 DEF EnqueueFails, SendFails, SendFailed, Tell
    <3>3. ASSUME NEW a \in Actors, Type(a) \/ (Enter(a) /\ a \notin Deliverers)
          PROVE  FALSE
      BY <1>2, <3>3 DEF Type, Enter
    <3>4. CASE Crash
      BY <1>2, <2>1, <3>4 DEF Crash
    <3>5. fate' # fate
      BY <1>2
    <3>. QED
      BY <3>1, <3>2, <3>3, <3>4, <3>5
         DEF Next, DelivererStep, DrainStep, Peek, PeekFails, AwaitUnblocked, AwaitFails,
             Remove, RemoveFails, KeepPeek, KeepWrite, KeepRemove, KeepFails, Stop, Close,
             Report, Resume, ResumeFails, vars, Actors
  <2>3. ASSUME NEW d \in Deliverers, Enqueue(d)
        PROVE  p \in waiting'
    BY <1>2, <2>1, <2>3 DEF Enqueue, Tell
  <2>4. ASSUME NEW d \in Actors, Enter(d), d \in Deliverers
        PROVE  sent'[p] > 0
    <3>1. p = proc[d].prompt
      BY <1>2, <2>1, <2>4 DEF Enter, Tell
    <3>2. p \in line \/ sent[p] > 0
      BY <1>0, <2>4, <3>1 DEF Enter, At, Justified
    <3>. QED
      BY <1>0, <2>4, <3>2 DEF Enter, StateOK
  <2>. QED
    BY <2>2, <2>3, <2>4
<1>. QED
  BY <1>1, <1>2

LEMMA InvStep == IInv /\ [Next]_vars => IInv'
  BY TypeStep, JustifiedStep, AcceptedStep DEF IInv

\* However deliveries, drains, a stop phrase, failures and crashes interleave,
\* a prompt deliver accepted was submitted, waits on disk, or is kept aside.
THEOREM AcceptedNeverVanishes == Spec => []AcceptedIsKept
<1>1. IInv => AcceptedIsKept
  BY DEF IInv
<1>. QED
  BY <1>1, InvInit, InvStep, PTL DEF Spec

-----------------------------------------------------------------------------
(* Queued prompts keep their order. *)

LEMMA OrderInit == Init => OrderInv
<1> SUFFICES ASSUME Init PROVE OrderInv
  OBVIOUS
<1>1. /\ waiting = {} /\ at = [p \in Prompts |-> 0] /\ line = {}
      /\ proc = [a \in Actors |-> Off]
  BY DEF Init
<1>2. Queued = {}
  BY <1>1 DEF Queued
<1>3. FilesAreOrdered
  BY <1>1, <1>2, FS_EmptySet DEF FilesAreOrdered
<1>4. CallersAreFirst /\ LineInOrder
  BY <1>1 DEF CallersAreFirst, LineInOrder
<1>5. \A a \in Actors : proc[a].pc = "idle"
  BY <1>1 DEF Off
<1>. QED
  BY <1>3, <1>4, <1>5 DEF OrderInv, DeliverersApart, DrainsInOrder, Delivering, Actors

\* The queue gets one prompt at a time, with a later time than all before it.
LEMMA EnqueueFacts ==
  ASSUME IInv, OrderInv, NEW d \in Deliverers, Enqueue(d), NEW p, p = proc[d].prompt
  PROVE  /\ p \in Prompts /\ at[p] = 0 /\ p \notin line
         /\ Delivering(d)
         /\ \A q \in Prompts : fate'[q] = IF q = p THEN "accepted" ELSE fate[q]
         /\ \A q \in Prompts : at'[q] = IF q = p THEN Cardinality(Queued) + 1 ELSE at[q]
         /\ waiting' = waiting \cup {p} /\ line' = line
         /\ Cardinality(Queued) \in Nat
         /\ Cardinality(Queued)' = Cardinality(Queued) + 1
<1>0. StateOK /\ d \in Actors /\ HasPrompt(proc[d]) /\ At(d, "append")
  BY DEF IInv, TypeOK, ProcOK, Actors, Enqueue
<1>1. p \in Prompts /\ Delivering(d)
  BY <1>0 DEF HasPrompt, At, Delivering
<1>2. at[p] = 0 /\ p \notin line
  BY <1>0, <1>1 DEF OrderInv, DeliverersApart, CallersAreFirst
<1>3. \A q \in Prompts : fate'[q] = IF q = p THEN "accepted" ELSE fate[q]
  BY <1>0 DEF StateOK, Enqueue, Tell
<1>4. IsFiniteSet(Queued) /\ Cardinality(Queued) \in Nat
  <2>1. Queued \subseteq Prompts
    BY DEF Queued
  <2>. QED
    BY <2>1, WaitQueueAssumption, FS_Subset, FS_CardinalityType DEF WaitQueueAssumption
<1>5. at' = [at EXCEPT ![p] = Cardinality(Queued) + 1]
  BY DEF Enqueue, Queued
<1>6. \A q \in Prompts : at'[q] = IF q = p THEN Cardinality(Queued) + 1 ELSE at[q]
  BY <1>0, <1>5 DEF StateOK
<1>7. Queued' = Queued \cup {p} /\ p \notin Queued
  <2>1. \A q \in Prompts : at'[q] > 0 <=> at[q] > 0 \/ q = p
    BY <1>2, <1>4, <1>6
  <2>. QED
    BY <1>1, <1>2, <2>1 DEF Queued
<1>8. Cardinality(Queued)' = Cardinality(Queued) + 1
  BY <1>4, <1>7, FS_AddElement
<1>9. waiting' = waiting \cup {p} /\ line' = line
  BY DEF Enqueue, agent
<1>. QED
  BY <1>1, <1>2, <1>3, <1>4, <1>6, <1>8, <1>9

LEMMA OnlyEnqueueTimes ==
  ASSUME [Next]_vars, ~\E d \in Deliverers : Enqueue(d)
  PROVE  at' = at /\ waiting' \subseteq waiting
  BY DEF Next, DelivererStep, DrainStep, Deliver, DeliverFails, EnqueueFails,
         Type, Enter, SendFails, Peek, PeekFails, AwaitUnblocked, AwaitFails, Remove,
         RemoveFails, KeepPeek, KeepWrite, KeepRemove, KeepFails, Stop, Close, Report,
         Crash, Resume, ResumeFails, vars, disk

\* What came before a queued prompt is done with for good, and nothing is
\* queued before it any more.
LEMMA BeforeLasts ==
  ASSUME IInv, OrderInv, [Next]_vars, NEW q \in Prompts, at'[q] = at[q], Before(q)
  PROVE  Before(q)'
<1> SUFFICES ASSUME NEW p \in Prompts, 0 < at'[p], at'[p] < at'[q]
             PROVE  sent'[p] > 0 \/ p \in aside'
  BY DEF Before
<1>0. at \in [Prompts -> Nat]
  BY DEF IInv, TypeOK, StateOK
<1>1. at'[p] = at[p]
  <2>1. CASE \E d \in Deliverers : Enqueue(d)
    <3> PICK d \in Deliverers : Enqueue(d)
      BY <2>1
    <3> DEFINE r == proc[d].prompt
    <3>1. /\ \A x \in Prompts : at'[x] = IF x = r THEN Cardinality(Queued) + 1 ELSE at[x]
          /\ Cardinality(Queued) \in Nat
      BY EnqueueFacts
    <3>2. at[q] <= Cardinality(Queued)
      BY DEF OrderInv, FilesAreOrdered
    <3> HIDE DEF r
    <3>3. p # r
      BY <1>0, <3>1, <3>2
    <3>. QED
      BY <3>1, <3>3
  <2>. QED
    BY <2>1, OnlyEnqueueTimes
<1>2. sent[p] > 0 \/ p \in aside
  BY <1>1 DEF Before
<1>. QED
  BY <1>2, Lasting

LEMMA FilesStep == IInv /\ OrderInv /\ [Next]_vars => FilesAreOrdered'
<1> SUFFICES ASSUME IInv, OrderInv, [Next]_vars, NEW p \in Prompts
             PROVE  /\ p \in waiting' => at'[p] > 0
                    /\ at'[p] > 0 => p \in waiting' \/ sent'[p] > 0 \/ p \in aside'
                    /\ at'[p] <= Cardinality(Queued)'
  BY DEF FilesAreOrdered
<1>0. /\ p \in waiting => at[p] > 0
      /\ at[p] > 0 => p \in waiting \/ sent[p] > 0 \/ p \in aside
      /\ at[p] <= Cardinality(Queued) /\ at[p] \in Nat
  BY DEF OrderInv, FilesAreOrdered, IInv, TypeOK, StateOK
<1>1. at[p] > 0 => p \in waiting' \/ sent'[p] > 0 \/ p \in aside'
  BY <1>0, Lasting, TakenIsDone
<1>2. CASE \E d \in Deliverers : Enqueue(d)
  <2> PICK d \in Deliverers : Enqueue(d)
    BY <1>2
  <2> DEFINE r == proc[d].prompt
  <2>1. /\ at'[p] = IF p = r THEN Cardinality(Queued) + 1 ELSE at[p]
        /\ waiting' = waiting \cup {r}
        /\ Cardinality(Queued) \in Nat
        /\ Cardinality(Queued)' = Cardinality(Queued) + 1
    BY EnqueueFacts
  <2> HIDE DEF r
  <2>. QED
    BY <1>0, <1>1, <2>1
<1>3. CASE ~\E d \in Deliverers : Enqueue(d)
  <2>1. at' = at /\ waiting' \subseteq waiting
    BY <1>3, OnlyEnqueueTimes
  <2>2. Queued' = Queued
    BY <2>1 DEF Queued
  <2>. QED
    BY <1>0, <1>1, <2>1, <2>2
<1>. QED
  BY <1>2, <1>3

\* Whose record a step changes, and how.
LEMMA WhoMoves ==
  ASSUME ProcOK, [Next]_vars, NEW a \in Actors, proc'[a] # proc[a]
  PROVE  \/ a \in Deliverers /\ (DelivererStep(a) \/ \E p \in Prompts : Deliver(a, p))
         \/ a \in Drains /\ (DrainStep(a) \/ Stop(a))
         \/ a \in Drains /\ proc'[a].pc \in {"peek", "keep"}
         \/ proc'[a] = Off
<1>0. proc \in [Actors -> Proc]
  BY DEF ProcOK
<1>1. ASSUME NEW d \in Deliverers, d # a,
             DelivererStep(d) \/ \E p \in Prompts : Deliver(d, p)
      PROVE  a \in Drains /\ proc'[a].pc = "peek"
  <2>1. CASE Enqueue(d) /\ ~Leave(d)
    <3>1. PICK k \in Drains : proc' = [proc EXCEPT ![d] = Off, ![k].pc = "peek"]
      BY <2>1 DEF Enqueue
    <3>2. d \in Actors /\ k \in Actors /\ d # k
      BY WaitQueueAssumption DEF WaitQueueAssumption, Actors
    <3>3. a = k
      BY <1>0, <1>1, <3>1, <3>2
    <3>4. proc[k] \in Proc
      BY <1>0, <3>2
    <3>5. proc'[k].pc = "peek"
      BY <1>0, <3>1, <3>2, <3>4 DEF Proc
    <3>. QED
      BY <3>3, <3>5
  <2>2. CASE Leave(d)
    BY <1>0, <1>1, <2>2 DEF Leave
  <2>3. CASE \E p \in Prompts : Deliver(d, p)
    BY <1>0, <1>1, <2>3 DEF Deliver
  <2>4. CASE \E p \in Prompts : DeliverFails(d, p)
    BY <2>4 DEF DeliverFails
  <2>5. CASE EnqueueFails(d)
    BY <2>2, <2>5 DEF EnqueueFails
  <2>6. CASE Type(d)
    BY <1>0, <1>1, <2>6 DEF Type, Goto
  <2>7. CASE Enter(d) \/ SendFails(d)
    BY <2>2, <2>7, <1>1 DEF Enter, SendFails, SendFailed
  <2>. QED
    BY <1>1, <2>1, <2>2, <2>3, <2>4, <2>5, <2>6, <2>7 DEF DelivererStep
<1>2. ASSUME NEW k \in Drains, k # a, DrainStep(k) \/ Stop(k)
      PROVE  FALSE
  <2>0. k \notin Deliverers
    BY WaitQueueAssumption DEF WaitQueueAssumption
  <2>. QED
    BY <1>0, <1>2, <2>0
       DEF DrainStep, Peek, PeekFails, AwaitUnblocked, AwaitFails, Type, Enter, SendFails,
           SendFailed, Remove, RemoveFails, KeepPeek, KeepWrite, KeepRemove, KeepFails,
           Stop, Leave, Goto
<1>3. ASSUME Crash PROVE proc'[a] = Off
  BY <1>3 DEF Crash
<1>4. ASSUME Resume PROVE a \in Drains /\ proc'[a].pc \in {"peek", "keep"}
  <2>1. PICK k \in Drains, pc \in {"peek", "keep"} : Goto(k, pc)
    BY <1>4 DEF Resume
  <2>2. k \in Actors /\ proc[k] \in Proc
    BY <1>0 DEF Actors
  <2>3. a = k /\ proc'[k].pc = pc
    BY <1>0, <2>1, <2>2 DEF Goto, Proc
  <2>. QED
    BY <2>3
<1>5. ASSUME \/ Close \/ \E s \in {"working", "blocked", "ended"} : Report(s)
             \/ ResumeFails \/ UNCHANGED vars
      PROVE  FALSE
  BY <1>5 DEF Close, Report, ResumeFails, vars
<1>. QED
  BY <1>1, <1>2, <1>3, <1>4, <1>5 DEF Next, Actors

\* Only Deliver makes a delivery pending, and nothing makes a prompt new.
LEMMA FateMoves ==
  ASSUME TypeOK, [Next]_vars, NEW p \in Prompts
  PROVE  /\ fate'[p] = "new" => fate[p] = "new"
         /\ fate'[p] = "pending" =>
               \/ fate[p] = "pending"
               \/ fate[p] = "new" /\ \E d \in Deliverers : Deliver(d, p)
<1>0. fate \in [Prompts -> {"new", "pending", "refused", "accepted"}]
  BY DEF TypeOK, StateOK
<1>1. ASSUME NEW d \in Deliverers, NEW q \in Prompts, Deliver(d, q)
      PROVE  fate'[p] = fate[p] \/ (q = p /\ fate[p] = "new")
  BY <1>0, <1>1 DEF Deliver
<1>2. ASSUME NEW a \in Actors, NEW f, f \in {"refused", "accepted"}, Tell(a, f)
      PROVE  fate'[p] = fate[p] \/ fate'[p] \in {"refused", "accepted"}
  BY <1>0, <1>2 DEF Tell
<1>3. ASSUME NEW d \in Deliverers, NEW q \in Prompts, DeliverFails(d, q)
      PROVE  fate'[p] = fate[p] \/ fate'[p] = "refused"
  BY <1>0, <1>3 DEF DeliverFails
<1>4. ASSUME Crash PROVE fate'[p] = fate[p] \/ fate'[p] = "refused"
  BY <1>4 DEF Crash
<1>5. ASSUME NEW a \in Actors,
             Enqueue(a) \/ EnqueueFails(a) \/ Type(a) \/ Enter(a) \/ SendFails(a)
      PROVE  fate' = fate \/ \E f \in {"refused", "accepted"} : Tell(a, f)
  BY <1>5 DEF Enqueue, EnqueueFails, Type, Enter, SendFails, SendFailed, callers
<1>6. ASSUME NEW a \in Actors,
             Enqueue(a) \/ EnqueueFails(a) \/ Type(a) \/ Enter(a) \/ SendFails(a)
      PROVE  fate'[p] = fate[p] \/ fate'[p] \in {"refused", "accepted"}
  BY <1>2, <1>5, <1>6
<1>7. ASSUME NEW k \in Drains, DrainStep(k) \/ Stop(k)
      PROVE  fate'[p] = fate[p] \/ fate'[p] \in {"refused", "accepted"}
  BY <1>6, <1>7 DEF DrainStep, Peek, PeekFails, AwaitUnblocked, AwaitFails, Remove,
     RemoveFails, KeepPeek, KeepWrite, KeepRemove, KeepFails, Stop, callers, Actors
<1>8. ASSUME Close \/ (\E s \in {"working", "blocked", "ended"} : Report(s))
             \/ Resume \/ ResumeFails \/ UNCHANGED vars
      PROVE  fate' = fate
  BY <1>8 DEF Close, Report, Resume, ResumeFails, vars, callers
<1>. QED
  BY <1>1, <1>3, <1>4, <1>6, <1>7, <1>8 DEF Next, DelivererStep, Actors

LEMMA LineMoves ==
  ASSUME [Next]_vars, NEW p \in line' \ line
  PROVE  \E a \in Actors : Type(a) /\ proc[a].prompt = p
<1>1. ASSUME NEW a \in Actors, Type(a) PROVE proc[a].prompt = p
  BY <1>1 DEF Type
<1>2. \E a \in Actors : Type(a)
  BY DEF Next, DelivererStep, DrainStep, Deliver, DeliverFails, Enqueue, EnqueueFails,
         Enter, SendFails, Peek, PeekFails, AwaitUnblocked, AwaitFails, Remove,
         RemoveFails, KeepPeek, KeepWrite, KeepRemove, KeepFails, Stop, Close, Report,
         WindowGone, Crash, Resume, ResumeFails, vars, agent, Actors
<1>. QED
  BY <1>1, <1>2

\* A prompt that is typed is the caller's, not yet queued, or a drain's.
LEMMA TypedFacts ==
  ASSUME IInv, OrderInv, NEW a \in Actors, Type(a)
  PROVE  /\ proc[a].prompt \in Prompts
         /\ a \in Deliverers => Delivering(a) /\ fate[proc[a].prompt] = "pending"
         /\ a \in Drains => at[proc[a].prompt] > 0
         /\ fate[proc[a].prompt] # "new" /\ Before(proc[a].prompt)
<1>0. StateOK /\ HasPrompt(proc[a]) /\ At(a, "type")
  BY DEF IInv, TypeOK, ProcOK, Type
<1>1. PICK p \in Prompts : p = proc[a].prompt
  BY <1>0 DEF HasPrompt, At
<1>2. CASE a \in Deliverers
  <2>1. Delivering(a) /\ fate[p] = "pending" /\ at[p] = 0
    BY <1>0, <1>1, <1>2 DEF At, Delivering, OrderInv, DeliverersApart, CallersAreFirst
  <2>2. Before(p)
    BY <1>0, <2>1 DEF Before, StateOK
  <2>3. a \notin Drains
    BY <1>2, WaitQueueAssumption DEF WaitQueueAssumption
  <2>. QED
    BY <1>1, <2>1, <2>2, <2>3
<1>3. CASE a \in Drains
  <2>1. at[p] > 0 /\ Before(p)
    BY <1>0, <1>1, <1>3 DEF At, OrderInv, DrainsInOrder
  <2>2. fate[p] # "new"
    BY <2>1 DEF OrderInv, CallersAreFirst
  <2>3. a \notin Deliverers
    BY <1>3, WaitQueueAssumption DEF WaitQueueAssumption
  <2>. QED
    BY <1>1, <2>1, <2>2, <2>3
<1>. QED
  BY <1>2, <1>3 DEF Actors

LEMMA CallersStep == IInv /\ OrderInv /\ [Next]_vars => CallersAreFirst'
<1> SUFFICES ASSUME IInv, OrderInv, [Next]_vars, NEW p \in Prompts
             PROVE  /\ fate'[p] \in {"new", "pending"} => at'[p] = 0
                    /\ fate'[p] = "new" => p \notin line'
  BY DEF CallersAreFirst
<1>0. TypeOK
  BY DEF IInv
<1>1. ASSUME fate'[p] \in {"new", "pending"} PROVE at'[p] = 0
  <2>1. at[p] = 0
    BY <1>0, <1>1, FateMoves DEF OrderInv, CallersAreFirst
  <2>2. ASSUME NEW d \in Deliverers, Enqueue(d) PROVE at'[p] = at[p]
    <3> DEFINE r == proc[d].prompt
    <3>1. /\ fate'[p] = IF p = r THEN "accepted" ELSE fate[p]
          /\ at'[p] = IF p = r THEN Cardinality(Queued) + 1 ELSE at[p]
      BY <2>2, EnqueueFacts
    <3> HIDE DEF r
    <3>. QED
      BY <1>1, <3>1
  <2>. QED
    BY <2>1, <2>2, OnlyEnqueueTimes
<1>2. ASSUME fate'[p] = "new", p \in line' PROVE FALSE
  <2>1. fate[p] = "new" /\ p \notin line
    BY <1>0, <1>2, FateMoves DEF OrderInv, CallersAreFirst
  <2>. QED
    BY <1>2, <2>1, LineMoves, TypedFacts
<1>. QED
  BY <1>1, <1>2

\* Who is delivering after a step was before it, or has just begun.
LEMMA DeliveringMoves ==
  ASSUME IInv, OrderInv, [Next]_vars, NEW d \in Deliverers, Delivering(d)'
  PROVE  \/ /\ Delivering(d) /\ proc'[d].prompt = proc[d].prompt
            /\ proc'[d].pc = "append" => proc[d].pc = "append"
            /\ ~Crash /\ proc'[d].pc # "idle"
         \/ \E p \in Prompts : Deliver(d, p)
<1>0. /\ ProcOK /\ proc \in [Actors -> Proc] /\ d \in Actors /\ proc[d] \in Proc
      /\ d \notin Drains
  BY WaitQueueAssumption DEF IInv, TypeOK, ProcOK, Actors, WaitQueueAssumption
<1>1. proc'[d].pc \in {"append", "type", "enter"}
  BY DEF Delivering
<1>2. proc'[d] # Off
  BY <1>1 DEF Off
<1>3. ~Crash
  BY <1>0, <1>2 DEF Crash
<1>4. CASE proc'[d] = proc[d]
  BY <1>1, <1>3, <1>4 DEF Delivering
<1>5. CASE DelivererStep(d) /\ proc'[d] # proc[d]
  <2>1. ASSUME Leave(d) PROVE FALSE
    BY <1>0, <1>2, <2>1 DEF Leave
  <2>2. CASE Type(d)
    BY <1>0, <1>3, <2>2 DEF Type, Goto, At, Delivering, Proc
  <2>3. CASE Enqueue(d)
    <3>1. PICK k \in Drains : proc' = [proc EXCEPT ![d] = Off, ![k].pc = "peek"]
      BY <2>1, <2>3 DEF Enqueue
    <3>2. k # d
      BY <1>0
    <3>. QED
      BY <1>0, <1>2, <3>1, <3>2
  <2>4. CASE \E p \in Prompts : DeliverFails(d, p)
    BY <1>5, <2>4 DEF DeliverFails
  <2>5. CASE EnqueueFails(d) \/ Enter(d) \/ SendFails(d)
    BY <2>1, <2>5 DEF EnqueueFails, Enter, SendFails, SendFailed
  <2>. QED
    BY <1>5, <2>2, <2>3, <2>4, <2>5 DEF DelivererStep
<1>. QED
  BY <1>0, <1>2, <1>4, <1>5, WhoMoves

\* The caller of a delivery that goes on has not been told.
LEMMA StillPending ==
  ASSUME IInv, OrderInv, [Next]_vars, NEW d \in Deliverers,
         Delivering(d), Delivering(d)', proc'[d].prompt = proc[d].prompt, ~Crash
  PROVE  fate'[proc[d].prompt] = "pending"
<1>0. StateOK /\ ProcOK /\ d \in Actors /\ proc[d] \in Proc
      /\ fate \in [Prompts -> {"new", "pending", "refused", "accepted"}]
  BY DEF IInv, TypeOK, ProcOK, StateOK, Actors
<1>1. PICK p \in Prompts : p = proc[d].prompt
  BY DEF IInv, TypeOK, ProcOK, HasPrompt, Delivering, Actors
<1>2. fate[p] = "pending"
  BY <1>1 DEF OrderInv, DeliverersApart
<1>3. proc'[d].pc \in {"append", "type", "enter"} /\ proc'[d] # Off
  BY DEF Delivering, Off
\* Whoever is told leaves, and is another than d, with another prompt.
<1>4. ASSUME NEW e \in Deliverers, NEW f, Tell(e, f), Delivering(e),
             e = d => proc'[d] = Off
      PROVE  fate'[p] = fate[p]
  <2>1. e # d
    BY <1>3, <1>4
  <2>2. proc[e].prompt # p
    BY <1>1, <1>4, <2>1 DEF OrderInv, DeliverersApart
  <2>. QED
    BY <1>0, <1>4, <2>2 DEF Tell
<1>5. ASSUME NEW e \in Deliverers, Enqueue(e) PROVE fate'[p] = fate[p]
  <2>1. e = d => proc'[d] = Off
    <3> SUFFICES ASSUME e = d PROVE proc'[d] = Off
      OBVIOUS
    <3>1. CASE Leave(d)
      BY <1>0, <3>1 DEF Leave, ProcOK
    <3>2. ASSUME NEW k \in Drains, proc' = [proc EXCEPT ![d] = Off, ![k].pc = "peek"]
          PROVE  proc'[d] = Off
      <4>1. k # d
        BY WaitQueueAssumption DEF WaitQueueAssumption
      <4>. QED
        BY <1>0, <3>2, <4>1 DEF ProcOK
    <3>. QED
      BY <1>5, <3>1, <3>2 DEF Enqueue
  <2>2. Delivering(e) /\ Tell(e, "accepted")
    BY <1>5 DEF Enqueue, At, Delivering
  <2>. QED
    BY <1>4, <2>1, <2>2
<1>6. ASSUME NEW e \in Deliverers, EnqueueFails(e) \/ Enter(e) \/ SendFails(e)
      PROVE  fate'[p] = fate[p]
  <2>1. Leave(e) /\ Delivering(e)
    BY <1>6 DEF EnqueueFails, Enter, SendFails, SendFailed, At, Delivering
  <2>2. e = d => proc'[d] = Off
    BY <1>0, <2>1 DEF Leave, ProcOK
  <2>3. \E f \in {"refused", "accepted"} : Tell(e, f)
    BY <1>6 DEF EnqueueFails, Enter, SendFails, SendFailed
  <2>. QED
    BY <1>4, <2>1, <2>2, <2>3
<1>7. ASSUME NEW e \in Deliverers, NEW q \in Prompts, Deliver(e, q) \/ DeliverFails(e, q)
      PROVE  fate'[p] = fate[p]
  BY <1>0, <1>2, <1>7 DEF Deliver, DeliverFails
<1>8. ASSUME NEW k \in Drains, DrainStep(k) \/ Stop(k) PROVE fate' = fate
  <2>1. k \notin Deliverers
    BY <1>8, WaitQueueAssumption DEF WaitQueueAssumption
  <2>. QED
    BY <1>8, <2>1 DEF DrainStep, Peek, PeekFails, AwaitUnblocked, AwaitFails, Type, Enter,
       SendFails, SendFailed, Remove, RemoveFails, KeepPeek, KeepWrite, KeepRemove,
       KeepFails, Stop, callers
<1>9. ASSUME \/ Close \/ (\E s \in {"working", "blocked", "ended"} : Report(s))
             \/ Resume \/ ResumeFails \/ UNCHANGED vars
             \/ \E e \in Deliverers : Type(e)
      PROVE  fate' = fate
  BY <1>9 DEF Close, Report, Resume, ResumeFails, vars, callers, Type
<1>. QED
  BY <1>1, <1>2, <1>5, <1>6, <1>7, <1>8, <1>9 DEF Next, DelivererStep

LEMMA DeliverersStep == IInv /\ OrderInv /\ [Next]_vars => DeliverersApart'
<1> SUFFICES ASSUME IInv, OrderInv, [Next]_vars, NEW d \in Deliverers, Delivering(d)'
             PROVE  /\ fate'[proc'[d].prompt] = "pending"
                    /\ proc'[d].pc = "append" => proc'[d].prompt \notin line'
                    /\ \A e \in Deliverers \ {d} :
                          Delivering(e)' => proc'[e].prompt # proc'[d].prompt
  BY DEF DeliverersApart, At
<1>0. StateOK /\ proc \in [Actors -> Proc] /\ Deliverers \subseteq Actors
  BY DEF IInv, TypeOK, ProcOK, Actors
\* Who begins has a prompt that nobody has.
<1>1. ASSUME NEW e \in Deliverers, NEW p \in Prompts, Deliver(e, p)
      PROVE  /\ proc'[e].prompt = p /\ fate[p] = "new" /\ fate'[p] = "pending"
             /\ p \notin line' /\ ~Crash
             /\ \A x \in Deliverers \ {e} : proc'[x] = proc[x]
             /\ \A x \in Deliverers : Delivering(x) => proc[x].prompt # p
  <2>1. /\ proc'[e].prompt = p /\ proc'[e] # Off
        /\ \A x \in Deliverers \ {e} : proc'[x] = proc[x]
    BY <1>0, <1>1 DEF Deliver, Off
  <2>2. fate[p] = "new" /\ fate'[p] = "pending" /\ line' = line
    BY <1>0, <1>1 DEF Deliver, StateOK, agent
  <2>3. \A x \in Deliverers : Delivering(x) => proc[x].prompt # p
    BY <2>2 DEF OrderInv, DeliverersApart
  <2>4. p \notin line'
    BY <2>2 DEF OrderInv, CallersAreFirst
  <2>5. ~Crash
    BY <1>0, <2>1 DEF Crash
  <2>. QED
    BY <2>1, <2>2, <2>3, <2>4, <2>5
<1>2. ASSUME NEW p \in Prompts, Deliver(d, p)
      PROVE  /\ fate'[proc'[d].prompt] = "pending"
             /\ proc'[d].prompt \notin line'
             /\ \A e \in Deliverers \ {d} :
                   Delivering(e)' => proc'[e].prompt # proc'[d].prompt
  <2>1. ASSUME NEW e \in Deliverers \ {d}, Delivering(e)'
        PROVE  proc'[e].prompt # proc'[d].prompt
    BY <1>1, <1>2, <2>1 DEF Delivering
  <2>. QED
    BY <1>1, <1>2, <2>1
<1>3. ASSUME ~\E p \in Prompts : Deliver(d, p)
      PROVE  /\ Delivering(d) /\ proc'[d].prompt = proc[d].prompt /\ ~Crash
             /\ proc'[d].pc = "append" => proc[d].pc = "append"
  BY <1>3, DeliveringMoves
<1>4. ASSUME ~\E p \in Prompts : Deliver(d, p)
      PROVE  fate'[proc'[d].prompt] = "pending"
  BY <1>3, <1>4, StillPending
<1>5. ASSUME ~\E p \in Prompts : Deliver(d, p), proc'[d].pc = "append"
      PROVE  proc'[d].prompt \notin line'
  <2>1. Delivering(d) /\ proc'[d].prompt = proc[d].prompt /\ proc[d].pc = "append"
    BY <1>3, <1>5
  <2>2. PICK p \in Prompts : p = proc[d].prompt
    BY <1>0, <2>1 DEF IInv, TypeOK, ProcOK, HasPrompt
  <2>3. p \notin line /\ fate[p] = "pending" /\ at[p] = 0
    BY <2>1, <2>2 DEF OrderInv, DeliverersApart, CallersAreFirst, At
  <2>4. ASSUME NEW a \in Actors, Type(a), proc[a].prompt = p PROVE FALSE
    <3>1. proc[a].pc = "type"
      BY <2>4 DEF Type, At
    <3>2. a \in Drains => at[p] > 0
      BY <2>4, TypedFacts
    <3>3. a \in Deliverers => Delivering(a)
      BY <3>1 DEF Delivering
    <3>. QED
      BY <2>1, <2>2, <2>3, <2>4, <3>1, <3>2, <3>3 DEF OrderInv, DeliverersApart, Actors
  <2>. QED
    BY <2>1, <2>2, <2>3, <2>4, LineMoves
<1>6. ASSUME ~\E p \in Prompts : Deliver(d, p), NEW e \in Deliverers \ {d}, Delivering(e)'
      PROVE  proc'[e].prompt # proc'[d].prompt
  <2>1. Delivering(d) /\ proc'[d].prompt = proc[d].prompt
    BY <1>3, <1>6
  <2>2. CASE \E p \in Prompts : Deliver(e, p)
    BY <1>1, <2>1, <2>2
  <2>3. CASE ~\E p \in Prompts : Deliver(e, p)
    <3>1. Delivering(e) /\ proc'[e].prompt = proc[e].prompt
      BY <1>6, <2>3, DeliveringMoves
    <3>. QED
      BY <1>6, <2>1, <3>1 DEF OrderInv, DeliverersApart
  <2>. QED
    BY <2>2, <2>3
<1>. QED
  BY <1>2, <1>4, <1>5, <1>6

\* The time a prompt was queued at is given once.
LEMMA TimeStays ==
  ASSUME IInv, OrderInv, [Next]_vars, NEW p \in Prompts, at[p] > 0 \/ p \in line
  PROVE  at'[p] = at[p]
<1>1. ASSUME NEW d \in Deliverers, Enqueue(d) PROVE at'[p] = at[p]
  <2> DEFINE r == proc[d].prompt
  <2>1. /\ at[r] = 0 /\ r \notin line
        /\ at'[p] = IF p = r THEN Cardinality(Queued) + 1 ELSE at[p]
    BY <1>1, EnqueueFacts
  <2> HIDE DEF r
  <2>. QED
    BY <2>1
<1>. QED
  BY <1>1, OnlyEnqueueTimes

LEMMA DrainsStep == IInv /\ OrderInv /\ [Next]_vars => DrainsInOrder'
<1> SUFFICES ASSUME IInv, OrderInv, [Next]_vars, NEW k \in Drains,
                    proc'[k].pc \in {"await", "type"},
                    NEW p, p = proc'[k].prompt
             PROVE  at'[p] > 0 /\ Before(p)'
  BY DEF DrainsInOrder, Before
<1>0. /\ StateOK /\ ProcOK /\ proc \in [Actors -> Proc] /\ k \in Actors
      /\ proc[k] \in Proc /\ HasPrompt(proc[k]) /\ k \notin Deliverers
  BY WaitQueueAssumption DEF IInv, TypeOK, ProcOK, Actors, WaitQueueAssumption
<1>1. ASSUME p \in Prompts, at[p] > 0, Before(p)
      PROVE  at'[p] > 0 /\ Before(p)'
  <2>1. at'[p] = at[p]
    BY <1>1, TimeStays
  <2>. QED
    BY <1>1, <2>1, BeforeLasts
<1>2. CASE proc[k].pc \in {"await", "type"} /\ proc'[k].prompt = proc[k].prompt
  <2>1. p \in Prompts
    BY <1>0, <1>2 DEF HasPrompt
  <2>2. at[p] > 0 /\ Before(p)
    BY <1>2 DEF OrderInv, DrainsInOrder
  <2>. QED
    BY <1>1, <2>1, <2>2
<1>3. CASE Peek(k) /\ ~Leave(k)
  <2>0. PICK o \in Prompts : /\ IsOldest(o, waiting)
                             /\ proc' = [proc EXCEPT ![k].pc = "await", ![k].prompt = o]
    BY <1>3 DEF Peek
  <2>1. p = o
    BY <1>0, <2>0 DEF Proc
  <2>2. p \in Prompts /\ IsOldest(p, waiting)
    BY <2>0, <2>1
  <2>3. at[p] > 0
    BY <2>2 DEF IsOldest, OrderInv, FilesAreOrdered
  <2>4. ASSUME NEW q \in Prompts, 0 < at[q], at[q] < at[p]
        PROVE  sent[q] > 0 \/ q \in aside
    <3>1. q \notin waiting
      BY <1>0, <2>2, <2>4 DEF IsOldest, StateOK
    <3>. QED
      BY <2>4, <3>1 DEF OrderInv, FilesAreOrdered
  <2>5. Before(p)
    BY <2>4 DEF Before
  <2>. QED
    BY <1>1, <2>2, <2>3, <2>5
<1>4. CASE AwaitUnblocked(k)
  <2>1. proc[k].pc = "await" /\ proc'[k].prompt = proc[k].prompt
    BY <1>0, <1>4 DEF AwaitUnblocked, At, Goto, Proc
  <2>. QED
    BY <1>2, <2>1
<1>5. ASSUME Leave(k) PROVE FALSE
  BY <1>0, <1>5 DEF Leave, Off
<1>6. ASSUME NEW pc, pc \notin {"await", "type"}, Goto(k, pc) PROVE FALSE
  BY <1>0, <1>6 DEF Goto, Proc
<1>7. CASE DrainStep(k) /\ ~Peek(k) /\ ~AwaitUnblocked(k)
  <2>1. ASSUME KeepPeek(k) \/ KeepRemove(k) \/ KeepWrite(k)
        PROVE  Leave(k) \/ proc'[k].pc \in {"aside", "clear"}
    BY <1>0, <2>1 DEF KeepPeek, KeepRemove, KeepWrite, Proc
  <2>. QED
    BY <1>0, <1>5, <1>6, <1>7, <2>1
       DEF DrainStep, PeekFails, AwaitFails, Type, Enter, SendFails, SendFailed, Remove,
           RemoveFails, KeepFails
<1>8. CASE Stop(k)
  BY <1>6, <1>8 DEF Stop
<1>9. CASE proc'[k] = proc[k]
  BY <1>2, <1>9
<1>. QED
  BY <1>0, <1>3, <1>4, <1>5, <1>7, <1>8, <1>9, WhoMoves DEF Off

LEMMA LineStep == IInv /\ OrderInv /\ [Next]_vars => LineInOrder'
<1> SUFFICES ASSUME IInv, OrderInv, [Next]_vars, NEW q \in line' PROVE Before(q)'
  BY DEF LineInOrder
<1>1. CASE q \in line
  <2>1. q \in Prompts /\ Before(q)
    BY <1>1 DEF IInv, TypeOK, StateOK, OrderInv, LineInOrder
  <2>. QED
    BY <1>1, <2>1, TimeStays, BeforeLasts
<1>2. CASE q \notin line
  <2>1. PICK a \in Actors : Type(a) /\ proc[a].prompt = q
    BY <1>2, LineMoves
  <2>2. q \in Prompts /\ Before(q)
    BY <2>1, TypedFacts
  <2>3. at' = at
    BY <2>1 DEF Type, disk
  <2>. QED
    BY <2>2, <2>3, BeforeLasts
<1>. QED
  BY <1>1, <1>2

LEMMA OrderStep == IInv /\ OrderInv /\ [Next]_vars => OrderInv'
  BY FilesStep, CallersStep, DeliverersStep, DrainsStep, LineStep DEF OrderInv

\* What a step submits was typed, in its turn.
LEMMA SubmittedInOrder ==
  ASSUME IInv, OrderInv, [Next]_vars, NEW p \in Prompts, NEW q \in Prompts,
         0 < at[p], at[p] < at[q], sent[q] = 0, sent'[q] > 0
  PROVE  sent'[p] > 0 \/ p \in aside
<1>0. sent \in [Prompts -> Nat]
  BY DEF IInv, TypeOK, StateOK
<1>1. PICK a \in Actors : Enter(a)
  <2>1. sent' # sent
    OBVIOUS
  <2>. QED
    BY <2>1 DEF Next, DelivererStep, DrainStep, Deliver, DeliverFails, Enqueue, EnqueueFails,
       Type, SendFails, Peek, PeekFails, AwaitUnblocked, AwaitFails, Remove,
       RemoveFails, KeepPeek, KeepWrite, KeepRemove, KeepFails, Stop, Close, Report,
       WindowGone, Crash, Resume, ResumeFails, vars, agent, Actors
<1>2. q \in line
  BY <1>0, <1>1 DEF Enter
<1>3. sent[p] > 0 \/ p \in aside
  BY <1>2 DEF OrderInv, LineInOrder, Before
<1>. QED
  BY <1>3, Lasting

\* Prompts that had to wait are submitted in the order they were queued in:
\* Peek takes the oldest, what is queued later has a later time, and no drain
\* or caller has a prompt in hand whose predecessors are still in the queue.
THEOREM QueueKeepsOrder == Spec => QueueOrder
<1>1. IInv /\ OrderInv /\ [Next]_vars =>
        [\A p, q \in Prompts :
           (0 < at[p] /\ at[p] < at[q] /\ sent[q] = 0 /\ sent'[q] > 0)
           => sent'[p] > 0 \/ p \in aside]_vars
  BY SubmittedInOrder
<1>. QED
  BY <1>1, InvInit, InvStep, OrderInit, OrderStep, PTL DEF Spec, QueueOrder
=============================================================================
