----------------------------- MODULE LinksProofs ----------------------------
(* Theorems about Links, for every value of its constants. *)
EXTENDS Links, FiniteSetTheorems, TLAPS

-----------------------------------------------------------------------------
(* Type correctness *)

LEMMA Kinds ==
    /\ None \notin Windows /\ None \notin Owners /\ Daemon \notin Requests
    /\ Requests \subseteq Owners /\ Daemon \in Owners
    /\ \A r \in Requests : ThreadOf[r] \in Threads /\ WindowOf[r] \in Windows
  BY LinksAssumption DEF Owners

LEMMA NoneTyped ==
    /\ NoStore \in [Threads -> Thread] /\ NoJob \in Job /\ NoHand \in Hand
  BY Kinds DEF NoStore, NoJob, NoHand, Unknown, Thread, Job, JobPCs, Hand, HandPCs

LEMMA RecordsTyped ==
    /\ Unknown \in Thread /\ Released \in Thread
    /\ \A w \in Windows, s \in Nat \ {0} : Held(w, s) \in Thread
  BY Kinds DEF Unknown, Released, Held, Thread

LEMMA TypeInit == Init => TypeOK /\ HandIsSound
<1>. SUFFICES ASSUME Init PROVE TypeOK /\ HandIsSound
  OBVIOUS
<1>1. /\ disk \in [Threads -> Thread] /\ mem \in [Owners -> [Threads -> Thread]]
      /\ job \in [Owners -> Job] /\ hand \in Hand
  BY NoneTyped DEF Init
<1>2. HandIsSound
  BY DEF Init, HandIsSound, NoHand
<1>. QED
  BY <1>1, <1>2 DEF Init, TypeOK, CmdPCs, Windows

\* A store in which one record is set.
LEMMA SetTyped ==
  ASSUME mem \in [Owners -> [Threads -> Thread]], NEW o \in Owners, NEW t \in Threads,
         NEW rec \in Thread, mem' = [mem EXCEPT ![o][t] = rec]
  PROVE  /\ mem' \in [Owners -> [Threads -> Thread]]
         /\ \A p \in Owners, u \in Threads :
               mem'[p][u] = IF p = o /\ u = t THEN rec ELSE mem[p][u]
  OBVIOUS

\* A store that is dropped, or read from the file.
LEMMA StoreTyped ==
  ASSUME mem \in [Owners -> [Threads -> Thread]], NEW o \in Owners,
         NEW S \in [Threads -> Thread], mem' = [mem EXCEPT ![o] = S]
  PROVE  /\ mem' \in [Owners -> [Threads -> Thread]]
         /\ \A p \in Owners : mem'[p] = IF p = o THEN S ELSE mem[p]
  OBVIOUS

LEMMA GotoTyped ==
  ASSUME job \in [Owners -> Job], NEW o \in Owners, NEW pc \in JobPCs, Goto(o, pc)
  PROVE  /\ job' \in [Owners -> Job]
         /\ \A p \in Owners : p # o => job'[p] = job[p]
         /\ job'[o].pc = pc /\ job'[o].req = job[o].req /\ job'[o].todo = job[o].todo
  BY DEF Goto, Job

LEMMA JobTyped ==
  ASSUME job \in [Owners -> Job], NEW o \in Owners, NEW j \in Job, job' = [job EXCEPT ![o] = j]
  PROVE  /\ job' \in [Owners -> Job]
         /\ \A p \in Owners : job'[p] = IF p = o THEN j ELSE job[p]
  OBVIOUS

\* The command ends.
LEMMA CloseTyped ==
  ASSUME TypeOK, NEW r \in Requests, NEW told \in CmdPCs, Close(r, told)
  PROVE  /\ cmd' \in [Requests -> CmdPCs] /\ claim' \in Owners \cup {None}
         /\ mem' \in [Owners -> [Threads -> Thread]]
         /\ stale' \subseteq open' /\ open' \subseteq Owners /\ job' \in [Owners -> Job]
         /\ cmd' = [cmd EXCEPT ![r] = told]
         /\ claim' = IF claim = r THEN None ELSE claim
         /\ open' = open \ {r} /\ stale' = stale \ {r}
         /\ \A p \in Owners : mem'[p] = IF p = r THEN NoStore ELSE mem[p]
         /\ \A p \in Owners : job'[p] = IF p = r THEN NoJob ELSE job[p]
<1>1. r \in Owners
  BY Kinds
<1>2. mem \in [Owners -> [Threads -> Thread]] /\ job \in [Owners -> Job]
  BY DEF TypeOK
<1>3. /\ mem' \in [Owners -> [Threads -> Thread]]
      /\ \A p \in Owners : mem'[p] = IF p = r THEN NoStore ELSE mem[p]
  BY <1>1, <1>2, NoneTyped, StoreTyped DEF Close
<1>4. /\ job' \in [Owners -> Job]
      /\ \A p \in Owners : job'[p] = IF p = r THEN NoJob ELSE job[p]
  BY <1>1, <1>2, NoneTyped, JobTyped DEF Close
<1>. QED
  BY <1>3, <1>4 DEF Close, TypeOK

\* Apply fails, in the daemon or in the command.
LEMMA AbandonTyped ==
  ASSUME TypeOK, NEW o \in Owners, Abandon(o)
  PROVE  /\ cmd' \in [Requests -> CmdPCs] /\ claim' \in Owners \cup {None}
         /\ mem' \in [Owners -> [Threads -> Thread]]
         /\ stale' \subseteq open' /\ open' \subseteq Owners /\ job' \in [Owners -> Job]
         /\ \A p \in Owners : job'[p] = IF p = o THEN NoJob ELSE job[p]
         /\ \A p \in Owners : mem'[p] \in {mem[p], NoStore}
         /\ \/ o = Daemon /\ UNCHANGED <<cmd, stores>>
            \/ /\ o \in Requests /\ cmd' = [cmd EXCEPT ![o] = "failed"]
               /\ claim' = IF claim = o THEN None ELSE claim
               /\ open' = open \ {o} /\ stale' = stale \ {o}
<1>1. CASE o = Daemon
  <2>1. job' = [job EXCEPT ![o] = NoJob] /\ UNCHANGED <<cmd, stores>>
    BY <1>1 DEF Abandon
  <2>2. job \in [Owners -> Job]
    BY DEF TypeOK
  <2>. QED
    BY <1>1, <2>1, <2>2, NoneTyped, JobTyped DEF TypeOK, stores
<1>2. CASE o # Daemon
  <2>1. o \in Requests /\ Close(o, "failed") /\ "failed" \in CmdPCs
    BY <1>2 DEF Owners, Abandon, CmdPCs
  <2>. QED
    BY <2>1, CloseTyped
<1>. QED
  BY <1>1, <1>2

LEMMA SessionsTyped ==
  ASSUME TypeOK, NEW o \in Owners, NEW w \in Windows, NEW s \in SessionsOf(o, w)
  PROVE  s \in Nat \ {0}
  BY Kinds DEF TypeOK, SessionsOf, Thread

LEMMA TypeStep ==
  ASSUME TypeOK, HandIsSound, OneApplies, [Next]_vars
  PROVE  TypeOK' /\ HandIsSound'
<1>. USE Kinds, RecordsTyped
     DEF TypeOK, HandIsSound, files, stores, world, Mishap
\* The claim and the runs of the command.
<1>1. ASSUME NEW r \in Requests, Submit(r) PROVE TypeOK' /\ HandIsSound'
  <2>1. Cardinality({q \in Requests : requests[q] > 0}) + 1 \in Nat
    <3>1. {q \in Requests : requests[q] > 0} \subseteq Requests /\ IsFiniteSet(Requests)
      BY LinksAssumption DEF LinksAssumption
    <3>2. IsFiniteSet({q \in Requests : requests[q] > 0})
      BY <3>1, FS_Subset
    <3>3. Cardinality({q \in Requests : requests[q] > 0}) \in Nat
      BY <3>2, FS_CardinalityType
    <3>. QED
      BY <3>3
  <2>2. requests' \in [Requests -> Nat]
    BY <1>1, <2>1 DEF Submit, Write
  <2>3. cmd' \in [Requests -> CmdPCs] /\ claim' \in Owners \cup {None}
    BY <1>1 DEF Submit, Write, CmdPCs
  <2>. QED
    BY <1>1, <2>2, <2>3 DEF Submit
<1>2. ASSUME NEW r \in Requests, OpenLocal(r) PROVE TypeOK' /\ HandIsSound'
  <2>1. [NoJob EXCEPT !.pc = "find", !.req = r] \in Job
    BY DEF NoJob, Job, JobPCs
  <2>. QED
    BY <1>2, <2>1, JobTyped, StoreTyped DEF OpenLocal, ReadState, CmdPCs
<1>3. ASSUME NEW r \in Requests, EndLocal(r) PROVE TypeOK' /\ HandIsSound'
  BY <1>3, CloseTyped DEF EndLocal, CmdPCs
<1>4. ASSUME NEW r \in Requests, Interrupt(r) PROVE TypeOK' /\ HandIsSound'
  BY <1>4, CloseTyped DEF Interrupt, CmdPCs
<1>5. CASE Start
  BY <1>5 DEF Start
<1>6. CASE Open
  BY <1>6, StoreTyped DEF Open, ReadState
<1>7. CASE Crash
  BY <1>7, StoreTyped, JobTyped, NoneTyped DEF Crash, NoHand
\* The directory of requests.
<1>8. CASE Pending
  BY <1>8 DEF Pending
<1>9. CASE Drain
  <2>1. PICK r \in batch : /\ batch' = batch \ {r}
                           /\ job' = [job EXCEPT ![Daemon] = [NoJob EXCEPT !.pc = "find", !.req = r]]
    BY <1>9 DEF Drain
  <2>2. [NoJob EXCEPT !.pc = "find", !.req = r] \in Job
    BY DEF NoJob, Job, JobPCs
  <2>. QED
    BY <1>9, <2>1, <2>2, JobTyped DEF Drain
<1>10. CASE WriteReceipt
  <2>1. job' \in [Owners -> Job]
    BY <1>10, NoneTyped, JobTyped DEF WriteReceipt
  <2>2. receipts' \in [Requests -> {None, "linked", "rejected"}]
    BY <1>10 DEF WriteReceipt
  <2>3. mishaps' \in Nat
    BY <1>10 DEF WriteReceipt
  <2>. QED
    BY <1>10, <2>1, <2>2, <2>3 DEF WriteReceipt
<1>11. ASSUME NEW r \in Requests, SweepLink(r) PROVE TypeOK' /\ HandIsSound'
  <2>1. requests' \in [Requests -> Nat] /\ receipts' \in [Requests -> {None, "linked", "rejected"}]
    BY <1>11 DEF SweepLink
  <2>2. mishaps' \in Nat
    BY <1>11 DEF SweepLink
  <2>. QED
    BY <1>11, <2>1, <2>2 DEF SweepLink
\* Apply.
<1>12. ASSUME NEW o \in Owners, Find(o) \/ LookForHolder(o) \/ Refuse(o)
       PROVE  TypeOK' /\ HandIsSound'
  <2>1. PICK pc \in JobPCs : Goto(o, pc)
    BY <1>12 DEF Find, LookForHolder, Refuse, JobPCs
  <2>2. UNCHANGED <<files, stores, cmd, batch, hand, world>> /\ mishaps' \in Nat
    BY <1>12 DEF Find, LookForHolder, Refuse
  <2>. QED
    BY <2>1, <2>2, GotoTyped
<1>13. ASSUME NEW o \in Owners, ApplyFails(o) \/ ReleaseUnknown(o) \/ SaveFails(o)
       PROVE  TypeOK' /\ HandIsSound'
  <2>1. Abandon(o) /\ UNCHANGED <<files, batch, hand, world>> /\ mishaps' \in Nat
    BY <1>13 DEF ApplyFails, ReleaseUnknown, SaveFails
  <2>. QED
    BY <2>1, AbandonTyped
<1>14. ASSUME NEW o \in Owners, Bind(o) PROVE TypeOK' /\ HandIsSound'
  <2>. DEFINE r == ReqOf(o)
              w == WindowOf[r]
              j == [job[o] EXCEPT !.pc = "release",
                                  !.todo = {t \in Threads \ {ThreadOf[r]} : mem[o][t].win = w}]
  <2>1. r \in Requests /\ job[o].pc = "bind"
    BY <1>14 DEF Bind, ReqOf, Job, OneApplies
  <2>2. j \in Job /\ job' = [job EXCEPT ![o] = j]
    <3>1. job[o] \in Job /\ {t \in Threads \ {ThreadOf[r]} : mem[o][t].win = w} \subseteq Threads
      OBVIOUS
    <3>2. j \in Job
      BY <3>1 DEF Job, JobPCs
    <3>. QED
      BY <1>14, <3>2 DEF Bind
  <2>3. \E s \in Nat \ {0} : mem' = [mem EXCEPT ![o][ThreadOf[r]] = Held(w, s)]
    <3>1. CASE SessionsOf(o, w) = {}
      <4>1. mem' = [mem EXCEPT ![o][ThreadOf[r]] = Held(w, ids + 1)]
        BY <1>14, <3>1 DEF Bind
      <4>2. ids + 1 \in Nat \ {0}
        OBVIOUS
      <4>. QED
        BY <4>1, <4>2
    <3>2. CASE SessionsOf(o, w) # {}
      <4>1. PICK s \in SessionsOf(o, w) : mem' = [mem EXCEPT ![o][ThreadOf[r]] = Held(w, s)]
        BY <1>14, <3>2 DEF Bind
      <4>. QED
        BY <2>1, <4>1, SessionsTyped
    <3>. QED
      BY <3>1, <3>2
  <2>4. mem' \in [Owners -> [Threads -> Thread]]
    BY <2>1, <2>3, SetTyped
  <2>5. job' \in [Owners -> Job]
    BY <2>2, JobTyped
  <2>6. ids' \in Nat /\ UNCHANGED <<files, claim, open, stale, cmd, batch, hand, live, agent, mishaps>>
    BY <1>14 DEF Bind
  <2>. QED
    BY <2>4, <2>5, <2>6
<1>15. ASSUME NEW o \in Owners, Release(o) PROVE TypeOK' /\ HandIsSound'
  <2>1. PICK t \in job[o].todo : /\ Update(o, t, Released)
                                 /\ job' = [job EXCEPT ![o].todo = @ \ {t}]
    BY <1>15 DEF Release
  <2>2. t \in Threads /\ [job[o] EXCEPT !.todo = @ \ {t}] \in Job
    BY <2>1 DEF Job
  <2>3. job' = [job EXCEPT ![o] = [job[o] EXCEPT !.todo = @ \ {t}]]
    BY <2>1
  <2>4. job' \in [Owners -> Job]
    BY <2>2, <2>3, JobTyped
  <2>5. mem' \in [Owners -> [Threads -> Thread]]
    BY <2>1, <2>2, SetTyped DEF Update
  <2>. QED
    BY <1>15, <2>1, <2>4, <2>5 DEF Release, Update, Save
<1>16. ASSUME NEW o \in Owners, SaveLink(o) PROVE TypeOK' /\ HandIsSound'
  BY <1>16, GotoTyped DEF SaveLink, Save, JobPCs
\* The handler and the sweep.
<1>17. ASSUME NEW t \in Threads, Take(t) PROVE TypeOK' /\ HandIsSound'
  BY <1>17 DEF Take, Hand, HandPCs, Thread
<1>18. CASE Route
  BY <1>18 DEF Route, Hand, HandPCs
<1>19. CASE RouteGone
  <2>1. CASE mem[Daemon][hand.thread].known
    <3>1. mem' \in [Owners -> [Threads -> Thread]] /\ disk' = mem'[Daemon]
      BY <1>19, <2>1, SetTyped DEF RouteGone, Update, Save
    <3>2. hand' \in Hand /\ HandIsSound'
      <4>1. hand' = [hand EXCEPT !.pc = "new", !.win = None] /\ hand.thread \in Threads
        BY <1>19, <2>1 DEF RouteGone
      <4>2. hand' \in Hand /\ hand'.pc = "new" /\ hand'.thread = hand.thread
        BY <4>1 DEF Hand, HandPCs
      <4>. QED
        BY <4>1, <4>2
    <3>3. stale' \subseteq open' /\ open' \subseteq Owners
      BY <1>19, <2>1 DEF RouteGone, Update, Save, Up
    <3>. QED
      BY <1>19, <2>1, <3>1, <3>2, <3>3 DEF RouteGone
  <2>2. CASE ~mem[Daemon][hand.thread].known
    BY <1>19, <2>2, NoneTyped DEF RouteGone, NoHand
  <2>. QED
    BY <2>1, <2>2
<1>20. CASE Leave
  BY <1>20, NoneTyped DEF Leave, NoHand
<1>21. CASE OpenWindow
  <2>1. PICK w \in NewWindows \ live :
            /\ agent[w] = 0 /\ live' = live \cup {w}
            /\ agent' = [agent EXCEPT ![w] = ids + 1]
            /\ hand' = [hand EXCEPT !.pc = "opened", !.win = w]
    BY <1>21 DEF OpenWindow
  <2>2. agent' \in [Windows -> Nat] /\ agent'[w] # 0 /\ live' \subseteq Windows
    BY <2>1 DEF Windows
  <2>3. hand' \in Hand /\ HandIsSound'
    BY <1>21, <2>1, <2>2 DEF OpenWindow, Hand, HandPCs, Windows
  <2>. QED
    BY <1>21, <2>2, <2>3 DEF OpenWindow
<1>22. CASE LaunchSet
  <2>1. hand.thread \in Threads /\ hand.win \in Windows /\ agent[hand.win] \in Nat \ {0}
    BY <1>22 DEF LaunchSet, Windows
  <2>2. mem' \in [Owners -> [Threads -> Thread]] /\ disk' \in {disk, mem'[Daemon]}
    BY <1>22, <2>1, SetTyped DEF LaunchSet, Put, Save
  <2>3. stale' \subseteq open' /\ open' \subseteq Owners /\ mishaps' \in Nat
    BY <1>22 DEF LaunchSet, Put, Save
  <2>. QED
    BY <1>22, <2>2, <2>3, NoneTyped DEF LaunchSet, NoHand
<1>23. CASE StopKill
  BY <1>23 DEF StopKill, Hand, HandPCs
<1>24. CASE StopSet
  <2>1. mem' \in [Owners -> [Threads -> Thread]] /\ disk' \in {disk, mem'[Daemon]}
    BY <1>24, SetTyped DEF StopSet, Put, Save
  <2>. QED
    BY <1>24, <2>1, NoneTyped DEF StopSet, Put, Save, NoHand
<1>25. ASSUME NEW t \in Threads, SweepThread(t) PROVE TypeOK' /\ HandIsSound'
  <2>1. mem' \in [Owners -> [Threads -> Thread]] /\ disk' = mem'[Daemon]
    BY <1>25, SetTyped DEF SweepThread, Save
  <2>. QED
    BY <1>25, <2>1 DEF SweepThread, Save
<1>26. CASE CloseWindow
  BY <1>26 DEF CloseWindow
<1>27. CASE UNCHANGED vars
  BY <1>27 DEF vars
<1>. QED
  BY <1>1, <1>2, <1>3, <1>4, <1>5, <1>6, <1>7, <1>8, <1>9, <1>10, <1>11, <1>12, <1>13,
     <1>14, <1>15, <1>16, <1>17, <1>18, <1>19, <1>20, <1>21, <1>22, <1>23, <1>24, <1>25,
     <1>26, <1>27
     DEF Next, CommandStep, DaemonStep, HandlerStep, ApplyStep

-----------------------------------------------------------------------------
(* The claim *)

LEMMA ClaimInit == Init => StoresAreCurrent /\ ClaimIsHeld
  BY Kinds DEF Init, StoresAreCurrent, ClaimIsHeld, NoJob, NoHand

\* Who saves has the store open, and nobody else has.
LEMMA SaveIsAlone ==
  ASSUME TypeOK, StoresAreCurrent, ClaimIsHeld, NEW o \in open, NEW S, Save(o, S)
  PROVE  stale' = {} /\ open' = open
  BY DEF Save, StoresAreCurrent, ClaimIsHeld

\* A command that ends leaves nothing of its own behind.
LEMMA CloseClaim ==
  ASSUME TypeOK, StoresAreCurrent, ClaimIsHeld, NEW r \in Requests,
         NEW told \in CmdPCs \ {"open", "apply"}, Close(r, told), UNCHANGED hand
  PROVE  StoresAreCurrent' /\ ClaimIsHeld'
<1>1. /\ cmd' = [cmd EXCEPT ![r] = told]
      /\ claim' = (IF claim = r THEN None ELSE claim)
      /\ open' = open \ {r} /\ stale' = stale \ {r}
      /\ \A p \in Owners : job'[p] = IF p = r THEN NoJob ELSE job[p]
  BY CloseTyped
<1>2. StoresAreCurrent' /\ open' \subseteq {claim'}
  BY <1>1 DEF StoresAreCurrent, ClaimIsHeld
<1>3. \A q \in Requests : cmd'[q] \in {"open", "apply"} => claim' = q
  BY <1>1 DEF TypeOK, ClaimIsHeld
<1>4. \A o \in Owners : job'[o].pc # "idle" => o \in open'
  BY <1>1 DEF ClaimIsHeld, NoJob
<1>5. hand'.pc # "idle" => Daemon \in open'
  BY <1>1, Kinds DEF ClaimIsHeld
<1>. QED
  BY <1>2, <1>3, <1>4, <1>5 DEF ClaimIsHeld

LEMMA AbandonClaim ==
  ASSUME TypeOK, StoresAreCurrent, ClaimIsHeld, NEW o \in Owners, Abandon(o), UNCHANGED hand
  PROVE  StoresAreCurrent' /\ ClaimIsHeld'
<1>1. CASE o = Daemon
  <2>1. /\ UNCHANGED <<cmd, claim, open, stale>>
        /\ \A p \in Owners : job'[p] = IF p = o THEN NoJob ELSE job[p]
    BY <1>1, AbandonTyped, Kinds DEF stores
  <2>. QED
    BY <2>1 DEF StoresAreCurrent, ClaimIsHeld, NoJob
<1>2. CASE o # Daemon
  <2>1. o \in Requests /\ Close(o, "failed") /\ "failed" \in CmdPCs \ {"open", "apply"}
    BY <1>2 DEF Owners, Abandon, CmdPCs
  <2>. QED
    BY <2>1, CloseClaim
<1>. QED
  BY <1>1, <1>2

LEMMA ClaimStep ==
  ASSUME TypeOK, StoresAreCurrent, ClaimIsHeld, OneApplies, [Next]_vars
  PROVE  StoresAreCurrent' /\ ClaimIsHeld'
<1>. DEFINE Goal == StoresAreCurrent' /\ ClaimIsHeld'
<1>. USE Kinds DEF StoresAreCurrent, ClaimIsHeld, files, stores, world
<1>1. ASSUME NEW r \in Requests, Submit(r) PROVE Goal
  <2>1. CASE claim = None
    <3>1. cmd' = [cmd EXCEPT ![r] = "open"] /\ claim' = r /\ open = {}
      BY <1>1, <2>1 DEF Submit, TypeOK
    <3>. QED
      BY <1>1, <3>1 DEF Submit, TypeOK
  <2>2. CASE claim # None
    <3>1. cmd' = [cmd EXCEPT ![r] = "wait"] /\ UNCHANGED claim
      BY <1>1, <2>2 DEF Submit, Write
    <3>. QED
      BY <1>1, <3>1 DEF Submit, TypeOK
  <2>. QED
    BY <2>1, <2>2
<1>2. ASSUME NEW r \in Requests, OpenLocal(r) PROVE Goal
  <2>1. claim = r /\ open' = open \cup {r} /\ UNCHANGED <<stale, claim, hand>>
    BY <1>2 DEF OpenLocal, ReadState
  <2>2. \A q \in Requests : cmd'[q] \in {"open", "apply"} => claim' = q
    BY <1>2, <2>1 DEF OpenLocal, TypeOK
  <2>3. \A o \in Owners : job'[o].pc # "idle" => o \in open'
    BY <1>2, <2>1 DEF OpenLocal, TypeOK
  <2>. QED
    BY <2>1, <2>2, <2>3
<1>3. ASSUME NEW r \in Requests, EndLocal(r) PROVE Goal
  BY <1>3, CloseClaim DEF EndLocal, CmdPCs
<1>4. ASSUME NEW r \in Requests, Interrupt(r) PROVE Goal
  BY <1>4, CloseClaim DEF Interrupt, CmdPCs
<1>5. CASE Start
  BY <1>5 DEF Start, TypeOK
<1>6. CASE Open
  BY <1>6 DEF Open, ReadState
<1>7. CASE Crash
  <2>1. /\ claim = Daemon /\ claim' = None /\ UNCHANGED cmd
        /\ open' = open \ {Daemon} /\ stale' = stale \ {Daemon} /\ hand' = NoHand
    BY <1>7 DEF Crash
  <2>2. \A o \in Owners : job'[o].pc # "idle" => o \in open'
    BY <1>7, <2>1, JobTyped, NoneTyped DEF Crash, TypeOK, NoJob
  <2>. QED
    BY <2>1, <2>2 DEF NoHand
<1>8. CASE Pending
  BY <1>8 DEF Pending
<1>9. CASE Drain
  BY <1>9 DEF Drain, Up, TypeOK
<1>10. CASE WriteReceipt
  BY <1>10 DEF WriteReceipt, TypeOK, NoJob
<1>11. ASSUME NEW r \in Requests, SweepLink(r) PROVE Goal
  BY <1>11 DEF SweepLink
<1>12. ASSUME NEW o \in Owners, Find(o) \/ LookForHolder(o) \/ Refuse(o) PROVE Goal
  <2>1. PICK pc \in JobPCs : Goto(o, pc)
    BY <1>12 DEF Find, LookForHolder, Refuse, JobPCs
  <2>2. UNCHANGED <<stores, cmd, hand>> /\ job[o].pc # "idle"
    BY <1>12 DEF Find, LookForHolder, Refuse
  <2>. QED
    BY <2>1, <2>2, GotoTyped DEF TypeOK
<1>13. ASSUME NEW o \in Owners, ApplyFails(o) \/ ReleaseUnknown(o) \/ SaveFails(o) PROVE Goal
  <2>1. Abandon(o) /\ UNCHANGED hand
    BY <1>13 DEF ApplyFails, ReleaseUnknown, SaveFails
  <2>. QED
    BY <2>1, AbandonClaim
<1>14. ASSUME NEW o \in Owners, Bind(o) PROVE Goal
  <2>1. /\ job[o].pc = "bind" /\ \A p \in Owners \ {o} : job'[p] = job[p]
        /\ UNCHANGED <<claim, open, stale, cmd, hand>>
    BY <1>14 DEF Bind, TypeOK
  <2>. QED
    BY <2>1
<1>15. ASSUME NEW o \in Owners, Release(o) PROVE Goal
  <2>1. /\ job[o].pc = "release" /\ \A p \in Owners \ {o} : job'[p] = job[p]
        /\ UNCHANGED <<claim, cmd, hand>>
    BY <1>15 DEF Release, TypeOK
  <2>2. stale' = {} /\ open' = open
    BY <1>15, <2>1, SaveIsAlone DEF Release, Update
  <2>. QED
    BY <2>1, <2>2
<1>16. ASSUME NEW o \in Owners, SaveLink(o) PROVE Goal
  <2>1. job[o].pc = "release" /\ UNCHANGED <<claim, cmd, hand>>
    BY <1>16 DEF SaveLink
  <2>2. stale' = {} /\ open' = open
    BY <1>16, <2>1, SaveIsAlone DEF SaveLink
  <2>3. \A p \in Owners \ {o} : job'[p] = job[p]
    BY <1>16, GotoTyped DEF SaveLink, JobPCs, TypeOK
  <2>. QED
    BY <2>1, <2>2, <2>3
<1>17. ASSUME NEW t \in Threads, Take(t) PROVE Goal
  BY <1>17 DEF Take, Up
<1>18. CASE Route \/ Leave \/ OpenWindow \/ StopKill
  <2>1. UNCHANGED <<stores, cmd, job>> /\ hand.pc # "idle"
    BY <1>18 DEF Route, Leave, OpenWindow, StopKill
  <2>. QED
    BY <2>1
<1>19. CASE RouteGone \/ LaunchSet \/ StopSet
  <2>1. UNCHANGED <<claim, cmd, job>> /\ hand.pc # "idle"
    BY <1>19 DEF RouteGone, LaunchSet, StopSet
  <2>2. UNCHANGED <<open, stale>> \/ \E S : Save(Daemon, S)
    BY <1>19 DEF RouteGone, LaunchSet, StopSet, Put, Update
  <2>3. stale' = {} /\ open' = open
    BY <2>1, <2>2, SaveIsAlone
  <2>. QED
    BY <2>1, <2>3
<1>20. ASSUME NEW t \in Threads, SweepThread(t) PROVE Goal
  <2>1. UNCHANGED <<claim, cmd, job, hand>> /\ Daemon \in open
    BY <1>20 DEF SweepThread, Up
  <2>2. stale' = {} /\ open' = open
    BY <1>20, <2>1, SaveIsAlone DEF SweepThread
  <2>. QED
    BY <2>1, <2>2
<1>21. CASE CloseWindow
  BY <1>21 DEF CloseWindow
<1>22. CASE UNCHANGED vars
  BY <1>22 DEF vars
<1>. QED
  BY <1>1, <1>2, <1>3, <1>4, <1>5, <1>6, <1>7, <1>8, <1>9, <1>10, <1>11, <1>12, <1>13,
     <1>14, <1>15, <1>16, <1>17, <1>18, <1>19, <1>20, <1>21, <1>22
     DEF Next, CommandStep, DaemonStep, HandlerStep, ApplyStep

-----------------------------------------------------------------------------
(* A request is with its command or with the daemon *)

LEMMA OneInit == Init => OneApplies
  BY Kinds DEF Init, OneApplies, NoJob

\* Apply goes on with the request it has.
LEMMA JobGoesOn ==
  ASSUME OneApplies, NEW o \in Owners, job[o].pc # "idle",
         job'[o].pc # "idle", job'[o].req = job[o].req,
         \A p \in Owners : p # o => job'[p] = job[p],
         UNCHANGED <<requests, receipts, cmd, batch>>
  PROVE  OneApplies'
  BY Kinds DEF OneApplies

\* Apply ends, in the daemon.
LEMMA JobEnds ==
  ASSUME TypeOK, OneApplies, \A p \in Owners : job'[p] = IF p = Daemon THEN NoJob ELSE job[p],
         UNCHANGED <<requests, receipts, cmd>>, batch' \subseteq batch
  PROVE  OneApplies'
<1>1. NoJob.pc = "idle" /\ NoJob.req = None
  BY DEF NoJob
<1>2. job'[Daemon] = NoJob /\ \A q \in Requests : job'[q] = job[q]
  BY Kinds
<1>3. batch' \subseteq Requests
  BY DEF TypeOK
<1>. QED
  BY <1>1, <1>2, <1>3, Kinds DEF OneApplies, Owners

LEMMA CloseOne ==
  ASSUME TypeOK, OneApplies, NEW r \in Requests, NEW told \in CmdPCs, cmd[r] \in {"open", "apply"},
         Close(r, told), UNCHANGED <<requests, receipts, batch>>
  PROVE  OneApplies'
<1>1. /\ cmd' = [cmd EXCEPT ![r] = told] /\ cmd \in [Requests -> CmdPCs]
      /\ \A p \in Owners : job'[p] = IF p = r THEN NoJob ELSE job[p]
  BY CloseTyped DEF TypeOK
<1>2. NoJob.pc = "idle" /\ NoJob.req = None
  BY DEF NoJob
<1>3. \A q \in Requests : q # r => cmd'[q] = cmd[q] /\ job'[q] = job[q]
  BY <1>1, Kinds
<1>4. job'[Daemon] = job[Daemon] /\ cmd[r] # "wait" /\ job'[r] = NoJob
  BY <1>1, Kinds
<1>. QED
  BY <1>1, <1>2, <1>3, <1>4, Kinds DEF OneApplies

LEMMA AbandonOne ==
  ASSUME TypeOK, OneApplies, NEW o \in Owners, job[o].pc # "idle", Abandon(o),
         UNCHANGED <<requests, receipts, batch>>
  PROVE  OneApplies'
<1>1. CASE o = Daemon
  <2>1. UNCHANGED cmd /\ \A p \in Owners : job'[p] = IF p = Daemon THEN NoJob ELSE job[p]
    BY <1>1, AbandonTyped, Kinds
  <2>. QED
    BY <2>1, JobEnds
<1>2. CASE o # Daemon
  <2>1. o \in Requests /\ Close(o, "failed") /\ "failed" \in CmdPCs
    BY <1>2 DEF Owners, Abandon, CmdPCs
  <2>2. cmd[o] = "apply"
    BY <2>1 DEF OneApplies
  <2>. QED
    BY <2>1, <2>2, CloseOne
<1>. QED
  BY <1>1, <1>2

LEMMA OneStep ==
  ASSUME TypeOK, OneApplies, [Next]_vars
  PROVE  OneApplies'
<1>. USE Kinds DEF files, stores, world
<1>. DEFINE first(r) == [NoJob EXCEPT !.pc = "find", !.req = r]
<1>0. \A r : first(r).pc = "find" /\ first(r).req = r
  BY DEF NoJob
<1>. HIDE DEF first
<1>1. ASSUME NEW r \in Requests, Submit(r) PROVE OneApplies'
  <2>1. cmd[r] = "new" /\ UNCHANGED <<receipts, job, batch>>
    BY <1>1 DEF Submit
  <2>2. \A q \in Requests : q # r => cmd'[q] = cmd[q] /\ requests'[q] = requests[q]
    BY <1>1 DEF Submit, Write, TypeOK
  <2>3. ~(requests[r] > 0) /\ receipts[r] = None /\ (requests'[r] > 0 => cmd'[r] = "wait")
    BY <1>1, <2>1 DEF Submit, Write, TypeOK, OneApplies
  <2>4. \A o \in Owners : job'[o].pc = "idle" <=> job'[o].req = None
    BY <2>1 DEF OneApplies
  <2>5. \A q \in Requests : job'[q].pc # "idle" => job'[q].req = q /\ cmd'[q] = "apply"
    BY <2>1, <2>2 DEF OneApplies
  <2>6. \A q \in Requests : requests'[q] > 0 \/ receipts'[q] # None => cmd'[q] = "wait"
    BY <2>1, <2>2, <2>3 DEF OneApplies
  <2>7. \A q \in Requests :
           q \in batch' \cup {job'[Daemon].req} => cmd'[q] = "wait" /\ receipts'[q] = None
    BY <2>1, <2>2 DEF OneApplies
  <2>. QED
    BY <2>1, <2>4, <2>5, <2>6, <2>7 DEF OneApplies
<1>2. ASSUME NEW r \in Requests, OpenLocal(r) PROVE OneApplies'
  <2>1. /\ cmd[r] = "open" /\ cmd' = [cmd EXCEPT ![r] = "apply"]
        /\ UNCHANGED <<requests, receipts, batch>>
    BY <1>2 DEF OpenLocal
  <2>2. job' = [job EXCEPT ![r] = first(r)]
    BY <1>2 DEF OpenLocal, first
  <2>3. \A q \in Requests : q # r => cmd'[q] = cmd[q] /\ job'[q] = job[q]
    BY <2>1, <2>2 DEF TypeOK
  <2>4. job'[Daemon] = job[Daemon] /\ job'[r] = first(r) /\ cmd'[r] = "apply"
    BY <2>1, <2>2 DEF TypeOK
  <2>. QED
    BY <1>0, <2>1, <2>3, <2>4 DEF OneApplies, Owners
<1>3. ASSUME NEW r \in Requests, EndLocal(r) PROVE OneApplies'
  BY <1>3, CloseOne DEF EndLocal, CmdPCs
<1>4. ASSUME NEW r \in Requests, Interrupt(r) PROVE OneApplies'
  BY <1>4, CloseOne DEF Interrupt, CmdPCs
<1>5. CASE Start \/ Open \/ Route \/ Leave \/ OpenWindow \/ StopKill \/ LaunchSet \/ StopSet
           \/ RouteGone \/ CloseWindow
           \/ (\E t \in Threads : Take(t) \/ SweepThread(t)) \/ UNCHANGED vars
  <2>1. UNCHANGED <<requests, receipts, cmd, job, batch>>
    BY <1>5 DEF Start, Open, Route, Leave, OpenWindow, StopKill, LaunchSet, StopSet, RouteGone,
                CloseWindow, Take, SweepThread, vars
  <2>. QED
    BY <2>1 DEF OneApplies
<1>6. CASE Crash
  <2>1. UNCHANGED <<requests, receipts, cmd>> /\ batch' \subseteq batch
    BY <1>6 DEF Crash
  <2>2. \A p \in Owners : job'[p] = IF p = Daemon THEN NoJob ELSE job[p]
    BY <1>6, NoneTyped, JobTyped DEF Crash, TypeOK
  <2>. QED
    BY <2>1, <2>2, JobEnds
<1>7. CASE Pending
  <2>1. /\ job[Daemon] = NoJob /\ UNCHANGED <<requests, receipts, cmd, job>>
        /\ batch' = {r \in Requests : requests[r] > 0 /\ receipts[r] = None}
    BY <1>7 DEF Pending
  <2>2. job[Daemon].req = None
    BY <2>1 DEF NoJob
  <2>. QED
    BY <2>1, <2>2 DEF OneApplies
<1>8. CASE Drain
  <2>1. PICK r \in batch : batch' = batch \ {r} /\ job' = [job EXCEPT ![Daemon] = first(r)]
    BY <1>8 DEF Drain, first
  <2>2. r \in Requests /\ UNCHANGED <<requests, receipts, cmd>>
    BY <1>8, <2>1 DEF Drain, TypeOK
  <2>3. job'[Daemon] = first(r) /\ \A q \in Requests : job'[q] = job[q]
    BY <2>1 DEF TypeOK
  <2>. QED
    BY <1>0, <2>1, <2>2, <2>3 DEF OneApplies, Owners
<1>9. CASE WriteReceipt
  <2>. DEFINE r == job[Daemon].req
  <2>1. job[Daemon].pc # "idle" /\ UNCHANGED <<requests, cmd, batch>>
    BY <1>9 DEF WriteReceipt
  <2>2. r \in Requests /\ cmd[r] = "wait"
    BY <2>1 DEF OneApplies, TypeOK, Job
  <2>3. \A q \in Requests : q # r => receipts'[q] = receipts[q]
    BY <1>9 DEF WriteReceipt, TypeOK
  <2>4. job'[Daemon] = NoJob /\ \A q \in Requests : job'[q] = job[q]
    BY <1>9 DEF WriteReceipt, TypeOK
  <2>5. NoJob.pc = "idle" /\ NoJob.req = None
    BY DEF NoJob
  <2>6. \A q \in Requests : q \in batch' => cmd'[q] = "wait" /\ receipts'[q] = None
    BY <2>1, <2>3 DEF OneApplies
  <2>7. \A q \in Requests : requests'[q] > 0 \/ receipts'[q] # None => cmd'[q] = "wait"
    BY <2>1, <2>2, <2>3 DEF OneApplies
  <2>8. \A o \in Owners : job'[o].pc = "idle" <=> job'[o].req = None
    BY <2>4, <2>5 DEF OneApplies, Owners
  <2>9. \A q \in Requests : job'[q].pc # "idle" => job'[q].req = q /\ cmd'[q] = "apply"
    BY <2>1, <2>4 DEF OneApplies
  <2>10. job'[Daemon].req = None /\ batch' \subseteq Requests
    BY <2>1, <2>4, <2>5 DEF TypeOK
  <2>. QED
    BY <2>6, <2>7, <2>8, <2>9, <2>10 DEF OneApplies
<1>10. ASSUME NEW r \in Requests, SweepLink(r) PROVE OneApplies'
  <2>1. UNCHANGED <<cmd, job, batch>>
    BY <1>10 DEF SweepLink
  <2>2. \A q \in Requests : (requests'[q] > 0 => requests[q] > 0)
                            /\ receipts'[q] \in {receipts[q], None}
    BY <1>10 DEF SweepLink, TypeOK
  <2>. QED
    BY <2>1, <2>2 DEF OneApplies
<1>11. ASSUME NEW o \in Owners, Find(o) \/ LookForHolder(o) \/ Refuse(o) \/ SaveLink(o)
       PROVE  OneApplies'
  <2>1. PICK pc \in JobPCs \ {"idle"} : Goto(o, pc)
    BY <1>11 DEF Find, LookForHolder, Refuse, SaveLink, JobPCs
  <2>2. UNCHANGED <<requests, receipts, cmd, batch>> /\ job[o].pc # "idle"
    BY <1>11 DEF Find, LookForHolder, Refuse, SaveLink
  <2>. QED
    BY <2>1, <2>2, GotoTyped, JobGoesOn DEF TypeOK
<1>12. ASSUME NEW o \in Owners, ApplyFails(o) \/ ReleaseUnknown(o) \/ SaveFails(o)
       PROVE  OneApplies'
  <2>1. Abandon(o) /\ UNCHANGED <<requests, receipts, batch>> /\ job[o].pc # "idle"
    BY <1>12 DEF ApplyFails, ReleaseUnknown, SaveFails
  <2>. QED
    BY <2>1, AbandonOne
<1>13. ASSUME NEW o \in Owners, Bind(o) \/ Release(o) PROVE OneApplies'
  <2>1. UNCHANGED <<requests, receipts, cmd, batch>> /\ job[o].pc # "idle"
    BY <1>13 DEF Bind, Release
  <2>2. job'[o].pc = "release" /\ job'[o].req = job[o].req
    BY <1>13 DEF Bind, Release, TypeOK, Job
  <2>3. \A p \in Owners : p # o => job'[p] = job[p]
    BY <1>13 DEF Bind, Release, TypeOK
  <2>. QED
    BY <2>1, <2>2, <2>3, JobGoesOn
<1>. QED
  BY <1>1, <1>2, <1>3, <1>4, <1>5, <1>6, <1>7, <1>8, <1>9, <1>10, <1>11, <1>12, <1>13
     DEF Next, CommandStep, DaemonStep, HandlerStep, ApplyStep

-----------------------------------------------------------------------------
(* Windows and sessions *)

LEMMA LinkInit == Init => LinkInv
<1>. SUFFICES ASSUME Init PROVE LinkInv
  OBVIOUS
<1>1. Stores = {NoStore} /\ \A t \in Threads : NoStore[t].win = None
  BY DEF Init, Stores, NoStore, Unknown
<1>2. \A o \in Owners : job[o].pc = "idle"
  BY DEF Init, NoJob
<1>3. hand.pc = "idle"
  BY DEF Init, NoHand
<1>4. OpenedFirst
  BY LinksAssumption DEF Init, OpenedFirst, Submitted
<1>5. None \notin NewWindows
  BY Kinds DEF Windows
<1>. QED
  BY <1>1, <1>2, <1>3, <1>4, <1>5
     DEF LinkInv, ReleasesAll, SharedIsExplained, LaunchedOnce, OneSession

\* A step after which the stores hold nothing but what they held, or less.
Derives == \A S \in Stores' : \E R \in Stores : \A t \in Threads : S[t] = R[t] \/ S[t].win = None

LEMMA SameStores ==
  ASSUME UNCHANGED <<disk, mem>>, open' \subseteq open
  PROVE  Derives
  BY DEF Derives, Stores

\* A record gives its window up.
LEMMA GivenUp ==
  ASSUME TypeOK, NEW o \in open, NEW t \in Threads, NEW rec \in Thread, rec.win = None,
         mem' = [mem EXCEPT ![o][t] = rec], disk' \in {disk, mem'[o]}, open' = open
  PROVE  Derives
<1>1. o \in Owners /\ open \subseteq Owners
  BY DEF TypeOK
<1>2. \A p \in Owners, u \in Threads : mem'[p][u] = IF p = o /\ u = t THEN rec ELSE mem[p][u]
  BY <1>1, SetTyped DEF TypeOK
<1>3. \A p \in open : \E R \in Stores : \A u \in Threads : mem'[p][u] = R[u] \/ mem'[p][u].win = None
  BY <1>1, <1>2 DEF Stores
<1>4. Stores' \subseteq {disk} \cup {mem'[p] : p \in open} /\ disk \in Stores
  BY DEF Stores
<1>5. \A S \in Stores' : S = disk \/ \E p \in open : S = mem'[p]
  BY <1>4
<1>6. \A u \in Threads : disk[u] = disk[u] \/ disk[u].win = None
  OBVIOUS
<1>7. \A S \in Stores' : \E R \in Stores : \A u \in Threads : S[u] = R[u] \/ S[u].win = None
  <2>. SUFFICES ASSUME NEW S \in Stores'
                PROVE  \E R \in Stores : \A u \in Threads : S[u] = R[u] \/ S[u].win = None
    OBVIOUS
  <2>1. CASE S = disk
    BY <1>4, <1>6, <2>1
  <2>2. CASE \E p \in open : S = mem'[p]
    BY <1>3, <2>2
  <2>. QED
    BY <1>5, <2>1, <2>2
<1>. QED
  BY <1>7 DEF Derives

\* A process reads the file.
LEMMA ReadAgain ==
  ASSUME TypeOK, NEW o \in Owners, ReadState(o), UNCHANGED disk
  PROVE  Derives
<1>1. mem' = [mem EXCEPT ![o] = disk] /\ open' = open \cup {o}
  BY DEF ReadState
<1>2. \A p \in open' : mem'[p] \in Stores
  BY <1>1 DEF TypeOK, Stores
<1>. QED
  BY <1>2 DEF Derives, Stores

\* A process ends.
LEMMA Dropped ==
  ASSUME TypeOK, NEW o \in Owners, mem' = [mem EXCEPT ![o] = NoStore], open' = open \ {o},
         UNCHANGED disk
  PROVE  Derives
<1>1. \A p \in open' : mem'[p] \in Stores
  BY DEF TypeOK, Stores
<1>. QED
  BY <1>1 DEF Derives, Stores

LEMMA AbandonDerives ==
  ASSUME TypeOK, NEW o \in Owners, Abandon(o), UNCHANGED disk
  PROVE  Derives
<1>1. CASE o = Daemon
  BY <1>1, SameStores DEF Abandon, stores
<1>2. CASE o # Daemon
  BY <1>2, Dropped DEF Abandon, Close
<1>. QED
  BY <1>1, <1>2

\* A link that has not happened yet.
Keeps == \A r \in Requests : Unlinked(r) => Unlinked(r)'

LEMMA StillExplained ==
  ASSUME SharedIsExplained, Derives, Keeps
  PROVE  SharedIsExplained'
<1>. SUFFICES ASSUME NEW S \in Stores', NEW t \in Threads, NEW u \in Threads,
                     t # u, S[t].win = S[u].win, S[t].win # None
              PROVE  \E r \in Requests : WindowOf[r] = S[t].win /\ Unlinked(r)'
  BY DEF SharedIsExplained
<1>1. PICK R \in Stores : \A v \in Threads : S[v] = R[v] \/ S[v].win = None
  BY DEF Derives
<1>2. R[t] = S[t] /\ R[u] = S[u]
  BY <1>1
<1>. QED
  BY <1>2 DEF SharedIsExplained, Keeps

LEMMA StillLaunched ==
  ASSUME LaunchedOnce, OneSession, Derives, UNCHANGED agent,
         hand'.pc = "opened" => hand.pc = "opened" /\ hand'.win = hand.win,
         hand.pc = "opened" => hand.win \in NewWindows
  PROVE  LaunchedOnce' /\ OneSession'
<1>1. None \notin NewWindows
  BY Kinds DEF Windows
<1>2. \A S \in Stores', t, u \in Threads :
         (S[t].win # None /\ S[u].win # None)
         => \E R \in Stores : R[t] = S[t] /\ R[u] = S[u]
  BY DEF Derives
<1>3. OneSession'
  BY <1>2 DEF OneSession
<1>4. \A S \in Stores', t \in Threads : S[t].win \in NewWindows => agent'[S[t].win] # 0
  BY <1>1, <1>2 DEF LaunchedOnce
<1>5. hand'.pc = "opened" => \A S \in Stores', t \in Threads : S[t].win # hand'.win
  BY <1>1, <1>2 DEF LaunchedOnce
<1>. QED
  BY <1>3, <1>4, <1>5 DEF LaunchedOnce

\* What a link has still to release grows by no step but its own.
LEMMA StillReleases ==
  ASSUME ReleasesAll,
         \A o \in Owners :
            job'[o].pc = "release" =>
               /\ job[o].pc = "release" /\ job'[o].req = job[o].req
               /\ \A t \in Threads :
                     mem'[o][t].win = WindowOf[ReqOf(o)]
                     => mem[o][t].win = WindowOf[ReqOf(o)] /\ (t \in job[o].todo => t \in job'[o].todo)
  PROVE  ReleasesAll'
  BY DEF ReleasesAll, ReqOf

\* A request is applied in one process.
LEMMA OneJob ==
  ASSUME OneApplies, NEW o \in Owners, NEW p \in Owners,
         job[o].pc # "idle", job[p].pc # "idle", job[o].req = job[p].req, job[o].req \in Requests
  PROVE  o = p
<1>1. CASE o = Daemon /\ p \in Requests
  BY <1>1 DEF OneApplies
<1>2. CASE p = Daemon /\ o \in Requests
  BY <1>2 DEF OneApplies
<1>3. CASE o \in Requests /\ p \in Requests
  BY <1>3 DEF OneApplies
<1>. QED
  BY <1>1, <1>2, <1>3 DEF Owners

\* A request that is being applied, and is not through, is not linked.
LEMMA AppliedIsUnlinked ==
  ASSUME TypeOK, OneApplies, NEW o \in Owners, job[o].pc \notin {"idle", "linked"}
  PROVE  ReqOf(o) \in Requests /\ Unlinked(ReqOf(o))
<1>1. ReqOf(o) \in Requests
  BY DEF ReqOf, OneApplies, TypeOK, Job
<1>2. cmd[ReqOf(o)] \in {"apply", "wait"} /\ receipts[ReqOf(o)] = None
  BY <1>1 DEF ReqOf, OneApplies, Owners
<1>3. \A p \in Owners : ~(job[p].pc = "linked" /\ job[p].req = ReqOf(o))
  BY <1>1, OneJob DEF ReqOf
<1>4. None # "linked"
  BY LinksAssumption DEF LinksAssumption
<1>. QED
  BY <1>1, <1>2, <1>3, <1>4 DEF Unlinked, Submitted, Linked

\* What most steps do to the threads and windows.
LEMMA Ordinary ==
  ASSUME LinkInv, OpenedFirst', HandIsSound, Derives, Keeps, UNCHANGED agent,
         hand'.pc = "opened" => hand' = hand,
         \A o \in Owners :
            job'[o].pc = "release" =>
               /\ job[o].pc = "release" /\ job'[o].req = job[o].req
               /\ \A t \in Threads :
                     mem'[o][t].win = WindowOf[ReqOf(o)]
                     => mem[o][t].win = WindowOf[ReqOf(o)] /\ (t \in job[o].todo => t \in job'[o].todo)
  PROVE  LinkInv'
<1>1. ReleasesAll'
  BY StillReleases DEF LinkInv
<1>2. SharedIsExplained'
  BY StillExplained DEF LinkInv
<1>3. LaunchedOnce' /\ OneSession'
  BY StillLaunched DEF LinkInv, HandIsSound
<1>. QED
  BY <1>1, <1>2, <1>3 DEF LinkInv

\* A record in the daemon's store gives its window up, whatever Apply is at there.
LEMMA RecordGivenUp ==
  ASSUME TypeOK, HandIsSound, OneApplies, LinkInv, OpenedFirst', Daemon \in open, NEW t \in Threads,
         NEW rec \in Thread, rec.win = None, mem' = [mem EXCEPT ![Daemon][t] = rec],
         disk' \in {disk, mem'[Daemon]}, UNCHANGED <<open, receipts, cmd, job, agent>>,
         hand'.pc = "opened" => hand' = hand
  PROVE  LinkInv'
<1>1. Derives
  BY GivenUp, Kinds
<1>2. Keeps
  BY DEF Keeps, Unlinked, Submitted, Linked
<1>3. \A p \in Owners, u \in Threads :
         mem'[p][u] = IF p = Daemon /\ u = t THEN rec ELSE mem[p][u]
  BY SetTyped, Kinds DEF TypeOK
<1>4. \A o \in Owners : job[o].pc = "release" => WindowOf[ReqOf(o)] # None
  BY AppliedIsUnlinked, Kinds
<1>. QED
  BY <1>1, <1>2, <1>3, <1>4, Ordinary

\* Apply fails.
LEMMA ApplyGivenUp ==
  ASSUME TypeOK, HandIsSound, OneApplies, LinkInv, OpenedFirst', NEW o \in Owners, Abandon(o),
         UNCHANGED <<disk, receipts, agent, hand>>
  PROVE  LinkInv'
<1>1. Derives
  BY AbandonDerives
<1>2. /\ \A p \in Owners : job'[p] = IF p = o THEN NoJob ELSE job[p]
      /\ \/ cmd' = cmd
         \/ o \in Requests /\ cmd' = [cmd EXCEPT ![o] = "failed"]
  <2>1. /\ \A p \in Owners : job'[p] = IF p = o THEN NoJob ELSE job[p]
        /\ \/ o = Daemon /\ UNCHANGED <<cmd, stores>>
           \/ o \in Requests /\ cmd' = [cmd EXCEPT ![o] = "failed"]
    BY AbandonTyped
  <2>. QED
    BY <2>1
<1>3. Keeps
  BY <1>2 DEF Keeps, Unlinked, Submitted, Linked, NoJob, TypeOK
<1>4. \A p \in Owners : p # o => mem'[p] = mem[p]
  BY DEF Abandon, Close, stores, TypeOK
<1>. QED
  BY <1>1, <1>2, <1>3, <1>4, Ordinary DEF NoJob

LEMMA BindLinks ==
  ASSUME LinksAfterLaunch, IInv, LinkInv, OpenedFirst', NEW o \in Owners, Bind(o)
  PROVE  LinkInv'
<1>. USE Kinds DEF IInv
<1>. DEFINE r == ReqOf(o)
            w == WindowOf[r]
            root == ThreadOf[r]
<1>1. /\ job[o].pc = "bind" /\ o \in open /\ r \in Requests /\ Unlinked(r)
      /\ UNCHANGED <<files, claim, open, stale, cmd, batch, hand, live, agent, mishaps>>
  BY AppliedIsUnlinked DEF Bind, ClaimIsHeld
<1>2. /\ w \in Windows /\ w # None /\ root \in Threads
      /\ w \in NewWindows => agent[w] # 0
      /\ hand.pc = "opened" => w # hand.win
  BY <1>1 DEF LinkInv, OpenedFirst, LinksAfterLaunch, Unlinked
\* The session is the one the threads of the window have.
<1>3. PICK s \in Nat \ {0} :
         /\ mem' = [mem EXCEPT ![o][root] = Held(w, s)]
         /\ \A t \in Threads : mem[o][t].win = w => mem[o][t].sess = s
  <2>1. CASE SessionsOf(o, w) = {}
    <3>1. mem' = [mem EXCEPT ![o][root] = Held(w, ids + 1)] /\ ids + 1 \in Nat \ {0}
      BY <2>1 DEF Bind, TypeOK
    <3>2. \A t \in Threads : mem[o][t].win # w
      BY <2>1 DEF SessionsOf
    <3>. QED
      BY <3>1, <3>2
  <2>2. CASE SessionsOf(o, w) # {}
    <3>1. PICK s \in SessionsOf(o, w) : mem' = [mem EXCEPT ![o][root] = Held(w, s)]
      BY <2>2 DEF Bind
    <3>2. PICK u \in Threads : mem[o][u].win = w /\ mem[o][u].sess = s
      BY <3>1 DEF SessionsOf
    <3>3. \A t \in Threads : mem[o][t].win = w => mem[o][t].sess = s
      BY <1>1, <1>2, <3>2 DEF LinkInv, OneSession, Stores
    <3>4. s \in Nat \ {0}
      BY <1>2, <3>1, SessionsTyped DEF Windows
    <3>. QED
      BY <3>1, <3>3, <3>4
  <2>. QED
    BY <2>1, <2>2
<1>4. \A p \in Owners, t \in Threads :
         mem'[p][t] = IF p = o /\ t = root THEN Held(w, s) ELSE mem[p][t]
  BY <1>2, <1>3, SetTyped, RecordsTyped DEF TypeOK, Windows
<1>5. Held(w, s).win = w /\ Held(w, s).sess = s
  BY DEF Held
\* Every store is one there was, but for this record in one of them.
<1>6. \A S \in Stores' : S \in Stores \/ (S = mem'[o] /\ mem[o] \in Stores)
  <2>1. \A p \in open : p # o => mem'[p] = mem[p]
    BY <1>3 DEF TypeOK
  <2>. QED
    BY <1>1, <2>1 DEF Stores, files
<1>7. /\ job'[o].pc = "release" /\ job'[o].req = r
      /\ job'[o].todo = {t \in Threads \ {root} : mem[o][t].win = w}
      /\ \A p \in Owners : p # o => job'[p] = job[p]
  BY DEF Bind, TypeOK, Job, ReqOf
<1>8. Keeps
  BY <1>1, <1>7 DEF Keeps, Unlinked, Submitted, Linked, files
<1>9. ReleasesAll'
  <2>. SUFFICES ASSUME NEW p \in Owners, NEW t \in Threads, job'[p].pc = "release",
                       mem'[p][t].win = WindowOf[job'[p].req]
                PROVE  t = ThreadOf[job'[p].req] \/ t \in job'[p].todo
    BY DEF ReleasesAll, ReqOf
  <2>1. CASE p = o
    BY <1>4, <1>7, <2>1
  <2>2. CASE p # o
    BY <1>4, <1>7, <2>2 DEF LinkInv, ReleasesAll, ReqOf
  <2>. QED
    BY <2>1, <2>2
<1>10. SharedIsExplained'
  <2>. SUFFICES ASSUME NEW S \in Stores', NEW t \in Threads, NEW u \in Threads,
                       t # u, S[t].win = S[u].win, S[t].win # None
                PROVE  \E q \in Requests : WindowOf[q] = S[t].win /\ Unlinked(q)'
    BY DEF SharedIsExplained
  <2>1. CASE S[t].win = w
    BY <1>1, <1>8, <2>1 DEF Keeps
  <2>2. CASE S[t].win # w
    <3>1. \E R \in Stores : R[t] = S[t] /\ R[u] = S[u]
      BY <1>1, <1>4, <1>5, <1>6, <2>2
    <3>. QED
      BY <1>8, <3>1 DEF LinkInv, SharedIsExplained, Keeps
  <2>. QED
    BY <2>1, <2>2
<1>11. OneSession'
  <2>. SUFFICES ASSUME NEW S \in Stores', NEW t \in Threads, NEW u \in Threads,
                       S[t].win = S[u].win, S[t].win # None
                PROVE  S[t].sess = S[u].sess
    BY DEF OneSession
  <2>1. CASE S = mem'[o] /\ S[t].win = w
    BY <1>1, <1>3, <1>4, <1>5, <2>1
  <2>2. CASE S = mem'[o] /\ S[t].win # w
    <3>1. mem[o] \in Stores /\ mem[o][t] = S[t] /\ mem[o][u] = S[u]
      BY <1>1, <1>4, <1>5, <2>2 DEF Stores
    <3>. QED
      BY <3>1 DEF LinkInv, OneSession
  <2>3. CASE S \in Stores
    BY <2>3 DEF LinkInv, OneSession
  <2>. QED
    BY <1>6, <2>1, <2>2, <2>3
<1>12. \A S \in Stores', t \in Threads :
          S[t].win # w => \E R \in Stores : R[t] = S[t]
  BY <1>1, <1>4, <1>5, <1>6
<1>13. LaunchedOnce'
  <2>1. \A S \in Stores', t \in Threads : S[t].win \in NewWindows => agent'[S[t].win] # 0
    BY <1>1, <1>2, <1>12 DEF LinkInv, LaunchedOnce
  <2>2. hand'.pc = "opened" => \A S \in Stores', t \in Threads : S[t].win # hand'.win
    BY <1>1, <1>2, <1>12 DEF LinkInv, LaunchedOnce
  <2>. QED
    BY <2>1, <2>2 DEF LaunchedOnce
<1>. QED
  BY <1>9, <1>10, <1>11, <1>13 DEF LinkInv

LEMMA SaveLinks ==
  ASSUME IInv, LinkInv, OpenedFirst', NEW o \in Owners, SaveLink(o)
  PROVE  LinkInv'
<1>. USE Kinds DEF IInv
<1>1. /\ job[o].pc = "release" /\ job[o].todo = {} /\ o \in open /\ open \subseteq {o}
      /\ ReqOf(o) \in Requests
  BY AppliedIsUnlinked DEF SaveLink, ClaimIsHeld
<1>2. disk' = mem[o] /\ UNCHANGED <<requests, receipts, mem, open, cmd, hand, agent>>
  BY <1>1, SaveIsAlone DEF SaveLink, Save, world
<1>3. Stores' = {mem[o]} /\ mem[o] \in Stores
  BY <1>1, <1>2 DEF Stores
<1>4. /\ job'[o].pc = "linked" /\ job'[o].req = job[o].req
      /\ \A p \in Owners : p # o => job'[p] = job[p]
  BY GotoTyped DEF SaveLink, TypeOK, JobPCs
<1>5. ReleasesAll'
  BY <1>2, <1>4 DEF LinkInv, ReleasesAll, ReqOf
\* Nothing shares the window any more, and the other requests are as they were.
<1>6. \A q \in Requests : q # ReqOf(o) /\ Unlinked(q) => Unlinked(q)'
  BY <1>2, <1>4 DEF Unlinked, Submitted, Linked, ReqOf
<1>7. \A t, u \in Threads : t # u /\ mem[o][t].win = mem[o][u].win
                            => mem[o][t].win # WindowOf[ReqOf(o)]
  BY <1>1 DEF LinkInv, ReleasesAll
<1>8. SharedIsExplained'
  BY <1>3, <1>6, <1>7 DEF LinkInv, SharedIsExplained
<1>9. Derives
  BY <1>3 DEF Derives
<1>10. LaunchedOnce' /\ OneSession'
  BY <1>2, <1>9, StillLaunched DEF LinkInv, HandIsSound
<1>. QED
  BY <1>5, <1>8, <1>10 DEF LinkInv

LEMMA OpenedStep ==
  ASSUME TypeOK, OneApplies, OpenedFirst, [Next]_vars
  PROVE  OpenedFirst'
<1>. USE Kinds DEF files, stores, world
<1>1. ASSUME NEW r \in Requests, Submit(r) PROVE OpenedFirst'
  <2>1. WindowOf[r] \in live /\ UNCHANGED <<live, agent>>
    BY <1>1 DEF Submit
  <2>2. \A q \in Requests : q # r => cmd'[q] = cmd[q]
    BY <1>1 DEF Submit, Write, TypeOK
  <2>. QED
    BY <2>1, <2>2 DEF OpenedFirst, Submitted
<1>2. CASE OpenWindow
  <2>1. PICK w \in NewWindows \ live : /\ live' = live \cup {w}
                                      /\ agent' = [agent EXCEPT ![w] = ids + 1]
    BY <1>2 DEF OpenWindow
  <2>2. UNCHANGED cmd /\ agent'[w] = ids + 1 /\ ids + 1 # 0
    BY <1>2, <2>1 DEF OpenWindow, TypeOK, Windows
  <2>3. \A v \in NewWindows : v # w => agent'[v] = agent[v]
    BY <2>1 DEF TypeOK, Windows
  <2>. QED
    BY <2>1, <2>2, <2>3 DEF OpenedFirst, Submitted
\* Every other step leaves the windows there are, or takes one away.
<1>3. ASSUME live' \subseteq live, UNCHANGED agent,
             \A r \in Requests : cmd[r] = "new" => cmd'[r] = "new"
      PROVE  OpenedFirst'
  BY <1>3 DEF OpenedFirst, Submitted
<1>4. CASE StopKill \/ CloseWindow
  BY <1>3, <1>4 DEF StopKill, CloseWindow
<1>5. ASSUME NEW r \in Requests, OpenLocal(r) \/ EndLocal(r) \/ Interrupt(r) PROVE OpenedFirst'
  <2>1. UNCHANGED <<live, agent>> /\ cmd[r] # "new" /\ \E pc : cmd' = [cmd EXCEPT ![r] = pc]
    BY <1>5 DEF OpenLocal, EndLocal, Interrupt, Close
  <2>. QED
    BY <1>3, <2>1 DEF TypeOK
<1>6. ASSUME NEW o \in Owners, ApplyStep(o) PROVE OpenedFirst'
  <2>1. UNCHANGED <<live, agent>>
    BY <1>6 DEF ApplyStep, Find, LookForHolder, Refuse, ApplyFails, Bind, Release,
                ReleaseUnknown, SaveLink, SaveFails
  <2>2. UNCHANGED cmd \/ (job[o].pc # "idle" /\ Abandon(o))
    BY <1>6 DEF ApplyStep, Find, LookForHolder, Refuse, ApplyFails, Bind, Release,
                ReleaseUnknown, SaveLink, SaveFails
  <2>3. CASE job[o].pc # "idle" /\ Abandon(o)
    <3>1. UNCHANGED cmd \/ (o \in Requests /\ cmd' = [cmd EXCEPT ![o] = "failed"])
      <4>1. \/ o = Daemon /\ UNCHANGED <<cmd, stores>>
            \/ o \in Requests /\ cmd' = [cmd EXCEPT ![o] = "failed"]
        BY <2>3, AbandonTyped
      <4>. QED
        BY <4>1
    <3>2. o \in Requests => cmd[o] = "apply"
      BY <2>3 DEF OneApplies
    <3>. QED
      BY <1>3, <2>1, <3>1, <3>2 DEF TypeOK
  <2>. QED
    BY <1>3, <2>1, <2>2, <2>3
<1>7. CASE \/ Start \/ Open \/ Crash \/ Pending \/ Drain \/ WriteReceipt
           \/ Route \/ RouteGone \/ Leave \/ LaunchSet \/ StopSet \/ UNCHANGED vars
           \/ (\E r \in Requests : SweepLink(r)) \/ (\E t \in Threads : Take(t) \/ SweepThread(t))
  <2>1. UNCHANGED <<live, agent, cmd>>
    BY <1>7 DEF Start, Open, Crash, Pending, Drain, WriteReceipt, Route, RouteGone, Leave,
                LaunchSet, StopSet, SweepLink, Take, SweepThread, vars
  <2>. QED
    BY <1>3, <2>1
<1>. QED
  BY <1>1, <1>2, <1>4, <1>5, <1>6, <1>7 DEF Next, CommandStep, DaemonStep, HandlerStep

LEMMA LinkStep ==
  ASSUME LinksAfterLaunch, IInv, LinkInv, [Next]_vars
  PROVE  LinkInv'
<1>. USE Kinds DEF IInv, files, stores, world
<1>0. OpenedFirst'
  BY OpenedStep DEF LinkInv
<1>1. ASSUME NEW r \in Requests, Submit(r) PROVE LinkInv'
  <2>1. UNCHANGED <<disk, mem, open, receipts, job, hand, agent>>
    BY <1>1 DEF Submit
  <2>2. Keeps
    BY <1>1, <2>1 DEF Submit, Write, Keeps, Unlinked, Submitted, Linked, TypeOK
  <2>. QED
    BY <1>0, <2>1, <2>2, SameStores, Ordinary
<1>2. ASSUME NEW r \in Requests, OpenLocal(r) PROVE LinkInv'
  <2>1. Derives
    BY <1>2, ReadAgain DEF OpenLocal
  <2>2. \A p \in Owners : p # r => job'[p] = job[p] /\ mem'[p] = mem[p]
    BY <1>2 DEF OpenLocal, ReadState, TypeOK
  <2>3. job'[r].pc = "find"
    BY <1>2 DEF OpenLocal, NoJob, TypeOK
  <2>4. Keeps
    BY <1>2, <2>2, <2>3 DEF OpenLocal, Keeps, Unlinked, Submitted, Linked, TypeOK
  <2>5. UNCHANGED <<agent, hand>>
    BY <1>2 DEF OpenLocal
  <2>. QED
    BY <1>0, <2>1, <2>2, <2>3, <2>4, <2>5, Ordinary
<1>3. ASSUME NEW r \in Requests, EndLocal(r) \/ Interrupt(r) PROVE LinkInv'
  <2>1. PICK told \in {"linked", "rejected", "failed"} :
           Close(r, told) /\ (told = "linked" => job[r].pc = "linked")
    BY <1>3 DEF EndLocal, Interrupt
  <2>2. UNCHANGED <<disk, receipts, agent, hand>>
    BY <1>3 DEF EndLocal, Interrupt
  <2>3. Derives
    BY <2>1, <2>2, Dropped DEF Close
  <2>4. /\ \A p \in Owners : job'[p] = IF p = r THEN NoJob ELSE job[p]
        /\ cmd' = [cmd EXCEPT ![r] = told]
    BY <2>1, CloseTyped DEF CmdPCs
  <2>5. \A p \in Owners : p # r => mem'[p] = mem[p]
    BY <2>1 DEF Close, TypeOK
  <2>6. Unlinked(r) => told # "linked"
    <3>1. job[r].pc = "linked" => job[r].req = r
      BY DEF OneApplies
    <3>. QED
      BY <2>1, <3>1 DEF Unlinked
  <2>7. ASSUME NEW q \in Requests, Unlinked(q) PROVE Unlinked(q)'
    <3>1. \A p \in Owners : ~(job'[p].pc = "linked" /\ job'[p].req = q)
      BY <2>4, <2>7 DEF Unlinked, NoJob
    <3>2. cmd'[q] = IF q = r THEN told ELSE cmd[q]
      BY <2>4 DEF TypeOK
    <3>3. cmd'[q] # "new" /\ cmd'[q] # "linked"
      BY <2>1, <2>6, <2>7, <3>2 DEF Unlinked, Submitted, Linked
    <3>. QED
      BY <2>2, <2>7, <3>1, <3>3 DEF Unlinked, Submitted, Linked
  <2>8. Keeps
    BY <2>7 DEF Keeps
  <2>. QED
    BY <1>0, <2>2, <2>3, <2>4, <2>5, <2>8, Ordinary DEF NoJob
<1>4. CASE \/ Start \/ Pending \/ Route \/ Leave \/ StopKill \/ CloseWindow
           \/ (\E t \in Threads : Take(t)) \/ UNCHANGED vars
  <2>1. UNCHANGED <<disk, mem, open, receipts, cmd, job, agent>>
    BY <1>4 DEF Start, Pending, Route, Leave, StopKill, CloseWindow, Take, vars
  <2>2. hand'.pc = "opened" => hand' = hand
    BY <1>4 DEF Start, Pending, Route, Leave, StopKill, CloseWindow, Take, vars, NoHand, TypeOK, Hand
  <2>3. Keeps
    BY <2>1 DEF Keeps, Unlinked, Submitted, Linked
  <2>. QED
    BY <1>0, <2>1, <2>2, <2>3, SameStores, Ordinary
<1>5. CASE Open
  <2>1. Derives
    BY <1>5, ReadAgain DEF Open
  <2>2. UNCHANGED <<receipts, cmd, job, agent, hand>>
    BY <1>5 DEF Open
  <2>3. Keeps
    BY <2>2 DEF Keeps, Unlinked, Submitted, Linked
  <2>4. job[Daemon].pc = "idle"
    BY <1>5 DEF Open, Up, ClaimIsHeld
  <2>5. \A p \in Owners : p # Daemon => mem'[p] = mem[p]
    BY <1>5 DEF Open, ReadState, TypeOK
  <2>. QED
    BY <1>0, <2>1, <2>2, <2>3, <2>4, <2>5, Ordinary
<1>6. CASE Crash
  <2>1. Derives
    BY <1>6, Dropped DEF Crash
  <2>2. \A p \in Owners : /\ job'[p] = IF p = Daemon THEN NoJob ELSE job[p]
                          /\ p # Daemon => mem'[p] = mem[p]
    BY <1>6 DEF Crash, TypeOK
  <2>3. UNCHANGED <<receipts, cmd, agent>> /\ hand'.pc = "idle"
    BY <1>6 DEF Crash, NoHand
  <2>4. Keeps
    BY <2>2, <2>3 DEF Keeps, Unlinked, Submitted, Linked, NoJob
  <2>. QED
    BY <1>0, <2>1, <2>2, <2>3, <2>4, Ordinary DEF NoJob
<1>7. CASE Drain
  <2>1. UNCHANGED <<disk, mem, open, receipts, cmd, agent, hand>>
    BY <1>7 DEF Drain
  <2>2. job'[Daemon].pc = "find" /\ \A p \in Owners : p # Daemon => job'[p] = job[p]
    BY <1>7 DEF Drain, TypeOK, NoJob
  <2>3. Keeps
    BY <2>1, <2>2 DEF Keeps, Unlinked, Submitted, Linked
  <2>. QED
    BY <1>0, <2>1, <2>2, <2>3, SameStores, Ordinary
<1>8. CASE WriteReceipt
  <2>. DEFINE r == job[Daemon].req
  <2>1. UNCHANGED <<disk, mem, open, cmd, agent, hand>> /\ job[Daemon].pc \in {"linked", "rejected"}
    BY <1>8 DEF WriteReceipt
  <2>2. \A p \in Owners : job'[p] = IF p = Daemon THEN NoJob ELSE job[p]
    BY <1>8 DEF WriteReceipt, TypeOK
  <2>3. /\ r \in Requests /\ \A q \in Requests : q # r => receipts'[q] = receipts[q]
        /\ receipts'[r] \in {receipts[r], job[Daemon].pc}
    BY <1>8 DEF WriteReceipt, TypeOK, Job, OneApplies
  <2>4. Unlinked(r) => receipts'[r] # "linked"
    BY <2>1, <2>3 DEF Unlinked, Linked
  <2>5. Keeps
    BY <2>1, <2>2, <2>3, <2>4 DEF Keeps, Unlinked, Submitted, Linked, NoJob
  <2>. QED
    BY <1>0, <2>1, <2>2, <2>5, SameStores, Ordinary DEF NoJob
<1>9. ASSUME NEW r \in Requests, SweepLink(r) PROVE LinkInv'
  <2>1. UNCHANGED <<disk, mem, open, cmd, job, agent, hand>>
    BY <1>9 DEF SweepLink
  <2>2. \A q \in Requests : receipts'[q] \in {receipts[q], None}
    BY <1>9 DEF SweepLink, TypeOK
  <2>3. None # "linked"
    BY LinksAssumption DEF LinksAssumption
  <2>4. Keeps
    BY <2>1, <2>2, <2>3 DEF Keeps, Unlinked, Submitted, Linked
  <2>. QED
    BY <1>0, <2>1, <2>4, SameStores, Ordinary
<1>10. ASSUME NEW o \in Owners, Find(o) \/ LookForHolder(o) \/ Refuse(o) PROVE LinkInv'
  <2>1. PICK pc \in JobPCs \ {"release", "linked"} : Goto(o, pc)
    BY <1>10 DEF Find, LookForHolder, Refuse, JobPCs
  <2>2. UNCHANGED <<disk, mem, open, receipts, cmd, agent, hand>>
    BY <1>10 DEF Find, LookForHolder, Refuse
  <2>3. job'[o].pc = pc /\ \A p \in Owners : p # o => job'[p] = job[p]
    BY <2>1, GotoTyped DEF TypeOK
  <2>4. Keeps
    BY <2>2, <2>3 DEF Keeps, Unlinked, Submitted, Linked
  <2>. QED
    BY <1>0, <2>2, <2>3, <2>4, SameStores, Ordinary
<1>11. ASSUME NEW o \in Owners, ApplyFails(o) \/ ReleaseUnknown(o) \/ SaveFails(o)
       PROVE  LinkInv'
  <2>1. Abandon(o) /\ UNCHANGED <<disk, receipts, agent, hand>>
    BY <1>11 DEF ApplyFails, ReleaseUnknown, SaveFails
  <2>. QED
    BY <1>0, <2>1, ApplyGivenUp
<1>12. ASSUME NEW o \in Owners, Release(o) PROVE LinkInv'
  <2>1. PICK t \in job[o].todo : /\ Update(o, t, Released)
                                 /\ job' = [job EXCEPT ![o].todo = @ \ {t}]
    BY <1>12 DEF Release
  <2>2. /\ t \in Threads /\ job[o].pc = "release" /\ o \in open
        /\ UNCHANGED <<receipts, cmd, hand, agent>>
    BY <1>12, <2>1 DEF Release, TypeOK, Job, ClaimIsHeld
  <2>3. mem' = [mem EXCEPT ![o][t] = Released] /\ disk' = mem'[o] /\ open' = open
    BY <2>1 DEF Update, Save
  <2>4. Released \in Thread /\ Released.win = None
    BY RecordsTyped DEF Released
  <2>5. Derives
    BY <2>2, <2>3, <2>4, GivenUp
  <2>6. /\ job'[o].pc = "release" /\ job'[o].req = job[o].req /\ job'[o].todo = job[o].todo \ {t}
        /\ \A p \in Owners : p # o => job'[p] = job[p]
    BY <2>1, <2>2 DEF TypeOK, Job
  <2>7. \A p \in Owners, u \in Threads :
           mem'[p][u] = IF p = o /\ u = t THEN Released ELSE mem[p][u]
    BY <2>2, <2>3, <2>4, SetTyped DEF TypeOK
  <2>8. WindowOf[ReqOf(o)] # None
    BY <2>2, AppliedIsUnlinked
  <2>9. Keeps
    BY <2>2, <2>6 DEF Keeps, Unlinked, Submitted, Linked
  <2>. QED
    BY <1>0, <2>2, <2>4, <2>5, <2>6, <2>7, <2>8, <2>9, Ordinary
<1>13. CASE RouteGone
  <2>1. CASE mem[Daemon][hand.thread].known
    <3>1. /\ Update(Daemon, hand.thread, Released) /\ Daemon \in open /\ hand.thread \in Threads
          /\ hand' = [hand EXCEPT !.pc = "new", !.win = None]
          /\ UNCHANGED <<receipts, cmd, job, agent>>
      BY <1>13, <2>1 DEF RouteGone, ClaimIsHeld, HandIsSound
    <3>2. hand'.pc = "new"
      BY <3>1 DEF TypeOK, Hand
    <3>. QED
      BY <1>0, <3>1, <3>2, RecordsTyped, RecordGivenUp DEF Update, Save, Released
  <2>2. CASE ~mem[Daemon][hand.thread].known
    <3>1. UNCHANGED <<disk, mem, open, receipts, cmd, job, agent>> /\ hand'.pc = "idle"
      BY <1>13, <2>2 DEF RouteGone, NoHand
    <3>2. Keeps
      BY <3>1 DEF Keeps, Unlinked, Submitted, Linked
    <3>. QED
      BY <1>0, <3>1, <3>2, SameStores, Ordinary
  <2>. QED
    BY <2>1, <2>2
<1>14. CASE StopSet
  <2>1. /\ Put(Daemon, hand.thread, Released) /\ Daemon \in open /\ hand.thread \in Threads
        /\ UNCHANGED <<receipts, cmd, job, agent>> /\ hand'.pc = "idle"
    BY <1>14 DEF StopSet, ClaimIsHeld, HandIsSound, NoHand
  <2>. QED
    BY <1>0, <2>1, RecordsTyped, RecordGivenUp DEF Put, Save, Released
<1>15. ASSUME NEW t \in Threads, SweepThread(t) PROVE LinkInv'
  <2>1. /\ mem' = [mem EXCEPT ![Daemon][t] = Unknown] /\ disk' = mem'[Daemon]
        /\ Daemon \in open /\ UNCHANGED <<open, receipts, cmd, job, agent, hand>>
    BY <1>15 DEF SweepThread, Save, Up
  <2>. QED
    BY <1>0, <2>1, RecordsTyped, RecordGivenUp DEF Unknown
<1>16. CASE OpenWindow
  <2>1. PICK w \in NewWindows \ live :
            /\ agent[w] = 0 /\ agent' = [agent EXCEPT ![w] = ids + 1]
            /\ hand' = [hand EXCEPT !.pc = "opened", !.win = w]
    BY <1>16 DEF OpenWindow
  <2>2. UNCHANGED <<disk, mem, open, receipts, cmd, job>>
    BY <1>16 DEF OpenWindow
\* A window that was not opened yet is in no record.
  <2>4. \A S \in Stores, t \in Threads : S[t].win # w
    BY <2>1 DEF LinkInv, LaunchedOnce
  <2>5. Stores' = Stores
    BY <2>2 DEF Stores
  <2>6. LaunchedOnce'
    <3>1. \A S \in Stores', t \in Threads : S[t].win \in NewWindows => agent'[S[t].win] # 0
      BY <2>1, <2>4, <2>5 DEF LinkInv, LaunchedOnce, TypeOK, Windows
    <3>2. hand'.win = w
      BY <2>1 DEF TypeOK, Hand
    <3>. QED
      BY <2>4, <2>5, <3>1, <3>2 DEF LaunchedOnce
  <2>7. Keeps
    BY <2>2 DEF Keeps, Unlinked, Submitted, Linked
  <2>8. SharedIsExplained'
    BY <2>2, <2>7, SameStores, StillExplained DEF LinkInv
  <2>9. ReleasesAll' /\ OneSession'
    BY <2>2, <2>5 DEF LinkInv, ReleasesAll, OneSession, ReqOf
  <2>. QED
    BY <1>0, <2>6, <2>8, <2>9 DEF LinkInv
<1>17. CASE LaunchSet
  <2>. DEFINE t == hand.thread
              w == hand.win
              rec == Held(w, agent[w])
  <2>1. /\ hand.pc = "opened" /\ Put(Daemon, t, rec) /\ Daemon \in open /\ t \in Threads
        /\ w \in NewWindows /\ agent[w] # 0
        /\ UNCHANGED <<receipts, cmd, job, agent>> /\ hand'.pc = "idle"
    BY <1>17 DEF LaunchSet, ClaimIsHeld, HandIsSound, NoHand
  <2>2. rec \in Thread /\ rec.win = w /\ rec.sess = agent[w]
    <3>1. agent[w] \in Nat \ {0}
      BY <2>1 DEF TypeOK, Windows
    <3>. QED
      BY <2>1, <3>1, RecordsTyped DEF Held, Windows
  <2>3. mem' = [mem EXCEPT ![Daemon][t] = rec] /\ disk' \in {disk, mem'[Daemon]} /\ open' = open
    BY <2>1 DEF Put, Save
  <2>4. \A p \in Owners, u \in Threads :
           mem'[p][u] = IF p = Daemon /\ u = t THEN rec ELSE mem[p][u]
    BY <2>1, <2>2, <2>3, SetTyped DEF TypeOK
\* Every store is one there was, but for this record in the daemon's.
  <2>5. \A S \in Stores' : S \in Stores \/ S = mem'[Daemon]
    <3>1. \A p \in open : p # Daemon => mem'[p] = mem[p]
      BY <2>3 DEF TypeOK
    <3>. QED
      BY <2>3, <3>1 DEF Stores
  <2>6. \A S \in Stores, u \in Threads : S[u].win # w
    BY <2>1 DEF LinkInv, LaunchedOnce
  <2>7. mem[Daemon] \in Stores
    BY <2>1 DEF Stores
  <2>8. \A S \in Stores' : \E R \in Stores : \A u \in Threads :
           S[u] = R[u] \/ (u = t /\ S[u] = rec)
    <3>1. \A u \in Threads : mem'[Daemon][u] = mem[Daemon][u] \/ (u = t /\ mem'[Daemon][u] = rec)
      BY <2>4
    <3>2. \A R \in Stores, u \in Threads : R[u] = R[u]
      OBVIOUS
    <3>3. ASSUME NEW S \in Stores'
          PROVE  \E R \in Stores : \A u \in Threads : S[u] = R[u] \/ (u = t /\ S[u] = rec)
      <4>1. CASE S \in Stores
        BY <4>1
      <4>2. CASE S = mem'[Daemon]
        BY <2>7, <3>1, <4>2
      <4>. QED
        BY <2>5, <4>1, <4>2
    <3>. QED
      BY <3>3
  <2>9. Keeps
    BY <2>1 DEF Keeps, Unlinked, Submitted, Linked
  <2>10. SharedIsExplained'
    BY <2>2, <2>6, <2>8, <2>9 DEF LinkInv, SharedIsExplained, Keeps
  <2>11. OneSession'
    BY <2>2, <2>6, <2>8 DEF LinkInv, OneSession
  <2>12. LaunchedOnce'
    BY <2>1, <2>2, <2>6, <2>8 DEF LinkInv, LaunchedOnce
  <2>13. ReleasesAll'
    <3>1. \A o \in Owners : job[o].pc = "release" => WindowOf[ReqOf(o)] # w
      BY <2>1, AppliedIsUnlinked DEF LinksAfterLaunch, Unlinked
    <3>. QED
      BY <2>1, <2>2, <2>4, <3>1 DEF LinkInv, ReleasesAll, ReqOf
  <2>. QED
    BY <1>0, <2>10, <2>11, <2>12, <2>13 DEF LinkInv
<1>18. ASSUME NEW o \in Owners, Bind(o) PROVE LinkInv'
  BY <1>0, <1>18, BindLinks
<1>19. ASSUME NEW o \in Owners, SaveLink(o) PROVE LinkInv'
  BY <1>0, <1>19, SaveLinks
<1>. QED
  BY <1>1, <1>2, <1>3, <1>4, <1>5, <1>6, <1>7, <1>8, <1>9, <1>10, <1>11, <1>12, <1>13,
     <1>14, <1>15, <1>16, <1>17, <1>18, <1>19
     DEF Next, CommandStep, DaemonStep, HandlerStep, ApplyStep

-----------------------------------------------------------------------------
(* Theorems *)

LEMMA Invariant == Spec => []IInv
<1>1. Init => IInv
  BY TypeInit, ClaimInit, OneInit DEF IInv
<1>2. IInv /\ [Next]_vars => IInv'
  BY TypeStep, ClaimStep, OneStep DEF IInv
<1>. QED
  BY <1>1, <1>2, PTL DEF Spec

\* Every variable keeps its type.
THEOREM TypeCorrect == Spec => []TypeOK
<1>1. IInv => TypeOK
  BY DEF IInv
<1>. QED
  BY <1>1, Invariant, PTL

\* No process has a store open that another has written under: the claim on the state file
\* (internal/state/claim.go) is held from before the file is read until after the last save.
THEOREM StoresStayCurrent == Spec => []StoresAreCurrent
<1>1. IInv => StoresAreCurrent
  BY DEF IInv
<1>. QED
  BY <1>1, Invariant, PTL

\* The daemon binds no window for a request that has its receipt, whatever was swept or crashed
\* between the look at the directory and the answer.
THEOREM AppliedOnceAnswered == Spec => AppliedUntilAnswered
<1>. DEFINE Asked == (job[Daemon].pc = "bind" /\ job'[Daemon].pc = "release")
                        => receipts[ReqOf(Daemon)] = None
<1>1. IInv => Asked
  <2>. SUFFICES ASSUME IInv, job[Daemon].pc = "bind" PROVE receipts[ReqOf(Daemon)] = None
    OBVIOUS
  <2>1. job[Daemon].req \in Requests
    BY Kinds DEF IInv, TypeOK, Job, OneApplies
  <2>. QED
    BY <2>1 DEF IInv, OneApplies, ReqOf
<1>2. IInv /\ [Next]_vars => [Asked]_vars
  BY <1>1
<1>. QED
  BY <1>2, Invariant, PTL DEF Spec, AppliedUntilAnswered

LEMMA LinkInvariant == Spec /\ []LinksAfterLaunch => [](IInv /\ LinkInv)
<1>1. Init => IInv /\ LinkInv
  BY TypeInit, ClaimInit, OneInit, LinkInit DEF IInv
<1>2. (IInv /\ LinkInv) /\ LinksAfterLaunch /\ [Next]_vars => (IInv /\ LinkInv)'
  BY TypeStep, ClaimStep, OneStep, LinkStep DEF IInv
<1>. QED
  BY <1>1, <1>2, PTL DEF Spec

\* Two threads name one live window only while a link of that window is under way or has
\* failed half way, for every set of links that are run after the launch of
\* their window is recorded.
THEOREM OneThread == Spec /\ []LinksAfterLaunch => []OneThreadPerWindow
<1>1. IInv /\ LinkInv => OneThreadPerWindow
  <2>1. None \notin live \/ ~TypeOK
    BY Kinds DEF TypeOK
  <2>. QED
    BY <2>1 DEF IInv, LinkInv, SharedIsExplained, OneThreadPerWindow, Unlinked
<1>. QED
  BY <1>1, LinkInvariant, PTL

\* Threads that name one window name one session, in the file and in every open store.
THEOREM SessionFollows == Spec /\ []LinksAfterLaunch => []SessionFollowsWindow
<1>1. IInv /\ LinkInv => SessionFollowsWindow
  BY DEF LinkInv, OneSession, SessionFollowsWindow
<1>. QED
  BY <1>1, LinkInvariant, PTL
=============================================================================
