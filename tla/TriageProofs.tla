--------------------------- MODULE TriageProofs ---------------------------
(***************************************************************************)
(* Theorems about Triage: its types, the limit of triages in a span, the   *)
(* cooldown of a thread, and that the daemon goes by what the agent said.  *)
(*                                                                         *)
(* The limit and the cooldown are checked by one step and recorded by a    *)
(* later one. They hold as long as nobody comes between the two: then one  *)
(* message at a time is between them (OneBetween), and one of a thread is  *)
(* with its triage (OneOfAThread), so that no other adds to what it found. *)
(***************************************************************************)
EXTENDS Triage, FiniteSetTheorems, TLAPS

-----------------------------------------------------------------------------
(* Lists of times *)

\* What counts of a list of times is finite, and its count a number.
LEMMA CountIsNat ==
    ASSUME NEW times \in Seq(Nat), NEW now \in Nat
    PROVE  IsFiniteSet(Recent(times, now)) /\ Count(times, now) \in Nat
  <1>1. IsFiniteSet(1..Len(times))
    BY FS_Interval
  <1>2. Recent(times, now) \subseteq 1..Len(times)
    BY DEF Recent
  <1>3. IsFiniteSet(Recent(times, now))
    BY <1>1, <1>2, FS_Subset
  <1>4. QED
    BY <1>3, FS_CardinalityType DEF Count

\* Nothing was recorded yet.
LEMMA EmptyCountsNothing ==
    ASSUME NEW now \in Nat
    PROVE  Count(<<>>, now) = 0
  <1>1. Recent(<<>>, now) = {}
    BY DEF Recent
  <1>2. QED
    BY <1>1, FS_EmptySet DEF Count

\* RecordTriage and RecordSilent add one at most to what counts.
LEMMA AddCountsOne ==
    ASSUME NEW times \in Seq(Nat), ticks \in Nat, TriageAssumption
    PROVE  Add(times) \in Seq(Nat) /\ Count(Add(times), ticks) <= Count(times, ticks) + 1
  <1>1. Add(times) \in Seq(Nat)
    BY DEF Add
  <1>2. Recent(Add(times), ticks) = Recent(times, ticks) \cup {Len(times) + 1}
    BY DEF Recent, Add, TriageAssumption
  <1>3. IsFiniteSet(Recent(times, ticks)) /\ Count(times, ticks) \in Nat
    BY CountIsNat
  <1>4. Len(times) + 1 \notin Recent(times, ticks)
    BY DEF Recent
  <1>5. Cardinality(Recent(Add(times), ticks)) = Cardinality(Recent(times, ticks)) + 1
    BY <1>2, <1>3, <1>4, FS_AddElement
  <1>6. QED
    BY <1>1, <1>3, <1>5 DEF Count

\* As time passes, less counts.
LEMMA TimeCountsNone ==
    ASSUME NEW times \in Seq(Nat), NEW now \in Nat, TriageAssumption
    PROVE  Count(times, now + 1) <= Count(times, now)
  <1>1. IsFiniteSet(Recent(times, now))
    BY CountIsNat
  <1>2. Recent(times, now + 1) \subseteq Recent(times, now)
    BY DEF Recent, TriageAssumption
  <1>3. QED
    BY <1>1, <1>2, FS_Subset DEF Count

-----------------------------------------------------------------------------
(* Types *)

\* The worker's message stays one it is at: a message is handed over or settled
\* as the worker leaves it.
LEMMA StepKeepsTypes ==
    ASSUME TypeOK, NEW m \in Messages, NEW to \in PCs, Step(m, to),
           pc[m] \in {"gate", "open", "record", "mark"} =>
               to \in Ended \cup {"deferred", "await", "gate", "open", "record", "mark"}
    PROVE  /\ pc' \in [Messages -> PCs] /\ worker' \in Messages \cup {None}
           /\ worker' # None => pc'[worker'] \in {"gate", "open", "record", "mark"}
  <1>1. pc' \in [Messages -> PCs] /\ worker' \in Messages \cup {None}
    BY DEF TypeOK, Step
  <1>2. ASSUME worker' # None
        PROVE  pc'[worker'] \in {"gate", "open", "record", "mark"}
    <2>1. worker' = worker /\ worker \in Messages
             /\ pc[worker] \in {"gate", "open", "record", "mark"}
      BY <1>2 DEF TypeOK, Step
    <2>2. CASE worker = m
      <3>1. to \notin Ended \cup {"deferred", "await"}
        BY <1>2, <2>2 DEF Step
      <3>2. pc'[m] = to
        BY DEF TypeOK, Step
      <3>3. QED
        BY <2>1, <2>2, <3>1, <3>2
    <2>3. CASE worker # m
      BY <2>1, <2>3 DEF TypeOK, Step
    <2>4. QED
      BY <2>2, <2>3
  <1>3. QED
    BY <1>1, <1>2

LEMMA TypesStart == ASSUME TriageAssumption, Init PROVE TypeOK
  <1>1. <<>> \in Seq(Nat)
    OBVIOUS
  <1>2. /\ pc \in [Messages -> PCs] /\ silent \in [Roots -> Seq(Nat)]
        /\ said \in [Messages -> SUBSET {"yes", "no"}]
    BY <1>1 DEF Init, PCs
  <1>3. QED
    BY <1>1, <1>2 DEF Init, TypeOK

LEMMA TypesAreKept ==
    ASSUME TriageAssumption, TypeOK, [Next]_vars
    PROVE  TypeOK'
  <1> USE DEF PCs, Ended, memory, world
  <1>1. CASE Tick
    BY <1>1 DEF Tick, TypeOK
  <1>2. ASSUME NEW m \in Messages, Handle(m)
        PROVE  TypeOK'
    <2>1. CASE Take(m)
      BY <2>1 DEF Take, TypeOK
    <2>2. CASE Resume(m)
      <3>1. Step(m, "gate")
        BY <2>2 DEF Resume
      <3>2. /\ pc' \in [Messages -> PCs] /\ worker' \in Messages \cup {None}
            /\ worker' # None => pc'[worker'] \in {"gate", "open", "record", "mark"}
        BY <2>2, <3>1, StepKeepsTypes DEF Resume
      <3>3. QED
        BY <2>2, <3>2 DEF Resume, TypeOK
    <2>3. CASE Defer(m)
      <3>1. Step(m, "deferred")
        BY <2>3 DEF Defer
      <3>2. /\ pc' \in [Messages -> PCs] /\ worker' \in Messages \cup {None}
            /\ worker' # None => pc'[worker'] \in {"gate", "open", "record", "mark"}
        BY <2>3, <3>1, StepKeepsTypes DEF Defer
      <3>3. QED
        BY <2>3, <3>2 DEF Defer, TypeOK
    <2>4. CASE Pass(m)
      <3>1. Step(m, "open")
        BY <2>4 DEF Pass
      <3>2. /\ pc' \in [Messages -> PCs] /\ worker' \in Messages \cup {None}
            /\ worker' # None => pc'[worker'] \in {"gate", "open", "record", "mark"}
        BY <2>4, <3>1, StepKeepsTypes DEF Pass
      <3>3. QED
        BY <2>4, <3>2 DEF Pass, TypeOK
    <2>5. CASE Skip(m)
      <3>1. Step(m, IF CooledDown(m) THEN "skipped" ELSE "dropped")
        BY <2>5 DEF Skip
      <3>2. /\ pc' \in [Messages -> PCs] /\ worker' \in Messages \cup {None}
            /\ worker' # None => pc'[worker'] \in {"gate", "open", "record", "mark"}
        BY <2>5, <3>1, StepKeepsTypes DEF Skip
      <3>3. QED
        BY <2>5, <3>2 DEF Skip, TypeOK
    <2>6. CASE OpenWindow(m)
      <3>1. Step(m, "record")
        BY <2>6 DEF OpenWindow
      <3>2. /\ pc' \in [Messages -> PCs] /\ worker' \in Messages \cup {None}
            /\ worker' # None => pc'[worker'] \in {"gate", "open", "record", "mark"}
        BY <2>6, <3>1, StepKeepsTypes DEF OpenWindow
      <3>3. QED
        BY <2>6, <3>2 DEF OpenWindow, TypeOK
    <2>7. CASE OpenFails(m)
      <3>1. Step(m, "gate")
        BY <2>7 DEF OpenFails
      <3>2. /\ pc' \in [Messages -> PCs] /\ worker' \in Messages \cup {None}
            /\ worker' # None => pc'[worker'] \in {"gate", "open", "record", "mark"}
        BY <2>7, <3>1, StepKeepsTypes DEF OpenFails
      <3>3. QED
        BY <2>7, <3>2 DEF OpenFails, TypeOK, Fault
    <2>8. CASE Record(m)
      <3>1. Step(m, "mark") \/ Step(m, "gate")
        BY <2>8 DEF Record
      <3>2. /\ pc' \in [Messages -> PCs] /\ worker' \in Messages \cup {None}
            /\ worker' # None => pc'[worker'] \in {"gate", "open", "record", "mark"}
        BY <2>8, <3>1, StepKeepsTypes DEF Record
      <3>3. triages' \in Seq(Nat)
        BY <2>8, AddCountsOne DEF Record, TypeOK
      <3>4. QED
        BY <2>8, <3>2, <3>3 DEF Record, TypeOK, Fault
    <2>9. CASE Mark(m)
      <3>1. Step(m, "await")
        BY <2>9 DEF Mark
      <3>2. /\ pc' \in [Messages -> PCs] /\ worker' \in Messages \cup {None}
            /\ worker' # None => pc'[worker'] \in {"gate", "open", "record", "mark"}
        BY <2>9, <3>1, StepKeepsTypes DEF Mark
      <3>3. QED
        BY <2>9, <3>2 DEF Mark, TypeOK
    <2>10. CASE ReadVerdict(m)
      <3>1. Step(m, "decide")
        BY <2>10 DEF ReadVerdict
      <3>2. /\ pc' \in [Messages -> PCs] /\ worker' \in Messages \cup {None}
            /\ worker' # None => pc'[worker'] \in {"gate", "open", "record", "mark"}
        BY <2>10, <3>1, StepKeepsTypes DEF ReadVerdict
      <3>3. QED
        BY <2>10, <3>2 DEF ReadVerdict, TypeOK, Took
    <2>11. CASE WaitFails(m)
      <3>1. Step(m, "pane")
        BY <2>11 DEF WaitFails
      <3>2. /\ pc' \in [Messages -> PCs] /\ worker' \in Messages \cup {None}
            /\ worker' # None => pc'[worker'] \in {"gate", "open", "record", "mark"}
        BY <2>11, <3>1, StepKeepsTypes DEF WaitFails
      <3>3. QED
        BY <2>11, <3>2 DEF WaitFails, TypeOK, Fault
    <2>12. CASE SeeDead(m)
      <3>1. Step(m, "decide") \/ Step(m, "pane")
        BY <2>12 DEF SeeDead
      <3>2. /\ pc' \in [Messages -> PCs] /\ worker' \in Messages \cup {None}
            /\ worker' # None => pc'[worker'] \in {"gate", "open", "record", "mark"}
        BY <2>12, <3>1, StepKeepsTypes DEF SeeDead
      <3>3. QED
        BY <2>12, <3>2 DEF SeeDead, TypeOK, Took
    <2>13. CASE FromPane(m)
      <3>1. Step(m, "decide")
        BY <2>13 DEF FromPane
      <3>2. /\ pc' \in [Messages -> PCs] /\ worker' \in Messages \cup {None}
            /\ worker' # None => pc'[worker'] \in {"gate", "open", "record", "mark"}
        BY <2>13, <3>1, StepKeepsTypes DEF FromPane
      <3>3. QED
        BY <2>13, <3>2 DEF FromPane, TypeOK
    <2>14. CASE PaneFails(m)
      <3>1. Step(m, "decide")
        BY <2>14 DEF PaneFails
      <3>2. /\ pc' \in [Messages -> PCs] /\ worker' \in Messages \cup {None}
            /\ worker' # None => pc'[worker'] \in {"gate", "open", "record", "mark"}
        BY <2>14, <3>1, StepKeepsTypes DEF PaneFails
      <3>3. QED
        BY <2>14, <3>2 DEF PaneFails, TypeOK, Fault
    <2>15. CASE Decide(m)
      <3>1. Step(m, "dropped") \/ Step(m, "escalated") \/ Step(m, "silent")
        BY <2>15 DEF Decide
      <3>2. /\ pc' \in [Messages -> PCs] /\ worker' \in Messages \cup {None}
            /\ worker' # None => pc'[worker'] \in {"gate", "open", "record", "mark"}
        BY <2>15, <3>1, StepKeepsTypes DEF Decide
      <3>3. RootOf[m] \in Roots /\ silent[RootOf[m]] \in Seq(Nat) /\ ticks \in Nat
        BY DEF TypeOK, TriageAssumption
      <3>4. RootOf[m] \in Roots /\ <<>> \in Seq(Nat) /\ Add(silent[RootOf[m]]) \in Seq(Nat)
        BY <3>3, AddCountsOne
      <3>5. \/ UNCHANGED silent
            \/ silent' = [silent EXCEPT ![RootOf[m]] = <<>>]
            \/ silent' = [silent EXCEPT ![RootOf[m]] = Add(@)]
        BY <2>15 DEF Decide
      <3>6. silent' \in [Roots -> Seq(Nat)]
        BY <3>4, <3>5 DEF TypeOK
      <3>7. window' \in [Messages -> {"none", "live", "dead", "killed"}] /\ faults' \in Nat
        <4>1. Kill(m)
          BY <2>15 DEF Decide
        <4>2. \/ window' = window \/ window' = [window EXCEPT ![m] = "killed"]
          BY <4>1 DEF Kill
        <4>3. faults' = faults \/ faults' = faults + 1
          BY <4>1 DEF Kill, Fault
        <4>4. faults \in Nat /\ window \in [Messages -> {"none", "live", "dead", "killed"}]
          BY DEF TypeOK
        <4>5. QED
          BY <4>2, <4>3, <4>4
      <3>8. /\ inflight' \subseteq Roots /\ verdict' \in [Messages -> {"none", "yes", "no"}]
            /\ pane' \in [Messages -> {"none", "yes", "no"}]
            /\ said' \in [Messages -> SUBSET {"yes", "no"}]
            /\ UNCHANGED <<triages, raced, file, ticks>>
        BY <2>15 DEF Decide, TypeOK
      <3>9. QED
        BY <3>2, <3>6, <3>7, <3>8 DEF TypeOK
    <2>16. QED
      BY <1>2, <2>1, <2>2, <2>3, <2>4, <2>5, <2>6, <2>7, <2>8,
         <2>9, <2>10, <2>11, <2>12, <2>13, <2>14, <2>15 DEF Handle
  <1>3. ASSUME NEW m \in Messages, AgentStep(m)
        PROVE  TypeOK'
    <2>1. CASE WriteBegins(m)
      BY <2>1 DEF WriteBegins, Agent, TypeOK
    <2>2. CASE WriteEnds(m)
      BY <2>2 DEF WriteEnds, Agent, TypeOK
    <2>3. CASE PrintVerdict(m)
      BY <2>3 DEF PrintVerdict, Agent, TypeOK
    <2>4. CASE Die(m)
      BY <2>4 DEF Die, Agent, TypeOK
    <2>5. QED
      BY <1>3, <2>1, <2>2, <2>3, <2>4 DEF AgentStep
  <1>4. CASE UNCHANGED vars
    BY <1>4 DEF vars, TypeOK
  <1>5. QED
    BY <1>1, <1>2, <1>3, <1>4 DEF Next

-----------------------------------------------------------------------------
(* What the agent said *)

LEMMA AnswersStart == Init => AnswersAreTheAgents
  BY DEF Init, AnswersAreTheAgents, Waiting, Ended

\* One message's step leaves the answers of the others alone.
LEMMA OnlyMine ==
    ASSUME TypeOK, AnswersAreTheAgents, NEW m \in Messages,
           \A k \in Messages \ {m} :
               /\ pc'[k] = pc[k] /\ file'[k] = file[k] /\ pane'[k] = pane[k]
               /\ verdict'[k] = verdict[k] /\ said'[k] = said[k],
           pc'[m] \notin Waiting \cup Ended =>
              file'[m] = "none" /\ pane'[m] = "none" /\ verdict'[m] = "none" /\ said'[m] = {},
           pc'[m] \in Waiting =>
              /\ {file'[m], pane'[m], verdict'[m]} \ {"none", "part"} \subseteq said'[m]
              /\ verdict'[m] # "none" => pc'[m] = "decide"
    PROVE  AnswersAreTheAgents'
  BY DEF AnswersAreTheAgents

LEMMA AnswersAreKept ==
    ASSUME TriageAssumption, TypeOK, AnswersAreTheAgents, [Next]_vars
    PROVE  AnswersAreTheAgents'
  <1> USE DEF memory, world
  <1>1. CASE Tick
    BY <1>1 DEF Tick, AnswersAreTheAgents
  <1>2. ASSUME NEW m \in Messages, Handle(m)
        PROVE  AnswersAreTheAgents'
    <2>1. CASE Take(m)
      BY <2>1, OnlyMine DEF Take, Step, AnswersAreTheAgents, TypeOK, Waiting, Ended
    <2>2. CASE Resume(m)
      BY <2>2, OnlyMine DEF Resume, Step, AnswersAreTheAgents, TypeOK, Waiting, Ended
    <2>3. CASE Defer(m)
      BY <2>3, OnlyMine DEF Defer, Step, AnswersAreTheAgents, TypeOK, Waiting, Ended
    <2>4. CASE Pass(m)
      BY <2>4, OnlyMine DEF Pass, Step, AnswersAreTheAgents, TypeOK, Waiting, Ended
    <2>5. CASE Skip(m)
      BY <2>5, OnlyMine DEF Skip, Step, AnswersAreTheAgents, TypeOK, Waiting, Ended
    <2>6. CASE OpenWindow(m)
      BY <2>6, OnlyMine DEF OpenWindow, Step, AnswersAreTheAgents, TypeOK, Waiting, Ended
    <2>7. CASE OpenFails(m)
      BY <2>7, OnlyMine DEF OpenFails, Step, AnswersAreTheAgents, TypeOK, Waiting, Ended
    <2>8. CASE Record(m)
      <3>1. pc[m] = "record" /\ UNCHANGED <<file, pane, said, verdict>>
        BY <2>8 DEF Record
      <3>2. pc' = [pc EXCEPT ![m] = "mark"] \/ pc' = [pc EXCEPT ![m] = "gate"]
        BY <2>8 DEF Record, Step
      <3>3. pc'[m] \notin Waiting \cup Ended /\ \A k \in Messages \ {m} : pc'[k] = pc[k]
        BY <3>2 DEF TypeOK, Waiting, Ended
      <3>4. file[m] = "none" /\ pane[m] = "none" /\ verdict[m] = "none" /\ said[m] = {}
        BY <3>1 DEF AnswersAreTheAgents, Waiting, Ended
      <3>5. QED
        BY <3>1, <3>3, <3>4, OnlyMine
    <2>9. CASE Mark(m)
      BY <2>9, OnlyMine DEF Mark, Step, AnswersAreTheAgents, TypeOK, Waiting, Ended
    <2>10. CASE ReadVerdict(m)
      BY <2>10, OnlyMine DEF ReadVerdict, Took, Step, AnswersAreTheAgents, TypeOK, Waiting, Ended
    <2>11. CASE WaitFails(m)
      BY <2>11, OnlyMine DEF WaitFails, Step, AnswersAreTheAgents, TypeOK, Waiting, Ended
    <2>12. CASE SeeDead(m)
      <3>1. CASE file[m] \in {"yes", "no"}
        <4>1. Took(m, file[m]) /\ Step(m, "decide") /\ UNCHANGED <<pane, said>>
                 /\ pc[m] = "await"
          BY <2>12, <3>1 DEF SeeDead
        <4>2. QED
          BY <4>1, <3>1, OnlyMine DEF Took, Step, AnswersAreTheAgents, TypeOK, Waiting, Ended
      <3>2. CASE file[m] \notin {"yes", "no"}
        <4>1. Step(m, "pane") /\ UNCHANGED <<file, verdict, pane, said>> /\ pc[m] = "await"
          BY <2>12, <3>2 DEF SeeDead
        <4>2. QED
          BY <4>1, OnlyMine DEF Step, AnswersAreTheAgents, TypeOK, Waiting, Ended
      <3>3. QED
        BY <3>1, <3>2
    <2>13. CASE FromPane(m)
      BY <2>13, OnlyMine DEF FromPane, Step, AnswersAreTheAgents, TypeOK, Waiting, Ended
    <2>14. CASE PaneFails(m)
      BY <2>14, OnlyMine DEF PaneFails, Step, AnswersAreTheAgents, TypeOK, Waiting, Ended
    <2>15. CASE Decide(m)
      BY <2>15, OnlyMine DEF Decide, Step, AnswersAreTheAgents, TypeOK, Waiting, Ended
    <2>16. QED
      BY <1>2, <2>1, <2>2, <2>3, <2>4, <2>5, <2>6, <2>7, <2>8,
         <2>9, <2>10, <2>11, <2>12, <2>13, <2>14, <2>15 DEF Handle
  <1>3. ASSUME NEW m \in Messages, AgentStep(m)
        PROVE  AnswersAreTheAgents'
    <2>1. pc[m] \in Waiting /\ UNCHANGED <<pc, verdict>>
      BY <1>3 DEF AgentStep, WriteBegins, WriteEnds, PrintVerdict, Die, Agent, Waiting
    <2>2. /\ {file[m], pane[m], verdict[m]} \ {"none", "part"} \subseteq said[m]
          /\ verdict[m] # "none" => pc[m] = "decide"
      BY <2>1 DEF AnswersAreTheAgents
    <2>3. CASE WriteBegins(m)
      BY <2>1, <2>2, <2>3, OnlyMine DEF WriteBegins, TypeOK, Waiting, Ended
    <2>4. CASE WriteEnds(m)
      <3>1. PICK v \in {"yes", "no"} : /\ file' = [file EXCEPT ![m] = v]
                                       /\ said' = [said EXCEPT ![m] = {v}]
        BY <2>4 DEF WriteEnds
      <3>2. pane[m] = "none" /\ verdict[m] = "none" /\ UNCHANGED <<pane, verdict>>
        BY <2>1, <2>2, <2>4 DEF WriteEnds, TypeOK
      <3>3. QED
        BY <2>1, <2>2, <3>1, <3>2, OnlyMine DEF TypeOK, Waiting, Ended
    <2>5. CASE PrintVerdict(m)
      <3>1. PICK v \in {"yes", "no"} : /\ pane' = [pane EXCEPT ![m] = v]
                                       /\ said' = [said EXCEPT ![m] = {v}]
        BY <2>5 DEF PrintVerdict
      <3>2. file[m] \in {"none", "part"} /\ verdict[m] = "none" /\ UNCHANGED <<file, verdict>>
        BY <2>1, <2>2, <2>5 DEF PrintVerdict, TypeOK
      <3>3. QED
        BY <2>1, <2>2, <3>1, <3>2, OnlyMine DEF TypeOK, Waiting, Ended
    <2>6. CASE Die(m)
      BY <2>1, <2>6 DEF Die, AnswersAreTheAgents
    <2>7. QED
      BY <1>3, <2>3, <2>4, <2>5, <2>6 DEF AgentStep
  <1>4. CASE UNCHANGED vars
    BY <1>4 DEF vars, AnswersAreTheAgents
  <1>5. QED
    BY <1>1, <1>2, <1>3, <1>4 DEF Next

-----------------------------------------------------------------------------
(* The limit and the cooldown *)

Room == Unraced /\ LimitHolds /\ CooldownHolds

LEMMA RoomAtFirst == ASSUME TriageAssumption, Init PROVE Room
  <1>1. Count(triages, ticks) = 0
    BY EmptyCountsNothing DEF Init
  <1>2. Unraced
    BY DEF Init, Unraced, OneBetween, OneOfAThread, Between, Waiting
  <1>3. LimitHolds
    BY <1>1 DEF LimitHolds, TriageAssumption
  <1>4. CooldownHolds
    BY DEF Init, CooldownHolds, Between
  <1>5. QED
    BY <1>2, <1>3, <1>4 DEF Room

\* Nothing is recorded, and no message comes nearer to its verdict than it was.
Quiet ==
    /\ UNCHANGED <<inflight, triages, silent, raced, ticks>>
    /\ \A k \in Messages :
          /\ pc'[k] \in {"open", "record"} => pc[k] \in {"open", "record"}
          /\ pc'[k] \in Between => pc[k] \in Between
          /\ pc'[k] \in Waiting => pc[k] \in Waiting

LEMMA QuietKeepsRoom == ASSUME Room, Quiet PROVE Room'
  <1>1. Unraced'
    BY DEF Room, Quiet, Unraced, OneBetween, OneOfAThread
  <1>2. LimitHolds'
    BY DEF Room, Quiet, LimitHolds
  <1>3. CooldownHolds'
    BY DEF Room, Quiet, CooldownHolds, Waiting
  <1>4. QED
    BY <1>1, <1>2, <1>3 DEF Room

LEMMA MostAreQuiet ==
    ASSUME TypeOK, NEW m \in Messages,
           \/ Take(m) \/ Resume(m) \/ Defer(m) \/ Skip(m) \/ OpenWindow(m) \/ OpenFails(m)
           \/ ReadVerdict(m) \/ WaitFails(m) \/ SeeDead(m) \/ FromPane(m) \/ PaneFails(m)
           \/ AgentStep(m)
    PROVE  Quiet
  <1> USE DEF Quiet, Between, Waiting, TypeOK, Step
  <1>1. CASE Take(m)
    BY <1>1 DEF Take
  <1>2. CASE Resume(m)
    BY <1>2 DEF Resume
  <1>3. CASE Defer(m)
    BY <1>3 DEF Defer
  <1>4. CASE Skip(m)
    BY <1>4 DEF Skip
  <1>5. CASE OpenWindow(m)
    BY <1>5 DEF OpenWindow
  <1>6. CASE OpenFails(m)
    BY <1>6 DEF OpenFails
  <1>7. CASE ReadVerdict(m)
    BY <1>7 DEF ReadVerdict
  <1>8. CASE WaitFails(m)
    BY <1>8 DEF WaitFails
  <1>9. CASE SeeDead(m)
    BY <1>9 DEF SeeDead
  <1>10. CASE FromPane(m)
    BY <1>10 DEF FromPane
  <1>11. CASE PaneFails(m)
    BY <1>11 DEF PaneFails
  <1>12. CASE AgentStep(m)
    BY <1>12 DEF AgentStep, WriteBegins, WriteEnds, PrintVerdict, Die, Agent, memory
  <1>13. QED
    BY <1>1, <1>2, <1>3, <1>4, <1>5, <1>6, <1>7, <1>8, <1>9, <1>10, <1>11, <1>12

\* Past the checks: the thread has no triage under way and silent verdicts to
\* spare, the span has room, and whoever else was between is counted as a race.
LEMMA PassKeepsRoom ==
    ASSUME TriageAssumption, TypeOK, Room, NEW m \in Messages, Pass(m)
    PROVE  Room'
  <1>1. /\ pc' = [pc EXCEPT ![m] = "open"] /\ RootOf[m] \notin inflight
        /\ ~CooledDown(m) /\ AllowTriage
        /\ raced' = (raced \/ \E k \in Messages \ {m} : pc[k] \in Between)
        /\ UNCHANGED <<inflight, triages, silent, ticks>>
    BY DEF Pass, Step
  <1>2. CASE raced'
    BY <1>1, <1>2 DEF Room, Unraced, LimitHolds, CooldownHolds
  <1>3. CASE ~raced'
    <2>1. ~raced /\ \A k \in Messages \ {m} : pc[k] \notin Between
      BY <1>1, <1>3
    <2>2. OneBetween /\ OneOfAThread
      BY <2>1 DEF Room, Unraced
    <2>3. \A k \in Messages : pc'[k] = IF k = m THEN "open" ELSE pc[k]
      BY <1>1 DEF TypeOK
    <2>4. OneBetween'
      BY <1>1, <2>1, <2>2, <2>3 DEF OneBetween, AllowTriage, Between
    <2>5. OneOfAThread'
      BY <1>1, <2>1, <2>2, <2>3 DEF OneOfAThread, Between, Waiting
    <2>6. LimitHolds'
      BY <1>1, <2>1 DEF Room, LimitHolds
    <2>7. CooldownHolds'
      <3>1. SUFFICES ASSUME NEW k \in Messages \ Pointed,
                            pc'[k] \in Between \cup {"await", "pane", "decide"}
                     PROVE  CooldownN = 0 \/ Count(silent[RootOf[k]], ticks) < CooldownN
        BY <1>1 DEF CooldownHolds
      <3>2. CASE k = m
        <4>1. Count(silent[RootOf[m]], ticks) \in Nat /\ CooldownN \in Nat
          BY CountIsNat DEF TypeOK, TriageAssumption
        <4>2. CooldownN = 0 \/ ~(Count(silent[RootOf[m]], ticks) >= CooldownN)
          BY <1>1, <3>2, <4>1 DEF CooledDown
        <4>3. QED
          BY <3>2, <4>1, <4>2
      <3>3. CASE k # m
        BY <2>1, <2>3, <3>1, <3>3 DEF Room, CooldownHolds
      <3>4. QED
        BY <3>2, <3>3
    <2>8. QED
      BY <2>4, <2>5, <2>6, <2>7 DEF Room, Unraced
  <1>4. QED
    BY <1>2, <1>3

\* The only message between the check and its record takes the room there was.
LEMMA RecordKeepsRoom ==
    ASSUME TriageAssumption, TypeOK, Room, NEW m \in Messages, Record(m)
    PROVE  Room'
  <1>1. /\ pc[m] = "record" /\ triages' = Add(triages)
        /\ UNCHANGED <<inflight, silent, raced, ticks>>
    BY DEF Record
  <1>2. /\ pc'[m] \in {"mark", "gate"}
        /\ \A k \in Messages \ {m} : pc'[k] = pc[k]
    BY DEF Record, Step, TypeOK
  <1>3. CASE raced
    BY <1>1, <1>3 DEF Room, Unraced, LimitHolds, CooldownHolds
  <1>4. CASE ~raced
    <2>1. OneBetween /\ OneOfAThread
      BY <1>4 DEF Room, Unraced
    <2>2. \A k \in Messages \ {m} : pc[k] \notin Between
      BY <1>1, <2>1 DEF OneBetween, Between
    <2>3. OneBetween'
      BY <1>2, <2>2 DEF OneBetween, Between
    <2>4. OneOfAThread'
      BY <1>1, <1>2, <2>1 DEF OneOfAThread, Between, Waiting
    <2>5. LimitHolds'
      <3>1. Count(triages, ticks) < TriageLimit
        BY <1>1, <2>1 DEF OneBetween
      <3>2. Count(triages, ticks) \in Nat /\ TriageLimit \in Nat
        BY CountIsNat DEF TypeOK, TriageAssumption
      <3>3. Add(triages) \in Seq(Nat) /\ Count(Add(triages), ticks) <= Count(triages, ticks) + 1
        BY AddCountsOne DEF TypeOK
      <3>4. Count(Add(triages), ticks) \in Nat
        BY <3>3, CountIsNat DEF TypeOK
      <3>5. Count(Add(triages), ticks) <= TriageLimit
        BY <3>1, <3>2, <3>3, <3>4
      <3>6. QED
        BY <1>1, <3>5 DEF LimitHolds
    <2>6. CooldownHolds'
      BY <1>1, <1>2 DEF Room, CooldownHolds, Between
    <2>7. QED
      BY <2>3, <2>4, <2>5, <2>6 DEF Room, Unraced
  <1>5. QED
    BY <1>3, <1>4

LEMMA MarkKeepsRoom ==
    ASSUME TypeOK, Room, NEW m \in Messages, Mark(m)
    PROVE  Room'
  <1>1. /\ pc[m] = "mark" /\ inflight' = inflight \cup {RootOf[m]}
        /\ UNCHANGED <<triages, silent, raced, ticks>>
    BY DEF Mark
  <1>2. pc'[m] = "await" /\ \A k \in Messages \ {m} : pc'[k] = pc[k]
    BY DEF Mark, Step, TypeOK
  <1>3. Unraced'
    BY <1>1, <1>2 DEF Room, Unraced, OneBetween, OneOfAThread, Between, Waiting
  <1>4. LimitHolds'
    BY <1>1 DEF Room, LimitHolds
  <1>5. CooldownHolds'
    BY <1>1, <1>2 DEF Room, CooldownHolds, Between
  <1>6. QED
    BY <1>3, <1>4, <1>5 DEF Room

\* A silent verdict counts for its thread only, and no other message of the
\* thread is past the cooldown; nor is one waiting as inflight is cleared.
LEMMA DecideKeepsRoom ==
    ASSUME TriageAssumption, TypeOK, Room, NEW m \in Messages, Decide(m)
    PROVE  Room'
  <1>1. /\ pc[m] = "decide" /\ inflight' = inflight \ {RootOf[m]}
        /\ UNCHANGED <<triages, raced, ticks>>
    BY DEF Decide
  <1>2. pc'[m] \in Ended /\ \A k \in Messages \ {m} : pc'[k] = pc[k]
    BY DEF Decide, Step, TypeOK, Ended
  <1>3. \A r \in Roots \ {RootOf[m]} : silent'[r] = silent[r]
    BY DEF Decide, TypeOK
  <1>4. pc'[m] \notin Between \cup Waiting
    BY <1>2 DEF Ended, Between, Waiting
  <1>5. CASE raced
    BY <1>1, <1>5 DEF Room, Unraced, LimitHolds, CooldownHolds
  <1>6. CASE ~raced
    <2>1. OneBetween /\ OneOfAThread
      BY <1>6 DEF Room, Unraced
    <2>2. \A k \in Messages \ {m} :
             pc[k] \in Between \cup Waiting => RootOf[k] # RootOf[m]
      BY <1>1, <2>1 DEF OneOfAThread, Waiting
    <2>3. OneBetween'
      BY <1>1, <1>2, <1>4, <2>1 DEF OneBetween, Between, Ended
    <2>4. OneOfAThread'
      BY <1>1, <1>2, <1>4, <2>1, <2>2 DEF OneOfAThread
    <2>5. LimitHolds'
      BY <1>1 DEF Room, LimitHolds
    <2>6. CooldownHolds'
      <3>1. SUFFICES ASSUME NEW k \in Messages \ Pointed, pc'[k] \in Between \cup Waiting
                     PROVE  CooldownN = 0 \/ Count(silent'[RootOf[k]], ticks) < CooldownN
        BY <1>1 DEF CooldownHolds, Waiting
      <3>2. k # m /\ pc[k] \in Between \cup Waiting
        BY <1>2, <1>4, <3>1
      <3>3. silent'[RootOf[k]] = silent[RootOf[k]]
        BY <1>3, <2>2, <3>2 DEF TriageAssumption
      <3>4. QED
        BY <1>6, <3>2, <3>3 DEF Room, CooldownHolds, Waiting
    <2>7. QED
      BY <2>3, <2>4, <2>5, <2>6 DEF Room, Unraced
  <1>7. QED
    BY <1>5, <1>6

LEMMA TickKeepsRoom ==
    ASSUME TriageAssumption, TypeOK, Room, Tick
    PROVE  Room'
  <1>1. ticks \in Nat /\ ticks' = ticks + 1 /\ UNCHANGED <<pc, inflight, triages, silent, raced>>
    BY DEF Tick, memory, TypeOK
  <1>2. /\ Count(triages, ticks) \in Nat /\ Count(triages, ticks') \in Nat
        /\ Count(triages, ticks') <= Count(triages, ticks)
    <2>1. triages \in Seq(Nat) /\ ticks + 1 \in Nat
      BY <1>1 DEF TypeOK
    <2>2. Count(triages, ticks) \in Nat /\ Count(triages, ticks + 1) \in Nat
      BY <1>1, <2>1, CountIsNat
    <2>3. QED
      BY <1>1, <2>1, <2>2, TimeCountsNone
  <1>3. \A m \in Messages :
           /\ Count(silent[RootOf[m]], ticks) \in Nat /\ Count(silent[RootOf[m]], ticks') \in Nat
           /\ Count(silent[RootOf[m]], ticks') <= Count(silent[RootOf[m]], ticks)
    <2>1. SUFFICES ASSUME NEW m \in Messages
                   PROVE  /\ Count(silent[RootOf[m]], ticks) \in Nat
                          /\ Count(silent[RootOf[m]], ticks') \in Nat
                          /\ Count(silent[RootOf[m]], ticks') <= Count(silent[RootOf[m]], ticks)
      OBVIOUS
    <2>2. silent[RootOf[m]] \in Seq(Nat) /\ ticks + 1 \in Nat
      BY <1>1 DEF TypeOK, TriageAssumption
    <2>3. Count(silent[RootOf[m]], ticks) \in Nat /\ Count(silent[RootOf[m]], ticks + 1) \in Nat
      BY <1>1, <2>2, CountIsNat
    <2>4. QED
      BY <1>1, <2>2, <2>3, TimeCountsNone
  <1>4. TriageLimit \in Nat /\ CooldownN \in Nat
    BY DEF TriageAssumption
  <1>5. Unraced'
    BY <1>1, <1>2, <1>4 DEF Room, Unraced, OneBetween, OneOfAThread
  <1>6. LimitHolds'
    BY <1>1, <1>2, <1>4 DEF Room, LimitHolds
  <1>7. CooldownHolds'
    BY <1>1, <1>3, <1>4 DEF Room, CooldownHolds
  <1>8. QED
    BY <1>5, <1>6, <1>7 DEF Room

LEMMA RoomIsKept ==
    ASSUME TriageAssumption, TypeOK, Room, [Next]_vars
    PROVE  Room'
  <1>1. CASE Tick
    BY <1>1, TickKeepsRoom
  <1>2. ASSUME NEW m \in Messages, Handle(m) \/ AgentStep(m)
        PROVE  Room'
    <2>1. CASE Pass(m)
      BY <2>1, PassKeepsRoom
    <2>2. CASE Record(m)
      BY <2>2, RecordKeepsRoom
    <2>3. CASE Mark(m)
      BY <2>3, MarkKeepsRoom
    <2>4. CASE Decide(m)
      BY <2>4, DecideKeepsRoom
    <2>5. CASE ~(Pass(m) \/ Record(m) \/ Mark(m) \/ Decide(m))
      <3>1. Quiet
        BY <1>2, <2>5, MostAreQuiet DEF Handle
      <3>2. QED
        BY <3>1, QuietKeepsRoom
    <2>6. QED
      BY <2>1, <2>2, <2>3, <2>4, <2>5
  <1>3. CASE UNCHANGED vars
    <2>1. Quiet
      BY <1>3 DEF vars, memory, Quiet
    <2>2. QED
      BY <2>1, QuietKeepsRoom
  <1>4. QED
    BY <1>1, <1>2, <1>3 DEF Next

-----------------------------------------------------------------------------
(* Theorems *)

LEMMA Inductive == Spec => []IInv
  <1>1. Init => IInv
    BY TriageAssumption, RoomAtFirst, AnswersStart, TypesStart DEF IInv, Room
  <1>2. IInv /\ [Next]_vars => IInv'
    BY TriageAssumption, TypesAreKept, AnswersAreKept, RoomIsKept DEF IInv, Room
  <1>3. QED
    BY <1>1, <1>2, PTL DEF Spec

\* The handlers, the times and the answers keep their types, and the worker's
\* message is one that it is at.
THEOREM TypeCorrect == Spec => []TypeOK
  <1>1. IInv => TypeOK
    BY DEF IInv
  <1>2. QED
    BY <1>1, Inductive, PTL

\* No more triages are opened in a span than the limit says, for any number of
\* messages and failures, while no two handlers are between the check and its
\* record (state.go:360-370).
THEOREM LimitIsKept == Spec => []LimitHolds
  <1>1. IInv => LimitHolds
    BY DEF IInv
  <1>2. QED
    BY <1>1, Inductive, PTL

\* A message the cooldown holds for is with its triage only in a thread with
\* fewer silent verdicts than bring the cooldown, under the same condition.
THEOREM CooldownIsKept == Spec => []CooldownHolds
  <1>1. IInv => CooldownHolds
    BY DEF IInv
  <1>2. QED
    BY <1>1, Inductive, PTL

\* The daemon is silent, or escalates a message without a direct tag, only on
\* what the agent said, and a verdict in the file counts (triage.go:229-235).
THEOREM VerdictIsWhatWasSaid == Spec => VerdictIsTheAgents
  <1> DEFINE Goes(m) ==
        pc'[m] # pc[m] =>
          /\ pc'[m] = "silent" => "no" \in said[m]
          /\ pc'[m] = "escalated" => "yes" \in said[m] \/ m \in Tagged
          /\ (pc[m] = "await" /\ file[m] \in {"yes", "no"})
             => (verdict'[m] = file[m] \/ faults' > faults)
  <1>1. IInv /\ [Next]_vars => [\A m \in Messages : Goes(m)]_vars
    <2>1. SUFFICES ASSUME IInv, Next, NEW m \in Messages, pc'[m] # pc[m]
                   PROVE  Goes(m)
      OBVIOUS
    <2>2. TypeOK /\ AnswersAreTheAgents
      BY <2>1 DEF IInv
    <2>3. Handle(m)
      <3>1. ~Tick
        BY <2>1 DEF Tick, memory
      <3>2. PICK k \in Messages : Handle(k) \/ AgentStep(k)
        BY <2>1, <3>1 DEF Next
      <3>3. ~AgentStep(k)
        BY <2>1 DEF AgentStep, WriteBegins, WriteEnds, PrintVerdict, Die, Agent, memory
      <3>4. \E to \in PCs : pc' = [pc EXCEPT ![k] = to]
        BY <3>2, <3>3 DEF Handle, Take, Resume, Defer, Pass, Skip, OpenWindow, OpenFails,
           Record, Mark, ReadVerdict, WaitFails, SeeDead, FromPane, PaneFails, Decide, Step, PCs
      <3>5. k = m
        BY <2>1, <2>2, <3>4 DEF TypeOK
      <3>6. QED
        BY <3>2, <3>3, <3>5
    <2>4. CASE Decide(m)
      <3>1. pc[m] = "decide" /\ verdict[m] \in {"none", "yes", "no"}
        BY <2>2, <2>4 DEF Decide, TypeOK
      <3>2. verdict[m] # "none" => verdict[m] \in said[m]
        BY <2>2, <3>1 DEF AnswersAreTheAgents, Waiting
      <3>3. /\ pc'[m] = "silent" => verdict[m] = "no"
            /\ pc'[m] = "escalated" => verdict[m] = "yes" \/ m \in Tagged
        BY <2>2, <2>4 DEF Decide, Step, TypeOK
      <3>4. QED
        BY <3>1, <3>2, <3>3
    <2>5. CASE pc[m] = "await"
      <3>1. faults \in Nat /\ pc \in [Messages -> PCs] /\ verdict \in [Messages -> {"none", "yes", "no"}]
        BY <2>2 DEF TypeOK
      <3>2. ReadVerdict(m) \/ WaitFails(m) \/ SeeDead(m)
        BY <2>3, <2>5 DEF Handle, Take, Resume, Defer, Pass, Skip, OpenWindow, OpenFails,
           Record, Mark, FromPane, PaneFails, Decide
      <3>3. pc'[m] \in {"decide", "pane"}
        BY <3>1, <3>2 DEF ReadVerdict, WaitFails, SeeDead, Step
      <3>4. file[m] \in {"yes", "no"} => verdict'[m] = file[m] \/ faults' = faults + 1
        BY <3>1, <3>2 DEF ReadVerdict, WaitFails, SeeDead, Took, Fault
      <3>5. QED
        BY <3>1, <3>3, <3>4
    <2>6. CASE ~Decide(m) /\ pc[m] # "await"
      <3>1. pc'[m] \notin {"silent", "escalated"}
        BY <2>2, <2>3, <2>6 DEF Handle, Take, Resume, Defer, Pass, Skip, OpenWindow, OpenFails,
           Record, Mark, ReadVerdict, WaitFails, SeeDead, FromPane, PaneFails, Step, TypeOK
      <3>2. QED
        BY <2>6, <3>1
    <2>7. QED
      BY <2>4, <2>5, <2>6
  <1>2. QED
    BY <1>1, Inductive, PTL DEF Spec, VerdictIsTheAgents
=============================================================================
