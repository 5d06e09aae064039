------------------------- MODULE ReviewRoundProofs --------------------------
(***************************************************************************)
(* Theorems about ReviewRound: what the writer counts, and what a round    *)
(* is, for every committee, number of handlers, windows and revisions.     *)
(***************************************************************************)
EXTENDS ReviewRound, TLAPS

-----------------------------------------------------------------------------
(* Records *)

LEMMA Bounds ==
    /\ MaxHead \in Nat /\ MaxHead > 0 /\ MaxSessions \in Nat
    /\ Driver \in Agents /\ Driver \notin Members /\ Members \subseteq Agents
  BY ReviewRoundAssumption DEF Agents

\* A record that differs from another in no mark of the round.
Same(t, u) == u.id = t.id /\ u.round = t.round /\ u.runHead = t.runHead /\ Marks(u) = Marks(t)

\* A round that has been opened just now.
Blank(t) == t.id = runs + 1 /\ t.round # 0 /\ Marks(t) = Marks(Unknown)

LEMMA UnknownTyped ==
    /\ Unknown \in Thread /\ Unknown.round = 0 /\ Unknown.id = 0 /\ Unknown.runHead = 0
    /\ Unknown.sess = 0 /\ Unknown.crew = 0 /\ Unknown.head = 0
    /\ Marks(Unknown) = <<FALSE, [m \in Members |-> 0], 0>>
  BY Bounds DEF Unknown, Thread, Marks

LEMMA GoneTyped ==
    ASSUME NEW t \in Thread
    PROVE  /\ Gone(t) \in Thread /\ Same(t, Gone(t)) /\ Gone(t).sess = 0 /\ Gone(t).crew = t.crew
           /\ Gone(t).joint = t.joint
  BY Bounds DEF Gone, Same, Marks, Thread

LEMMA HeadSet ==
    ASSUME NEW t \in Thread, NEW r \in 0..MaxHead
    PROVE  LET u == [t EXCEPT !.head = r] IN
           /\ u \in Thread /\ Same(t, u) /\ u.head = r /\ u.sess = t.sess /\ u.crew = t.crew
           /\ u.joint = t.joint /\ u.results = t.results /\ u.started = t.started
  BY DEF Same, Marks, Thread

LEMMA CrewSet ==
    ASSUME NEW t \in Thread, NEW s \in 0..MaxSessions
    PROVE  LET u == [t EXCEPT !.crew = s] IN
           u \in Thread /\ Same(t, u) /\ u.sess = t.sess /\ u.crew = s /\ u.results = t.results
  BY DEF Same, Marks, Thread

LEMMA SessSet ==
    ASSUME NEW t \in Thread, NEW s \in 0..MaxSessions
    PROVE  LET u == [t EXCEPT !.sess = s] IN u \in Thread /\ Same(t, u) /\ u.sess = s
  BY DEF Same, Marks, Thread

LEMMA RoundOpened ==
    ASSUME runs \in Nat, NEW t \in Thread, NEW r \in 0..MaxHead
    PROVE  LET u == WithRound(t, r) IN
           /\ u \in Thread /\ Blank(u) /\ u.round = t.round + 1 /\ u.runHead = r
           /\ u.head = t.head /\ u.sess = t.sess /\ u.crew = t.crew /\ u.progress = t.progress
           /\ u.joint = 0 /\ u.results = [m \in Members |-> 0] /\ ~u.started
  <1> DEFINE u == WithRound(t, r)
             z == [m \in Members |-> 0]
  <1>1. z \in [Members -> 0..MaxHead] /\ 0 \in 0..MaxHead
    BY Bounds
  <1>2. u \in Thread
    <2>1. t.round + 1 \in Nat /\ runs + 1 \in Nat
      BY DEF Thread
    <2>2. QED
      BY <1>1, <2>1 DEF WithRound, Thread
  <1>3. /\ u.round = t.round + 1 /\ u.id = runs + 1 /\ u.runHead = r /\ u.head = t.head
        /\ u.sess = t.sess /\ u.crew = t.crew /\ u.progress = t.progress
        /\ u.joint = 0 /\ u.results = z /\ u.started = FALSE
    BY DEF WithRound, Thread
  <1>4. t.round \in Nat
    BY DEF Thread
  <1>5. Blank(u)
    <2>1. u.round # 0
      BY <1>3, <1>4
    <2>2. Marks(u) = <<FALSE, z, 0>>
      BY <1>3 DEF Marks
    <2>3. QED
      BY <1>3, <2>1, <2>2, UnknownTyped DEF Blank
  <1>6. QED
    BY <1>2, <1>3, <1>5

LEMMA RoundCopied ==
    ASSUME NEW t \in Thread
    PROVE  LET u == Round(t) IN
           /\ u \in Thread /\ u.crew = t.crew /\ u.head = t.head /\ u.round = t.round
           /\ u.id = t.id /\ u.runHead = t.runHead
  BY UnknownTyped DEF Round, Thread

LEMMA FreshTyped ==
    ASSUME runs \in Nat, NEW s \in Sessions, NEW r \in 0..MaxHead
    PROVE  LET u == Fresh(s, r) IN
           /\ u \in Thread /\ Blank(u) /\ u.round = 1 /\ u.runHead = r /\ u.sess = s
           /\ u.crew = 0 /\ u.joint = 0
  <1> DEFINE v == [Unknown EXCEPT !.sess = s, !.head = r]
  <1>1. v \in Thread /\ v.round = 0 /\ v.sess = s /\ v.crew = 0
    <2>1. s \in 0..MaxSessions
      BY Bounds DEF Sessions
    <2>2. QED
      BY <2>1, UnknownTyped DEF Thread
  <1>2. /\ WithRound(v, r) \in Thread /\ Blank(WithRound(v, r))
        /\ WithRound(v, r).round = v.round + 1 /\ WithRound(v, r).runHead = r
        /\ WithRound(v, r).sess = v.sess /\ WithRound(v, r).crew = v.crew
        /\ WithRound(v, r).joint = 0
    BY <1>1, RoundOpened
  <1>3. Fresh(s, r) = WithRound(v, r)
    BY DEF Fresh
  <1>4. QED
    BY <1>1, <1>2, <1>3

\* What counts in a record is in its marks.
LEMMA CountedIsMarked ==
    ASSUME NEW t, NEW u, Marks(t) = Marks(u)
    PROVE  Counted(t) = Counted(u)
  BY DEF Marks, Counted

LEMMA BlankCountsNothing ==
    ASSUME NEW t, Marks(t) = Marks(Unknown)
    PROVE  Counted(t) = {} /\ t.joint = 0 /\ \A m \in Members : t.results[m] = 0
  BY UnknownTyped DEF Marks, Counted

\* applyPost up to the message itself.
LEMMA BaseTyped ==
    ASSUME runs \in Nat, writer \in Writer, NEW t \in Thread
    PROVE  /\ Base(t) \in Thread /\ Base(t).runHead = writer.snap.runHead
           /\ Base(t).sess = t.sess /\ Base(t).crew = t.crew
           /\ t.round # writer.snap.round => Blank(Base(t)) /\ Base(t).round = t.round + 1
           /\ t.round = writer.snap.round =>
                 /\ Base(t).id = t.id /\ Base(t).round = t.round /\ Marks(Base(t)) = Marks(t)
                 /\ Base(t).results = t.results /\ Base(t).joint = t.joint
  <1>1. writer.snap.head \in 0..MaxHead /\ writer.snap.runHead \in 0..MaxHead
    BY DEF Writer, Thread
  <1>2. CASE t.round # writer.snap.round
    <2>1. /\ [t EXCEPT !.head = writer.snap.head] \in Thread
          /\ [t EXCEPT !.head = writer.snap.head].round = t.round
          /\ [t EXCEPT !.head = writer.snap.head].sess = t.sess
          /\ [t EXCEPT !.head = writer.snap.head].crew = t.crew
      BY <1>1, HeadSet DEF Same
    <2> DEFINE v == [t EXCEPT !.head = writer.snap.head]
               u == WithRound(v, writer.snap.runHead)
    <2>2. /\ u \in Thread /\ Blank(u) /\ u.round = v.round + 1 /\ u.runHead = writer.snap.runHead
          /\ u.sess = v.sess /\ u.crew = v.crew
      BY <1>1, <2>1, RoundOpened
    <2>3. Base(t) = u
      BY <1>2 DEF Base
    <2> HIDE DEF u
    <2>4. QED
      BY <1>2, <2>1, <2>2, <2>3
  <1>3. CASE t.round = writer.snap.round
    <2> DEFINE u == [t EXCEPT !.head = writer.snap.head, !.runHead = writer.snap.runHead]
    <2>1. /\ u \in Thread /\ u.id = t.id /\ u.round = t.round /\ Marks(u) = Marks(t)
          /\ u.runHead = writer.snap.runHead /\ u.sess = t.sess /\ u.crew = t.crew
          /\ u.joint = t.joint /\ u.results = t.results
      BY <1>1 DEF Marks, Thread
    <2>2. Base(t) = u
      BY <1>3 DEF Base
    <2> HIDE DEF u
    <2>3. QED
      BY <1>3, <2>1, <2>2
  <1>4. QED
    BY <1>2, <1>3

\* What a message that is counted records.
LEMMA AppliedTyped ==
    ASSUME writer \in Writer, NEW t \in Thread
    PROVE  LET u == Applied(t) IN
           /\ u \in Thread /\ u.id = t.id /\ u.round = t.round /\ u.runHead = t.runHead
           /\ u.sess = t.sess /\ u.crew = t.crew
           /\ ~Counts => u.results = t.results /\ u.joint = t.joint
           /\ Counts /\ writer.agent = Driver => u.results = t.results /\ u.joint = writer.sha
           /\ Counts /\ writer.agent # Driver =>
                 u.joint = t.joint /\ u.results = [t.results EXCEPT ![writer.agent] = writer.sha]
  <1> DEFINE v == Marked(t)
  <1>1. /\ v \in Thread /\ v.id = t.id /\ v.round = t.round /\ v.runHead = t.runHead
        /\ v.sess = t.sess /\ v.crew = t.crew /\ v.results = t.results /\ v.joint = t.joint
    BY DEF Marked, Thread
  <1>2. /\ writer.kind \in Kinds /\ writer.sha \in 0..MaxHead /\ writer.stale \in BOOLEAN
        /\ writer.agent \in Members \cup {Driver}
    BY DEF Writer, Agents
  <1>3. CASE writer.kind = "note" \/ (writer.kind = "done" /\ writer.stale)
    BY <1>2, <1>3 DEF Applied, Counts
  <1>4. CASE writer.kind = "taken"
    BY <1>1, <1>4 DEF Applied, Counts
  <1>5. CASE writer.kind = "start"
    <2>1. Applied(t) = [v EXCEPT !.started = TRUE] /\ ~Counts
      BY <1>5 DEF Applied, Counts
    <2>2. QED
      BY <1>1, <2>1 DEF Thread
  <1>6. CASE writer.kind = "done" /\ ~writer.stale /\ writer.agent = Driver
    <2>1. Applied(t) = [v EXCEPT !.joint = writer.sha] /\ Counts
      BY <1>6 DEF Applied, Counts
    <2>2. QED
      BY <1>1, <1>2, <1>6, <2>1 DEF Thread
  <1>7. CASE writer.kind = "done" /\ ~writer.stale /\ writer.agent # Driver
    <2>1. Applied(t) = [t EXCEPT !.results[writer.agent] = writer.sha] /\ Counts
      BY <1>7 DEF Applied, Counts
    <2>2. [t.results EXCEPT ![writer.agent] = writer.sha] \in [Members -> 0..MaxHead]
      BY <1>2, <1>7 DEF Thread
    <2>3. Applied(t) = [t EXCEPT !.results = [t.results EXCEPT ![writer.agent] = writer.sha]]
      BY <2>1
    <2>4. QED
      BY <1>7, <2>1, <2>2, <2>3 DEF Thread
  <1>8. QED
    BY <1>2, <1>3, <1>4, <1>5, <1>6, <1>7 DEF Kinds

-----------------------------------------------------------------------------
(* What a handler does *)

LEMMA HandMade ==
    ASSUME NEW pc \in HandPCs, NEW t \in Thread, NEW moved \in BOOLEAN
    PROVE  [pc |-> pc, snap |-> t, moved |-> moved] \in Hand
  BY DEF Hand

\* What is left in a handler's hand, if anything is that matters to it later.
HandMoves(h, r) ==
  /\ r.moved => r.pc = "continue"
  /\ \/ r.pc \in {"idle", "new", "gone", "progress"}
     \/ r.pc = "route" /\ r.snap = thread /\ thread' = thread
     \/ /\ r.pc \in {"live", "stop"} /\ hand[h].pc \in {"route", "live"}
        /\ r.snap = hand[h].snap /\ thread' = thread
     \/ r.pc = "attach" /\ thread'.round # 0
     \/ /\ r.pc = "continue" /\ hand[h].pc = "live" /\ thread' = thread
        /\ r.moved =>
              /\ r.snap.round = hand[h].snap.round + 1
              /\ r.snap.runHead = head /\ head # hand[h].snap.runHead

LEMMA HandOfHandler ==
    ASSUME TypeOK, CopiesAreSound, NEW h \in Handlers, HandlerStep(h)
    PROVE  \E r \in Hand : hand' = [hand EXCEPT ![h] = r] /\ HandMoves(h, r)
  <1>1. /\ hand[h] \in Hand /\ hand[h].snap \in Thread /\ hand[h].pc \in HandPCs
        /\ hand[h].moved \in BOOLEAN /\ thread \in Thread /\ head \in Revisions
        /\ head \in 0..MaxHead /\ head # 0 /\ runs \in Nat
    BY Bounds DEF TypeOK, Hand, Revisions
  <1>0. hand[h].pc # "continue" => hand[h].moved = FALSE
    BY DEF CopiesAreSound, TypeOK, Hand
  <1>2. IdleHand \in Hand /\ IdleHand = [pc |-> "idle", snap |-> Unknown, moved |-> FALSE]
    BY UnknownTyped DEF IdleHand, Hand, HandPCs
  <1>3. \A pc \in {"live", "stop"} :
           /\ [hand[h] EXCEPT !.pc = pc] \in Hand /\ [hand[h] EXCEPT !.pc = pc].pc = pc
           /\ [hand[h] EXCEPT !.pc = pc].snap = hand[h].snap
           /\ [hand[h] EXCEPT !.pc = pc].moved = hand[h].moved
    BY <1>1 DEF Hand, HandPCs
  <1>4. \A pc \in {"new", "gone"} :
           /\ Kept(pc, hand[h].snap) \in Hand /\ Kept(pc, hand[h].snap).pc = pc
           /\ Kept(pc, hand[h].snap).moved = FALSE
    <2>1. hand[h].snap.head \in 0..MaxHead
      BY <1>1 DEF Thread
    <2>2. QED
      BY <1>2, <2>1, UnknownTyped DEF Kept, Hand, HandPCs, Thread
  <1> DEFINE Goal == \E r \in Hand : hand' = [hand EXCEPT ![h] = r] /\ HandMoves(h, r)
  <1>5. ASSUME Done(h) PROVE Goal
    <2>1. IdleHand.pc = "idle" /\ IdleHand.moved = FALSE
      BY <1>2
    <2>2. HandMoves(h, IdleHand)
      BY <2>1 DEF HandMoves
    <2>3. QED
      BY <1>2, <1>5, <2>2 DEF Done, Step
  <1>6. CASE Leave(h) \/ Reopen(h) \/ Attach(h) \/ Continue(h) \/ Progress(h) \/ StopSet(h)
    BY <1>5, <1>6 DEF Leave, Reopen, Attach, Continue, Progress, StopSet
  <1>7. CASE Take(h)
    <2> DEFINE r == [IdleHand EXCEPT !.pc = "route", !.snap = thread]
    <2>1. r \in Hand /\ r.pc = "route" /\ r.snap = thread /\ r.moved = FALSE
      BY <1>1, <1>2 DEF Hand, HandPCs
    <2>2. hand' = [hand EXCEPT ![h] = r] /\ thread' = thread
      BY <1>7 DEF Take, Step
    <2> HIDE DEF r
    <2>3. QED
      BY <2>1, <2>2 DEF HandMoves
  <1>8. CASE RouteLive(h)
    <2>1. /\ hand' = [hand EXCEPT ![h] = [hand[h] EXCEPT !.pc = "live"]]
          /\ hand[h].pc = "route" /\ thread' = thread
      BY <1>8 DEF RouteLive, Step
    <2>2. QED
      BY <1>0, <1>3, <2>1 DEF HandMoves
  <1>9. CASE RouteForgotten(h) \/ RouteGone(h)
    <2>1. \E pc \in {"new", "gone"} : hand' = [hand EXCEPT ![h] = Kept(pc, hand[h].snap)]
      BY <1>9 DEF RouteForgotten, RouteGone, Step
    <2>2. QED
      BY <1>4, <2>1 DEF HandMoves
  <1>10. CASE LaunchReview(h)
    <2> DEFINE s == opened + 1
               r == [IdleHand EXCEPT !.pc = "attach", !.snap.sess = s]
    <2>1. s \in Sessions /\ (Done(h) \/ Step(h, r)) /\ thread' = Fresh(s, head)
      BY <1>10 DEF LaunchReview, Put
    <2>2. r \in Hand /\ r.pc = "attach" /\ r.moved = FALSE
      <3>1. s \in 0..MaxSessions
        BY <2>1, Bounds DEF Sessions
      <3>2. [Unknown EXCEPT !.sess = s] \in Thread
        BY <3>1, UnknownTyped DEF Thread
      <3>3. r \in Hand
        BY <1>2, <3>2 DEF Hand, HandPCs
      <3>4. r.pc = "attach" /\ r.moved = FALSE
        BY <1>2
      <3>5. QED
        BY <3>3, <3>4
    <2>3. Fresh(s, head).round # 0
      BY <1>1, <2>1, FreshTyped
    <2> HIDE DEF r
    <2>4. QED
      BY <1>5, <2>1, <2>2, <2>3 DEF Step, HandMoves
  <1>11. CASE Sync(h)
    <2> DEFINE t == hand[h].snap
               u == [t EXCEPT !.head = head]
               moved == t.round # 0 /\ Moved(t, head)
               v == Round(IF moved THEN WithRound(u, head) ELSE u)
               r == [hand[h] EXCEPT !.pc = "continue", !.moved = moved, !.snap = v]
               q == [hand[h] EXCEPT !.pc = "continue", !.snap = Round(t)]
    <2>1. (Step(h, r) \/ Step(h, q)) /\ hand[h].pc = "live" /\ thread' = thread
      BY <1>11 DEF Sync
    <2>2. u \in Thread /\ u.round = t.round
      BY <1>1, HeadSet DEF Same
    <2> HIDE DEF u
    <2>3. WithRound(u, head) \in Thread /\ WithRound(u, head).round = t.round + 1
             /\ WithRound(u, head).runHead = head
      BY <1>1, <2>2, RoundOpened
    <2>4. v \in Thread /\ (moved => v.round = t.round + 1 /\ v.runHead = head)
      BY <2>2, <2>3, RoundCopied
    <2>5. Round(t) \in Thread
      BY <1>1, RoundCopied
    <2>6. moved \in BOOLEAN /\ (moved => head # t.runHead)
      BY DEF Moved
    <2> HIDE DEF moved, v
    <2> USE <1>0
    <2>7. r \in Hand /\ r.pc = "continue" /\ r.moved = moved /\ r.snap = v
      BY <1>1, <2>4, <2>6 DEF Hand, HandPCs
    <2>8. ~r.moved \/ (r.snap.round = t.round + 1 /\ r.snap.runHead = head /\ head # t.runHead)
      BY <2>4, <2>6, <2>7
    <2>9. q \in Hand /\ q.pc = "continue" /\ q.moved = hand[h].moved
      BY <1>1, <2>5 DEF Hand, HandPCs
    <2> HIDE DEF r, q
    <2>10. CASE Step(h, r)
      BY <2>1, <2>7, <2>8, <2>10 DEF Step, HandMoves
    <2>11. CASE Step(h, q)
      <3>1. ~hand[h].moved
        BY <2>1
      <3>2. QED
        BY <2>1, <2>9, <2>11, <3>1 DEF Step, HandMoves
    <2>12. QED
      BY <2>1, <2>10, <2>11
  <1>12. CASE ReadMarker(h)
    <2>1. PICK x \in {head, hand[h].snap.head} :
             hand' = [hand EXCEPT ![h] = [IdleHand EXCEPT !.pc = "progress", !.snap.head = x]]
      BY <1>12 DEF ReadMarker, Step
    <2>2. x \in 0..MaxHead
      BY <1>1, <2>1 DEF Thread
    <2>3. /\ [IdleHand EXCEPT !.pc = "progress", !.snap.head = x] \in Hand
          /\ [IdleHand EXCEPT !.pc = "progress", !.snap.head = x].pc = "progress"
          /\ [IdleHand EXCEPT !.pc = "progress", !.snap.head = x].moved = FALSE
      BY <1>2, <2>2, UnknownTyped DEF Hand, HandPCs, Thread
    <2>4. QED
      BY <2>1, <2>3 DEF HandMoves
  <1>13. CASE StopKill(h)
    <2>1. /\ hand' = [hand EXCEPT ![h] = [hand[h] EXCEPT !.pc = "stop"]]
          /\ hand[h].pc = "live" /\ thread' = thread
      BY <1>13 DEF StopKill, Step
    <2>2. QED
      BY <1>0, <1>3, <2>1 DEF HandMoves
  <1>14. QED
    BY <1>6, <1>7, <1>8, <1>9, <1>10, <1>11, <1>12, <1>13 DEF HandlerStep

\* What a handler does to the record.
Left == thread' = thread /\ disk' = disk /\ runs' = runs

Amended(h) ==
  /\ thread' \in Thread /\ Same(thread, thread') /\ disk' = thread' /\ runs' = runs
  /\ thread'.sess \in {0, thread.sess}
  /\ thread'.crew = thread.crew \/ hand[h].pc = "attach"

OpensRound(h) ==
  /\ thread' \in Thread /\ Blank(thread') /\ disk' = thread' /\ runs' = runs + 1
  /\ thread'.round = thread.round + 1 /\ thread'.runHead = hand[h].snap.runHead
  /\ hand[h].pc = "continue" /\ hand[h].moved /\ thread.round < hand[h].snap.round

Launches(h) ==
  /\ LaunchReview(h)
  /\ thread' \in Thread /\ Blank(thread') /\ disk' \in {disk, thread'} /\ runs' = runs + 1
  /\ thread'.round = 1 /\ thread'.runHead = head /\ thread'.sess # 0

Replaces(h) ==
  /\ StopSet(h) \/ Reopen(h)
  /\ thread' \in Thread /\ Clean(thread') /\ disk' \in {disk, thread'}
  /\ runs' \in {runs, runs + 1}

LEMMA RecordOfHandler ==
    ASSUME TypeOK, CopiesAreSound, NEW h \in Handlers, HandlerStep(h)
    PROVE  Left \/ Amended(h) \/ OpensRound(h) \/ Launches(h) \/ Replaces(h)
  <1>1. /\ hand[h] \in Hand /\ hand[h].snap \in Thread /\ thread \in Thread
        /\ head \in 0..MaxHead /\ head # 0 /\ runs \in Nat /\ 0 \in 0..MaxHead
        /\ hand[h].snap.head \in 0..MaxHead /\ hand[h].snap.sess \in 0..MaxSessions
        /\ hand[h].snap.runHead \in 0..MaxHead
    BY Bounds DEF TypeOK, Hand, Revisions, Thread
  <1>2. CASE Take(h) \/ RouteLive(h) \/ RouteForgotten(h) \/ Leave(h) \/ Sync(h)
               \/ ReadMarker(h) \/ StopKill(h)
    BY <1>2 DEF Take, RouteLive, RouteForgotten, Leave, Sync, ReadMarker, StopKill, counters,
                Left
  <1>3. CASE RouteGone(h)
    <2>1. thread' = Gone(thread) /\ disk' = thread' /\ runs' = runs
      BY <1>3 DEF RouteGone, Update, counters
    <2>2. QED
      BY <1>1, <2>1, GoneTyped DEF Amended
  <1>4. CASE Attach(h)
    <2>1. /\ thread' = [thread EXCEPT !.crew = hand[h].snap.sess] /\ disk' = thread'
          /\ runs' = runs /\ hand[h].pc = "attach"
      BY <1>4 DEF Attach, Update, counters
    <2>2. QED
      BY <1>1, <2>1, CrewSet DEF Amended
  <1>5. CASE Continue(h)
    <2> DEFINE t == hand[h].snap
               now == [thread EXCEPT !.head = t.head]
    <2>1. now \in Thread /\ Same(thread, now) /\ now.sess = thread.sess /\ now.crew = thread.crew
      BY <1>1, HeadSet
    <2>2. CASE hand[h].moved /\ thread.round < t.round
      <3>1. /\ thread' = WithRound(now, t.runHead) /\ disk' = thread' /\ runs' = runs + 1
            /\ hand[h].pc = "continue"
        BY <1>5, <2>2 DEF Continue, Update
      <3> HIDE DEF now
      <3>2. /\ WithRound(now, t.runHead) \in Thread /\ Blank(WithRound(now, t.runHead))
            /\ WithRound(now, t.runHead).round = now.round + 1
            /\ WithRound(now, t.runHead).runHead = t.runHead
        BY <1>1, <2>1, RoundOpened
      <3>3. QED
        BY <2>1, <2>2, <3>1, <3>2 DEF OpensRound, Same
    <2>3. CASE ~(hand[h].moved /\ thread.round < t.round)
      <3>1. thread' = now /\ disk' = thread' /\ runs' = runs
        BY <1>5, <2>3 DEF Continue, Update
      <3>2. QED
        BY <2>1, <3>1 DEF Amended
    <2>4. QED
      BY <2>2, <2>3
  <1>6. CASE Progress(h)
    <2>1. PICK reached \in {TRUE, thread.progress} :
             thread' = [thread EXCEPT !.head = hand[h].snap.head, !.progress = reached]
      BY <1>6 DEF Progress, Update
    <2>2. disk' = thread' /\ runs' = runs
      BY <1>6 DEF Progress, Update, counters
    <2>3. reached \in BOOLEAN
      BY <1>1, <2>1 DEF Thread
    <2>4. thread' \in Thread /\ Same(thread, thread')
      BY <1>1, <2>1, <2>3 DEF Thread, Same, Marks
    <2>5. thread'.sess = thread.sess /\ thread'.crew = thread.crew
      BY <1>1, <2>1 DEF Thread
    <2>6. QED
      BY <2>2, <2>4, <2>5 DEF Amended
  <1>7. CASE LaunchReview(h)
    <2>1. /\ opened + 1 \in Sessions /\ thread' = Fresh(opened + 1, head)
          /\ disk' \in {disk, thread'} /\ runs' = runs + 1
      BY <1>7 DEF LaunchReview, Put
    <2>2. opened + 1 # 0
      BY <2>1, Bounds DEF Sessions
    <2>3. QED
      BY <1>1, <1>7, <2>1, <2>2, FreshTyped DEF Launches
  <1>8. CASE Reopen(h)
    <2>1. /\ opened + 1 \in Sessions /\ thread' = Fresh(opened + 1, 0) /\ disk' = thread'
          /\ runs' = runs + 1
      BY <1>8 DEF Reopen, Update
    <2>2. thread' \in Thread /\ thread'.round = 1
      BY <1>1, <2>1, FreshTyped
    <2>3. QED
      BY <1>8, <2>1, <2>2 DEF Replaces, Clean
  <1>9. CASE StopSet(h)
    <2>1. /\ thread' = Gone(hand[h].snap) /\ disk' \in {disk, thread'} /\ runs' = runs
          /\ hand[h].pc = "stop"
      BY <1>9 DEF StopSet, Put, counters
    <2>2. Clean(hand[h].snap)
      BY <2>1 DEF CopiesAreSound
    <2>3. thread' \in Thread /\ Same(hand[h].snap, thread')
      BY <1>1, <2>1, GoneTyped
    <2>4. QED
      BY <1>9, <2>1, <2>2, <2>3 DEF Replaces, Clean, Same
  <1>10. QED
    BY <1>2, <1>3, <1>4, <1>5, <1>6, <1>7, <1>8, <1>9 DEF HandlerStep

\* What a handler does to everything else.
LEMMA RestOfHandler ==
    ASSUME TypeOK, NEW h \in Handlers, HandlerStep(h)
    PROVE  /\ head' = head /\ writer' = writer /\ link' = link /\ asked' = asked
           /\ windows' \subseteq Sessions \X Agents /\ opened' \in 0..MaxSessions
           /\ mishaps' \in Nat
           /\ windows' \subseteq windows \/ LaunchReview(h) \/ Reopen(h)
  <1>1. /\ windows \subseteq Sessions \X Agents /\ opened \in 0..MaxSessions /\ mishaps \in Nat
        /\ mishaps + 1 \in Nat /\ Driver \in Agents /\ Members \subseteq Agents
    BY Bounds DEF TypeOK
  <1>2. CASE Take(h) \/ RouteLive(h) \/ RouteForgotten(h) \/ RouteGone(h) \/ Leave(h)
               \/ Attach(h) \/ Continue(h) \/ ReadMarker(h) \/ Progress(h)
    BY <1>1, <1>2 DEF Take, RouteLive, RouteForgotten, RouteGone, Leave, Attach, Continue,
                      ReadMarker, Progress, outside, counters
  <1>3. CASE Sync(h)
    BY <1>1, <1>3 DEF Sync, Mishap, outside, counters
  <1>4. CASE StopKill(h)
    BY <1>1, <1>4 DEF StopKill, Mishap, counters
  <1>5. CASE StopSet(h)
    BY <1>1, <1>5 DEF StopSet, Put, Mishap, outside, counters
  <1>6. CASE LaunchReview(h)
    <2>1. /\ opened + 1 \in Sessions /\ opened' = opened + 1
          /\ head' = head /\ writer' = writer /\ link' = link /\ asked' = asked
          /\ mishaps' = mishaps \/ mishaps' = mishaps + 1
      BY <1>6 DEF LaunchReview, Put, Mishap
    <2>2. \/ windows' = windows \cup {<<opened + 1, Driver>>}
          \/ windows' = windows \cup {<<opened + 1, Driver>>} \cup Crew(opened + 1)
      BY <1>6 DEF LaunchReview
    <2>3. Crew(opened + 1) \subseteq Sessions \X Agents
      BY <1>1, <2>1 DEF Crew
    <2>4. windows' \subseteq Sessions \X Agents
      BY <1>1, <2>1, <2>2, <2>3
    <2>5. opened' \in 0..MaxSessions
      BY <2>1, Bounds DEF Sessions
    <2>6. QED
      BY <1>1, <1>6, <2>1, <2>4, <2>5
  <1>7. CASE Reopen(h)
    <2>1. /\ opened + 1 \in Sessions /\ opened' = opened + 1
          /\ head' = head /\ writer' = writer /\ link' = link /\ asked' = asked
          /\ mishaps' = mishaps + 1 /\ windows' = windows \cup {<<opened + 1, Driver>>}
      BY <1>7 DEF Reopen, Mishap
    <2>2. opened' \in 0..MaxSessions
      BY <2>1, Bounds DEF Sessions
    <2>3. QED
      BY <1>1, <1>7, <2>1, <2>2
  <1>8. QED
    BY <1>2, <1>3, <1>4, <1>5, <1>6, <1>7 DEF HandlerStep

-----------------------------------------------------------------------------
(* What the writer does *)

LEMMA CopyTyped ==
    ASSUME TypeOK
    PROVE  /\ Copy \in Thread /\ Copy.round # 0
           /\ thread.round # 0 => Copy = thread
  <1>1. thread \in Thread /\ thread.head \in 0..MaxHead /\ thread.round \in Nat /\ runs \in Nat
    BY DEF TypeOK, Thread
  <1>2. WithRound(thread, thread.head) \in Thread /\ WithRound(thread, thread.head).round # 0
    BY <1>1, RoundOpened
  <1>3. QED
    BY <1>1, <1>2 DEF Copy

LEMMA WriterMade ==
    ASSUME NEW pc \in WriterPCs, NEW agent \in Agents, NEW kind \in Kinds,
           NEW sha \in 0..MaxHead, NEW t \in Thread, NEW n \in Nat, NEW i \in Nat,
           NEW stale \in BOOLEAN
    PROVE  [pc |-> pc, agent |-> agent, kind |-> kind, sha |-> sha, snap |-> t,
            round |-> n, id |-> i, stale |-> stale] \in Writer
  BY DEF Writer

LEMMA IdleWriterTyped ==
    /\ IdleWriter \in Writer /\ IdleWriter.pc = "idle"
    /\ [IdleWriter EXCEPT !.pc = "collect"] \in Writer
    /\ [IdleWriter EXCEPT !.pc = "collect"].pc = "collect"
  <1>1. IdleWriter \in Writer
    <2>1. Driver \in Agents /\ 0 \in 0..MaxHead /\ Unknown \in Thread
      BY Bounds, UnknownTyped
    <2>2. "idle" \in WriterPCs /\ "note" \in Kinds
      BY DEF WriterPCs, Kinds
    <2>3. QED
      BY <2>1, <2>2 DEF IdleWriter, Writer
  <1>2. IdleWriter.pc = "idle"
    BY DEF IdleWriter
  <1>3. /\ [IdleWriter EXCEPT !.pc = "collect"] \in Writer
        /\ [IdleWriter EXCEPT !.pc = "collect"].pc = "collect"
    BY <1>1 DEF Writer, WriterPCs
  <1>4. QED
    BY <1>1, <1>2, <1>3

\* What admitPost leaves the writer with.
Admits ==
  /\ writer' \in Writer /\ writer'.round = thread.round /\ writer'.id = thread.id
  /\ writer'.snap.round = Copy.round /\ writer'.snap.runHead = Copy.runHead
  /\ thread.sess # 0 \/ thread.crew # 0
  /\ \/ writer'.pc = "commit" /\ writer'.kind # "done"
     \/ writer'.pc = "inspect" /\ writer'.snap = Copy

LEMMA WriterAdmits ==
    ASSUME TypeOK, Admit \/ AdmitDone
    PROVE  Admits
  <1>1. /\ Copy \in Thread /\ thread.round \in Nat /\ thread.id \in Nat
        /\ Revisions \subseteq 0..MaxHead /\ 0 \in 0..MaxHead
    BY CopyTyped, Bounds DEF TypeOK, Thread, Revisions
  <1>2. Participants \subseteq Agents
    BY Bounds DEF Participants
  <1>3. Participants # {} => thread.sess # 0 \/ thread.crew # 0
    BY DEF Participants
  <1>4. Round(Copy) \in Thread /\ Round(Copy).round = Copy.round /\ Round(Copy).runHead = Copy.runHead
    BY <1>1, RoundCopied
  <1>5. CASE Admit
    <2>1. PICK agent \in Participants, kind \in {"note", "taken", "start"} :
             writer' = [pc |-> "commit", agent |-> agent, kind |-> kind, sha |-> 0,
                        snap |-> Round(Copy), round |-> thread.round, id |-> thread.id,
                        stale |-> FALSE]
      BY <1>5 DEF Admit
    <2>2. writer' \in Writer
      BY <1>1, <1>2, <1>4, <2>1, WriterMade DEF WriterPCs, Kinds
    <2>3. QED
      BY <1>3, <1>4, <2>1, <2>2 DEF Admits
  <1>6. CASE AdmitDone
    <2>1. PICK agent \in Participants, sha \in Revisions :
             writer' = [pc |-> "inspect", agent |-> agent, kind |-> "done", sha |-> sha,
                        snap |-> Copy, round |-> thread.round, id |-> thread.id,
                        stale |-> FALSE]
      BY <1>6 DEF AdmitDone
    <2>2. writer' \in Writer
      BY <1>1, <1>2, <2>1, WriterMade DEF WriterPCs, Kinds
    <2>3. QED
      BY <1>3, <2>1, <2>2 DEF Admits
  <1>7. QED
    BY <1>5, <1>6

\* What reconcileRound makes of a copy.
LEMMA ReconciledTyped ==
    ASSUME TypeOK, NEW t \in Thread
    PROVE  /\ Reconciled(t) \in Thread /\ Reconciled(t).crew = t.crew
           /\ Moved(t, head) => /\ Reconciled(t).round = t.round + 1
                                /\ Reconciled(t).runHead = head
           /\ ~Moved(t, head) => /\ Reconciled(t).round = t.round
                                 /\ Reconciled(t).results = t.results
                                 /\ t.runHead # 0 => Reconciled(t).runHead = t.runHead
  <1> DEFINE u == [t EXCEPT !.head = head]
  <1>1. head \in 0..MaxHead /\ runs \in Nat
    BY DEF TypeOK, Revisions
  <1>2. /\ u \in Thread /\ u.round = t.round /\ u.runHead = t.runHead /\ u.crew = t.crew
        /\ u.results = t.results
    BY <1>1, HeadSet DEF Same
  <1>3. /\ [t EXCEPT !.head = head, !.runHead = head] \in Thread
        /\ [t EXCEPT !.head = head, !.runHead = head].round = t.round
        /\ [t EXCEPT !.head = head, !.runHead = head].crew = t.crew
        /\ [t EXCEPT !.head = head, !.runHead = head].results = t.results
    BY <1>1 DEF Thread
  <1> HIDE DEF u
  <1>4. /\ WithRound(u, head) \in Thread /\ WithRound(u, head).round = u.round + 1
        /\ WithRound(u, head).runHead = head /\ WithRound(u, head).crew = u.crew
    BY <1>1, <1>2, RoundOpened
  <1>5. CASE Moved(t, head)
    <2>1. Reconciled(t) = WithRound(u, head)
      BY <1>5 DEF Reconciled, u
    <2>2. QED
      BY <1>2, <1>4, <1>5, <2>1
  <1>6. CASE ~Moved(t, head) /\ t.runHead = 0 /\ t.head # head
    <2>1. Reconciled(t) = [t EXCEPT !.head = head, !.runHead = head]
      BY <1>6 DEF Reconciled
    <2>2. QED
      BY <1>3, <1>6, <2>1
  <1>7. CASE ~Moved(t, head) /\ ~(t.runHead = 0 /\ t.head # head)
    <2>1. Reconciled(t) = u
      BY <1>7 DEF Reconciled, u
    <2>2. QED
      BY <1>2, <1>7, <2>1
  <1>8. QED
    BY <1>5, <1>6, <1>7

\* What the second look leaves the writer with.
Inspects ==
  LET t == Reconciled(writer.snap) IN
  /\ writer.pc = "inspect"
  /\ writer' \in Writer /\ writer'.pc = "commit" /\ writer'.agent = writer.agent
  /\ writer'.sha = writer.sha /\ writer'.round = writer.round /\ writer'.id = writer.id
  /\ writer'.snap.round = t.round /\ writer'.snap.runHead = t.runHead
  /\ writer'.snap.crew = t.crew
  /\ Counts' => /\ ~Stale(writer.snap, writer.sha)
                /\ writer.agent = Driver => Missing(t) = {}

LEMMA WriterInspects ==
    ASSUME TypeOK, Inspect
    PROVE  Inspects
  <1> DEFINE t == Reconciled(writer.snap)
             stale == Stale(writer.snap, writer.sha)
  <1>1. /\ writer \in Writer /\ writer.snap \in Thread
    BY DEF TypeOK, Writer
  <1>2. t \in Thread
    BY <1>1, ReconciledTyped
  <1>3. /\ Round(t) \in Thread /\ Round(t).round = t.round /\ Round(t).runHead = t.runHead
        /\ Round(t).crew = t.crew
    BY <1>2, RoundCopied
  <1>4. stale \in BOOLEAN
    BY DEF Stale, Moved
  <1>5. /\ writer.pc = "inspect" /\ (stale \/ Acceptable(t, writer.agent))
        /\ writer' = [writer EXCEPT !.pc = "commit", !.snap = Round(t), !.stale = stale]
    BY DEF Inspect
  <1> HIDE DEF t, stale
  <1>6. /\ writer' \in Writer /\ writer'.pc = "commit" /\ writer'.agent = writer.agent
        /\ writer'.sha = writer.sha /\ writer'.round = writer.round /\ writer'.id = writer.id
        /\ writer'.snap = Round(t) /\ writer'.stale = stale
    BY <1>1, <1>3, <1>4, <1>5 DEF Writer, WriterPCs
  <1>7. Counts' => ~stale
    BY <1>6 DEF Counts
  <1>8. ~stale /\ writer.agent = Driver => Missing(t) = {}
    BY <1>5 DEF Acceptable
  <1>9. QED
    BY <1>3, <1>5, <1>6, <1>7, <1>8 DEF Inspects, t, stale

\* What recordPost does to the record.
Records ==
  /\ thread.round = writer.round
  /\ thread' \in Thread /\ disk' = thread' /\ thread'.runHead = writer.snap.runHead
  /\ thread'.sess = thread.sess /\ thread'.crew = thread.crew
  /\ \/ /\ thread.round = writer.snap.round /\ runs' = runs
        /\ thread'.id = thread.id /\ thread'.round = thread.round
        /\ Counted(thread') \subseteq Counted(thread) \cup {writer.sha}
        /\ ~Counts => Counted(thread') \subseteq Counted(thread)
     \/ /\ thread.round # writer.snap.round /\ runs' = runs + 1
        /\ thread'.id = runs + 1 /\ thread'.round = thread.round + 1
        /\ Counted(thread') \subseteq {writer.sha}
        /\ ~Counts => Counted(thread') = {}
  /\ thread'.joint # 0 /\ thread.joint = 0 => Counts /\ writer.agent = Driver

LEMMA WriterRecordsIt ==
    ASSUME TypeOK, Commit
    PROVE  /\ writer.pc = "commit" /\ writer' \in Writer /\ writer'.pc \in {"idle", "collect"}
           /\ Left \/ Records
  <1>1. /\ thread \in Thread /\ writer \in Writer /\ runs \in Nat /\ Counts \in BOOLEAN
    BY DEF TypeOK, Counts
  <1>2. /\ writer.pc = "commit"
        /\ writer' \in {IdleWriter, [IdleWriter EXCEPT !.pc = "collect"]}
    BY DEF Commit
  <1>3. writer' \in Writer /\ writer'.pc \in {"idle", "collect"}
    BY <1>2, IdleWriterTyped
  <1>4. CASE thread.round # writer.round
    BY <1>2, <1>3, <1>4 DEF Commit, Left
  <1>5. CASE thread.round = writer.round
    <2> DEFINE b == Base(thread)
    <2>1. /\ thread' = Applied(b) /\ disk' = thread'
          /\ runs' = IF thread.round # writer.snap.round THEN runs + 1 ELSE runs
      BY <1>5 DEF Commit, Update
    <2>2. /\ b \in Thread /\ b.runHead = writer.snap.runHead
          /\ b.sess = thread.sess /\ b.crew = thread.crew
          /\ thread.round # writer.snap.round => Blank(b) /\ b.round = thread.round + 1
          /\ thread.round = writer.snap.round =>
                /\ b.id = thread.id /\ b.round = thread.round /\ b.results = thread.results
                /\ b.joint = thread.joint
      BY <1>1, BaseTyped
    <2> HIDE DEF b
    <2>3. /\ thread' \in Thread /\ thread'.id = b.id /\ thread'.round = b.round
          /\ thread'.runHead = b.runHead /\ thread'.sess = b.sess /\ thread'.crew = b.crew
          /\ ~Counts => thread'.results = b.results /\ thread'.joint = b.joint
          /\ Counts /\ writer.agent = Driver =>
                thread'.results = b.results /\ thread'.joint = writer.sha
          /\ Counts /\ writer.agent # Driver =>
                /\ thread'.joint = b.joint
                /\ thread'.results = [b.results EXCEPT ![writer.agent] = writer.sha]
      BY <1>1, <2>1, <2>2, AppliedTyped
    <2>4. /\ Counted(thread') \subseteq Counted(b) \cup {writer.sha}
          /\ ~Counts => Counted(thread') = Counted(b)
      <3>1. b.results \in [Members -> 0..MaxHead]
        BY <2>2 DEF Thread
      <3>2. ~Counts => Counted(thread') = Counted(b)
        BY <2>3 DEF Counted
      <3>3. Counts /\ writer.agent = Driver => Counted(thread') \subseteq Counted(b) \cup {writer.sha}
        BY <2>3 DEF Counted
      <3>4. ASSUME Counts, writer.agent # Driver
            PROVE  Counted(thread') \subseteq Counted(b) \cup {writer.sha}
        <4>1. /\ thread'.joint = b.joint
              /\ \A m \in Members : thread'.results[m] \in {b.results[m], writer.sha}
          BY <2>3, <3>1, <3>4
        <4>2. QED
          BY <4>1 DEF Counted
      <3>5. QED
        BY <3>2, <3>3, <3>4
    <2>5. CASE thread.round = writer.snap.round
      <3>1. Counted(b) = Counted(thread)
        BY <2>2, <2>5 DEF Counted
      <3>2. thread'.joint # 0 /\ thread.joint = 0 => Counts /\ writer.agent = Driver
        BY <2>2, <2>3, <2>5
      <3>3. QED
        BY <1>2, <1>3, <1>5, <2>1, <2>2, <2>3, <2>4, <2>5, <3>1, <3>2 DEF Records
    <2>6. CASE thread.round # writer.snap.round
      <3>1. Counted(b) = {} /\ b.joint = 0 /\ b.id = runs + 1
        BY <2>2, <2>6, BlankCountsNothing DEF Blank
      <3>2. thread'.joint # 0 /\ thread.joint = 0 => Counts /\ writer.agent = Driver
        BY <2>3, <3>1
      <3>3. QED
        BY <1>2, <1>3, <1>5, <2>1, <2>2, <2>3, <2>4, <2>6, <3>1, <3>2 DEF Records
    <2>7. QED
      BY <2>5, <2>6
  <1>6. QED
    BY <1>4, <1>5

-----------------------------------------------------------------------------
(* What the link drainer does *)

LEMMA LinkTakes ==
    ASSUME TypeOK, LinkTake
    PROVE  /\ link' \in Link /\ (link'.snap = thread) /\ opened' \in 0..MaxSessions
           /\ windows' \subseteq Sessions \X Agents /\ mishaps' \in Nat
           /\ \A s, m : m \in Members /\ <<s, m>> \in windows' => <<s, m>> \in windows
  <1>1. /\ thread \in Thread /\ thread.sess \in 0..MaxSessions /\ mishaps \in Nat
        /\ opened \in 0..MaxSessions /\ windows \subseteq Sessions \X Agents
        /\ Driver \in Agents /\ Driver \notin Members
    BY Bounds DEF TypeOK, Thread
  <1>2. mishaps' \in Nat
    BY <1>1 DEF LinkTake, Mishap
  <1>3. CASE /\ opened + 1 \in Sessions /\ opened' = opened + 1
             /\ windows' = windows \cup {<<opened + 1, Driver>>}
             /\ link' = [pc |-> "set", snap |-> thread, sess |-> opened + 1]
    <2>1. opened + 1 \in 0..MaxSessions
      BY <1>3, Bounds DEF Sessions
    <2>2. link' \in Link /\ link'.snap = thread
      BY <1>1, <1>3, <2>1 DEF Link
    <2>3. windows' \subseteq Sessions \X Agents
      BY <1>1, <1>3
    <2>4. \A s, m : m \in Members /\ <<s, m>> \in windows' => <<s, m>> \in windows
      BY <1>1, <1>3
    <2>5. QED
      BY <1>2, <1>3, <2>1, <2>2, <2>3, <2>4
  <1>4. CASE /\ link' = [pc |-> "set", snap |-> thread, sess |-> thread.sess]
             /\ UNCHANGED <<windows, opened>>
    <2>1. link' \in Link /\ link'.snap = thread
      BY <1>1, <1>4 DEF Link
    <2>2. QED
      BY <1>1, <1>2, <1>4, <2>1
  <1>5. QED
    BY <1>3, <1>4 DEF LinkTake

LEMMA LinkReplaces ==
    ASSUME TypeOK, CopiesAreSound, LinkSet
    PROVE  /\ thread' \in Thread /\ Clean(thread') /\ disk' \in {disk, thread'}
           /\ runs' \in Nat /\ mishaps' \in Nat
  <1> DEFINE t == [link.snap EXCEPT !.sess = link.sess]
             u == [t EXCEPT !.head = head]
  <1>1. /\ link \in Link /\ link.snap \in Thread /\ link.sess \in 0..MaxSessions
        /\ link.pc = "set" /\ Clean(link.snap) /\ runs \in Nat /\ runs + 1 \in Nat
        /\ head \in 0..MaxHead /\ mishaps \in Nat /\ mishaps + 1 \in Nat
    BY DEF TypeOK, Link, LinkSet, CopiesAreSound, Revisions
  <1>2. t \in Thread /\ Same(link.snap, t)
    BY <1>1, SessSet
  <1>3. Clean(t)
    BY <1>1, <1>2 DEF Clean, Same
  <1>4. /\ Put(t) \/ Put(Pinned(t))
        /\ runs' = runs \/ runs' = runs + 1
    BY DEF LinkSet
  <1> HIDE DEF t
  <1>5. u \in Thread /\ Same(t, u) /\ Clean(u)
    BY <1>1, <1>2, <1>3, HeadSet DEF Clean, Same
  <1>6. Pinned(t) \in Thread /\ Clean(Pinned(t))
    <2>1. CASE t.round = 0
      BY <1>5, <2>1 DEF Pinned
    <2>2. CASE t.round # 0 /\ Moved(t, head)
      <3> HIDE DEF u
      <3>1. WithRound(u, head) \in Thread /\ Blank(WithRound(u, head))
        BY <1>1, <1>5, RoundOpened
      <3>2. Pinned(t) = WithRound(u, head)
        BY <2>2 DEF Pinned, u
      <3>3. QED
        BY <3>1, <3>2 DEF Clean, Blank
    <2>3. CASE t.round # 0 /\ ~Moved(t, head)
      <3> DEFINE v == [t EXCEPT !.head = head, !.runHead = head]
      <3>1. v \in Thread /\ v.round = t.round
        BY <1>1, <1>2 DEF Thread
      <3>2. Pinned(t) = v
        BY <2>3 DEF Pinned
      <3>3. QED
        BY <2>3, <3>1, <3>2 DEF Clean
    <2>4. QED
      BY <2>1, <2>2, <2>3
  <1>7. QED
    BY <1>1, <1>2, <1>3, <1>4, <1>6 DEF Put, Mishap

-----------------------------------------------------------------------------
(* Types, and the copies *)

LEMMA HandsTyped ==
    ASSUME TypeOK, CopiesAreSound, NEW h \in Handlers, HandlerStep(h)
    PROVE  hand' \in [Handlers -> Hand]
  BY HandOfHandler DEF TypeOK

LEMMA TypesAreKept ==
    ASSUME TypeOK, CopiesAreSound, [Next]_vars
    PROVE  TypeOK'
  <1>1. /\ thread \in Thread /\ disk \in Thread /\ Clean(thread) /\ Clean(disk)
        /\ head \in Revisions /\ windows \subseteq Sessions \X Agents
        /\ opened \in 0..MaxSessions /\ runs \in Nat /\ runs + 1 \in Nat
        /\ hand \in [Handlers -> Hand] /\ writer \in Writer /\ link \in Link
        /\ asked \subseteq Nat /\ mishaps \in Nat /\ mishaps + 1 \in Nat
    BY DEF TypeOK, Clean
  <1> DEFINE Record == /\ thread' \in Thread /\ Clean(thread') /\ disk' \in {disk, thread'}
                       /\ runs' \in Nat
             World == /\ head' \in Revisions /\ windows' \subseteq Sessions \X Agents
                      /\ opened' \in 0..MaxSessions /\ mishaps' \in Nat
             Actors == /\ hand' \in [Handlers -> Hand] /\ writer' \in Writer /\ link' \in Link
                       /\ asked' \subseteq Nat
  <1>2. ASSUME Record, World, Actors PROVE TypeOK'
    BY <1>1, <1>2 DEF TypeOK, Clean
  <1>3. Left => Record
    BY <1>1 DEF Left
  <1>4. UNCHANGED <<thread, disk, runs>> => Record
    BY <1>1
  <1>5. UNCHANGED <<outside, opened, mishaps>> => World
    BY <1>1 DEF outside
  <1>6. UNCHANGED <<hand, link, asked>> /\ writer' \in Writer => Actors
    BY <1>1
  <1>7. CASE \E h \in Handlers : HandlerStep(h)
    <2>1. PICK h \in Handlers : HandlerStep(h)
      BY <1>7
    <2>2. World /\ Actors
      BY <1>1, <2>1, RestOfHandler, HandsTyped
    <2>3. Amended(h) \/ OpensRound(h) \/ Launches(h) \/ Replaces(h) => Record
      BY <1>1 DEF Amended, OpensRound, Launches, Replaces, Same, Blank, Clean
    <2>4. QED
      BY <1>2, <1>3, <2>1, <2>2, <2>3, RecordOfHandler
  <1>8. CASE Admit \/ AdmitDone
    <2>1. writer' \in Writer
      BY <1>8, WriterAdmits DEF Admits
    <2>2. /\ UNCHANGED <<thread, disk, runs>> /\ UNCHANGED <<outside, opened, mishaps>>
          /\ UNCHANGED <<hand, link, asked>>
      BY <1>8 DEF Admit, AdmitDone, counters
    <2>3. QED
      BY <1>2, <1>4, <1>5, <1>6, <2>1, <2>2
  <1>9. CASE Inspect \/ Turned
    <2>1. writer' \in Writer
      BY <1>9, WriterInspects, IdleWriterTyped DEF Inspects, Turned
    <2>2. /\ UNCHANGED <<thread, disk, runs>> /\ UNCHANGED <<outside, opened, mishaps>>
          /\ UNCHANGED <<hand, link, asked>>
      BY <1>9 DEF Inspect, Turned, counters
    <2>3. QED
      BY <1>2, <1>4, <1>5, <1>6, <2>1, <2>2
  <1>10. CASE Commit
    <2>1. writer' \in Writer /\ (Left \/ Records) /\ writer.pc = "commit"
      BY <1>10, WriterRecordsIt
    <2>2. UNCHANGED <<outside, opened, mishaps>> /\ UNCHANGED <<hand, link, asked>>
      BY <1>10 DEF Commit
    <2>3. Records => Record
      <3>1. writer.snap.round # 0
        BY <2>1 DEF CopiesAreSound
      <3>2. thread.round + 1 # 0 /\ thread.round + 1 \in Nat
        BY <1>1 DEF Thread
      <3>3. Records => thread'.round # 0
        BY <3>1, <3>2 DEF Records
      <3>4. QED
        BY <1>1, <3>3 DEF Records, Clean
    <2>4. QED
      BY <1>2, <1>3, <1>5, <1>6, <2>1, <2>2, <2>3
  <1>11. CASE CommitFails
    <2>1. writer' \in Writer
      BY <1>11, IdleWriterTyped DEF CommitFails
    <2>2. /\ UNCHANGED <<thread, disk, runs>> /\ UNCHANGED <<outside, opened>>
          /\ mishaps' = mishaps + 1 /\ UNCHANGED <<hand, link, asked>>
      BY <1>11 DEF CommitFails, Mishap, counters
    <2>3. World
      BY <1>1, <2>2 DEF outside
    <2>4. QED
      BY <1>2, <1>4, <1>6, <2>1, <2>2, <2>3
  <1>12. CASE Collect
    <2>1. /\ UNCHANGED <<thread, disk, runs>> /\ UNCHANGED <<outside, opened, mishaps>>
          /\ UNCHANGED <<hand, link>> /\ writer' = IdleWriter
          /\ asked' = asked \/ asked' = asked \cup {thread.id}
      BY <1>12 DEF Collect, counters
    <2>2. thread.id \in Nat
      BY <1>1 DEF Thread
    <2>3. asked' \subseteq Nat
      BY <1>1, <2>1, <2>2
    <2>4. Actors
      BY <1>1, <2>1, <2>3, IdleWriterTyped
    <2>5. QED
      BY <1>2, <1>4, <1>5, <2>1, <2>4
  <1>13. CASE LinkTake
    <2>1. /\ UNCHANGED <<thread, disk, runs>> /\ UNCHANGED <<hand, writer, asked, head>>
      BY <1>13 DEF LinkTake
    <2>2. QED
      BY <1>1, <1>2, <1>4, <1>13, <2>1, LinkTakes
  <1>14. CASE LinkSet
    <2>1. UNCHANGED <<hand, writer, asked, head, windows, opened>> /\ link' = IdleLink
      BY <1>14 DEF LinkSet, outside
    <2>2. IdleLink \in Link
      BY UnknownTyped, Bounds DEF IdleLink, Link
    <2>3. QED
      BY <1>1, <1>2, <1>14, <2>1, <2>2, LinkReplaces
  <1>15. CASE LinkRejected
    <2>1. /\ UNCHANGED <<thread, disk, runs>> /\ UNCHANGED <<outside, opened, mishaps>>
          /\ UNCHANGED <<hand, writer, asked>> /\ link' = IdleLink
      BY <1>15 DEF LinkRejected, counters
    <2>2. IdleLink \in Link
      BY UnknownTyped, Bounds DEF IdleLink, Link
    <2>3. QED
      BY <1>1, <1>2, <1>4, <1>5, <2>1, <2>2
  <1>16. CASE MoveHead \/ CloseWindow
    <2>1. /\ UNCHANGED <<thread, disk, runs>> /\ UNCHANGED <<opened, mishaps>>
          /\ UNCHANGED <<hand, link, asked>> /\ writer' = writer
      BY <1>16 DEF MoveHead, CloseWindow, counters, actors
    <2>2. head' \in Revisions
      BY <1>1, <1>16, Bounds DEF MoveHead, CloseWindow, Revisions
    <2>3. windows' \subseteq Sessions \X Agents
      BY <1>1, <1>16 DEF MoveHead, CloseWindow
    <2>4. QED
      BY <1>1, <1>2, <1>4, <1>6, <2>1, <2>2, <2>3
  <1>17. CASE SaveState
    <2>1. /\ thread' = thread /\ disk' = thread /\ runs' = runs
          /\ UNCHANGED <<outside, opened, mishaps>>
          /\ UNCHANGED <<hand, link, asked>> /\ writer' = writer
      BY <1>17 DEF SaveState, counters, actors
    <2>2. Record
      BY <1>1, <2>1
    <2>3. QED
      BY <1>1, <1>2, <1>5, <1>6, <2>1, <2>2
  <1>18. CASE Crash
    <2>1. /\ thread' = disk /\ disk' = disk /\ runs' = runs /\ UNCHANGED <<outside, opened>>
          /\ mishaps' = mishaps + 1 /\ asked' = asked /\ hand' = [h \in Handlers |-> IdleHand]
          /\ writer' = IdleWriter /\ link' = IdleLink
      BY <1>18 DEF Crash, Mishap, counters
    <2>2. IdleLink \in Link /\ IdleHand \in Hand
      BY UnknownTyped, Bounds DEF IdleLink, Link, IdleHand, Hand, HandPCs
    <2>3. Actors
      BY <1>1, <2>1, <2>2, IdleWriterTyped
    <2>4. Record /\ World
      BY <1>1, <2>1 DEF outside
    <2>5. QED
      BY <1>2, <2>3, <2>4
  <1>19. CASE UNCHANGED vars
    BY <1>1, <1>2, <1>19 DEF vars, outside, counters, actors
  <1>20. QED
    BY <1>7, <1>8, <1>9, <1>10, <1>11, <1>12, <1>13, <1>14, <1>15, <1>16, <1>17, <1>18, <1>19
    DEF Next, WriterStep

LEMMA CopiesAreKept ==
    ASSUME TypeOK, CopiesAreSound, [Next]_vars
    PROVE  CopiesAreSound'
  <1> DEFINE Hands == \A j \in Handlers :
                         /\ hand[j].pc \in {"route", "live", "stop"} => Clean(hand[j].snap)
                         /\ hand[j].moved => hand[j].pc = "continue"
             AtLink == link.pc = "set" => Clean(link.snap)
             AtWriter == /\ writer.pc \in {"inspect", "commit"} => writer.snap.round # 0
                         /\ writer.pc = "commit" /\ Counts => writer.snap.runHead \in {0, writer.sha}
  <1>1. Hands /\ AtLink /\ AtWriter /\ Clean(thread)
    BY DEF CopiesAreSound, TypeOK, Clean
  <1>2. Hands' /\ AtLink' /\ AtWriter' => CopiesAreSound'
    BY DEF CopiesAreSound
  <1>3. hand' = hand => Hands'
    BY <1>1
  <1>4. link' = link => AtLink'
    BY <1>1
  <1>5. writer' = writer => AtWriter'
    BY <1>1 DEF Counts
  <1>6. writer'.pc \in {"idle", "collect"} => AtWriter'
    OBVIOUS
  <1>7. IdleWriter.pc = "idle" /\ IdleLink.pc = "idle" /\ IdleHand.pc = "idle" /\ ~IdleHand.moved
    BY DEF IdleWriter, IdleLink, IdleHand
  <1>8. CASE \E h \in Handlers : HandlerStep(h)
    <2>1. PICK h \in Handlers : HandlerStep(h)
      BY <1>8
    <2>2. PICK r \in Hand : hand' = [hand EXCEPT ![h] = r] /\ HandMoves(h, r)
      BY <2>1, HandOfHandler
    <2>3. /\ r.pc \in {"route", "live", "stop"} => Clean(r.snap)
          /\ r.moved => r.pc = "continue"
      BY <1>1, <2>2 DEF HandMoves
    <2>4. \A j \in Handlers : hand'[j] = r \/ hand'[j] = hand[j]
      BY <2>2 DEF TypeOK
    <2>5. Hands'
      BY <1>1, <2>3, <2>4
    <2>6. writer' = writer /\ link' = link
      BY <2>1, RestOfHandler
    <2>7. QED
      BY <1>2, <1>4, <1>5, <2>5, <2>6
  <1>9. CASE Admit \/ AdmitDone
    <2>1. Admits /\ Copy.round # 0
      BY <1>9, WriterAdmits, CopyTyped
    <2>2. AtWriter'
      BY <2>1 DEF Admits, Counts
    <2>3. hand' = hand /\ link' = link
      BY <1>9 DEF Admit, AdmitDone
    <2>4. QED
      BY <1>2, <1>3, <1>4, <2>2, <2>3
  <1>10. CASE Inspect
    <2> DEFINE t == Reconciled(writer.snap)
    <2>1. /\ Inspects /\ writer.snap \in Thread /\ writer.snap.round \in Nat
          /\ writer.snap.round # 0
      BY <1>1, <1>10, WriterInspects DEF TypeOK, Writer, Thread, Inspects
    <2>2. t.round # 0
      BY <2>1, ReconciledTyped
    <2>3. ~Stale(writer.snap, writer.sha) => t.runHead \in {0, writer.sha}
      BY DEF Stale
    <2>4. AtWriter'
      BY <2>1, <2>2, <2>3 DEF Inspects
    <2>5. hand' = hand /\ link' = link
      BY <1>10 DEF Inspect
    <2>6. QED
      BY <1>2, <1>3, <1>4, <2>4, <2>5
  <1>11. CASE Commit
    <2>1. writer'.pc \in {"idle", "collect"} /\ hand' = hand /\ link' = link
      BY <1>11, WriterRecordsIt DEF Commit
    <2>2. QED
      BY <1>2, <1>3, <1>4, <1>6, <2>1
  <1>12. CASE Turned \/ CommitFails \/ Collect
    <2>1. writer'.pc = "idle" /\ hand' = hand /\ link' = link
      BY <1>7, <1>12 DEF Turned, CommitFails, Collect
    <2>2. QED
      BY <1>2, <1>3, <1>4, <1>6, <2>1
  <1>13. CASE LinkTake
    <2>1. link'.snap = thread /\ hand' = hand /\ writer' = writer
      BY <1>13, LinkTakes DEF LinkTake
    <2>2. QED
      BY <1>1, <1>2, <1>3, <1>5, <2>1
  <1>14. CASE LinkSet \/ LinkRejected
    <2>1. link'.pc = "idle" /\ hand' = hand /\ writer' = writer
      BY <1>7, <1>14 DEF LinkSet, LinkRejected
    <2>2. QED
      BY <1>2, <1>3, <1>5, <2>1
  <1>15. CASE MoveHead \/ CloseWindow \/ SaveState \/ UNCHANGED vars
    <2>1. hand' = hand /\ writer' = writer /\ link' = link
      BY <1>15 DEF MoveHead, CloseWindow, SaveState, vars, actors
    <2>2. QED
      BY <1>2, <1>3, <1>4, <1>5, <2>1
  <1>16. CASE Crash
    <2>1. hand' = [h \in Handlers |-> IdleHand] /\ writer' = IdleWriter /\ link' = IdleLink
      BY <1>16 DEF Crash
    <2>2. Hands'
      BY <1>7, <2>1
    <2>3. QED
      BY <1>2, <1>6, <1>7, <2>1, <2>2
  <1>17. QED
    BY <1>8, <1>9, <1>10, <1>11, <1>12, <1>13, <1>14, <1>15, <1>16 DEF Next, WriterStep

LEMMA TypesHoldInitially ==
    ASSUME Init
    PROVE  TypeOK /\ CopiesAreSound
  <1>1. /\ thread = Unknown /\ disk = Unknown /\ Unknown \in Thread /\ Clean(Unknown)
        /\ head \in Revisions /\ windows = {} /\ opened \in 0..MaxSessions /\ runs \in Nat
        /\ writer = IdleWriter /\ link = IdleLink /\ asked = {} /\ mishaps \in Nat
        /\ hand = [h \in Handlers |-> IdleHand]
    BY UnknownTyped, Bounds DEF Init, Clean, Revisions
  <1>2. IdleHand \in Hand /\ IdleLink \in Link
    BY UnknownTyped, Bounds DEF IdleHand, IdleLink, Hand, HandPCs, Link
  <1>3. TypeOK
    BY <1>1, <1>2, IdleWriterTyped DEF TypeOK, Clean
  <1>4. IdleHand.pc = "idle" /\ ~IdleHand.moved /\ IdleLink.pc = "idle"
    BY DEF IdleHand, IdleLink
  <1>5. QED
    BY <1>1, <1>3, <1>4, IdleWriterTyped DEF CopiesAreSound

(***************************************************************************)
(* Every variable keeps its type, a record without a round has no marks,   *)
(* and no copy of one has.                                                 *)
(***************************************************************************)
THEOREM TypeCorrect == Spec => [](TypeOK /\ CopiesAreSound)
  <1>1. Init => TypeOK /\ CopiesAreSound
    BY TypesHoldInitially
  <1>2. TypeOK /\ CopiesAreSound /\ [Next]_vars => TypeOK' /\ CopiesAreSound'
    BY TypesAreKept, CopiesAreKept
  <1>3. QED
    BY <1>1, <1>2, PTL DEF Spec

-----------------------------------------------------------------------------
(* What the writer counts *)

LEMMA WriterLeftAlone ==
    ASSUME TypeOK, [Next]_vars, ~Commit
    PROVE  \/ writer' = writer
           \/ thread' = thread
           \/ mishaps' = mishaps + 1 /\ mishaps' # mishaps
  <1>1. mishaps \in Nat
    BY DEF TypeOK
  <1>2. CASE \E h \in Handlers : HandlerStep(h)
    BY <1>2, RestOfHandler
  <1>3. CASE Crash
    BY <1>1, <1>3 DEF Crash, Mishap
  <1>4. CASE Admit \/ AdmitDone \/ Inspect \/ Turned \/ CommitFails \/ Collect
    BY <1>4 DEF Admit, AdmitDone, Inspect, Turned, CommitFails, Collect
  <1>5. CASE LinkTake \/ LinkSet \/ LinkRejected
    BY <1>5 DEF LinkTake, LinkSet, LinkRejected
  <1>6. CASE MoveHead \/ CloseWindow \/ SaveState \/ UNCHANGED vars
    BY <1>6 DEF MoveHead, CloseWindow, SaveState, vars, actors
  <1>7. QED
    BY <1>2, <1>3, <1>4, <1>5, <1>6 DEF Next, WriterStep

(***************************************************************************)
(* What the writer counts is of the revision the round is of from then on. *)
(* recordPost takes over the revision of the copy admitPost made, and only *)
(* what is of that revision was let through to be counted.                 *)
(***************************************************************************)
THEOREM ResultsAreOfTheHead == Spec => CountedIsOfTheHead
  <1> DEFINE Act == (WriterRecords /\ thread'.id = thread.id /\ thread'.runHead # 0)
                    => Counted(thread') \ Counted(thread) \subseteq {thread'.runHead}
  <1>1. TypeOK /\ CopiesAreSound /\ [Next]_vars => [Act]_vars
    <2> SUFFICES ASSUME TypeOK, CopiesAreSound, [Next]_vars,
                        WriterRecords, thread'.id = thread.id, thread'.runHead # 0
                 PROVE  Counted(thread') \ Counted(thread) \subseteq {thread'.runHead}
      OBVIOUS
    <2>1. CASE ~Commit
      <3>1. thread' = thread
        BY <2>1, WriterLeftAlone DEF WriterRecords
      <3>2. QED
        BY <3>1
    <2>2. CASE Commit
      <3>1. writer.pc = "commit" /\ (Left \/ Records)
        BY <2>2, WriterRecordsIt
      <3>2. Counts => writer.snap.runHead \in {0, writer.sha}
        BY <3>1 DEF CopiesAreSound
      <3>3. CASE Left
        BY <3>3 DEF Left
      <3>4. CASE Records
        <4>1. /\ thread'.runHead = writer.snap.runHead
              /\ Counts => Counted(thread') \subseteq Counted(thread) \cup {writer.sha}
              /\ ~Counts => Counted(thread') \subseteq Counted(thread)
          BY <3>4 DEF Records
        <4>2. CASE Counts
          BY <3>2, <4>1, <4>2
        <4>3. CASE ~Counts
          BY <4>1, <4>3
        <4>4. QED
          BY <4>2, <4>3
      <3>5. QED
        BY <3>1, <3>3, <3>4
    <2>3. QED
      BY <2>1, <2>2
  <1>2. QED
    BY TypeCorrect, <1>1, PTL DEF Spec, CountedIsOfTheHead

-----------------------------------------------------------------------------
(* Rounds, while no record is replaced *)

Recorded(t, u) == Sound(t) /\ Sound(u) /\ (u.id = t.id => Marks(u) = Marks(t))

HandsAreSound ==
  \A h \in Handlers :
     /\ hand[h].pc = "attach" => thread.round # 0
     /\ hand[h].pc = "continue" /\ hand[h].moved => hand[h].snap.runHead # 0

LEMMA RoundParts ==
    /\ RoundsAreSound <=> Recorded(thread, disk) /\ HandsAreSound /\ WriterIsSound
    /\ RoundsAreSound' <=> Recorded(thread, disk)' /\ HandsAreSound' /\ WriterIsSound'
  BY DEF RoundsAreSound, Recorded, HandsAreSound

\* The three ways a step may leave the record.
LEMMA NothingRecorded ==
    ASSUME RoundsAreSound, Left
    PROVE  Recorded(thread, disk)'
  BY RoundParts DEF Recorded, Left, Sound, Counted, Marks

LEMMA NothingNewRecorded ==
    ASSUME RoundsAreSound, Same(thread, thread'), disk' = thread', runs' = runs,
           thread'.sess \in {0, thread.sess}, thread'.crew = thread.crew \/ thread.round # 0
    PROVE  Recorded(thread, disk)'
  <1>1. Sound(thread)
    BY RoundParts DEF Recorded
  <1>2. Counted(thread') = Counted(thread)
    BY CountedIsMarked DEF Same
  <1>3. Sound(thread)'
    BY <1>1, <1>2 DEF Sound, Same
  <1>4. QED
    BY <1>3 DEF Recorded, Sound, Counted, Marks

LEMMA RoundRecorded ==
    ASSUME TypeOK, RoundsAreSound, Blank(thread'), thread'.runHead # 0,
           disk' \in {disk, thread'}, runs' = runs + 1
    PROVE  Recorded(thread, disk)'
  <1>1. Sound(disk) /\ runs \in Nat /\ disk.id \in Nat
    BY RoundParts DEF Recorded, TypeOK, Thread
  <1>2. Counted(thread') = {}
    BY BlankCountsNothing DEF Blank
  <1>3. thread'.id = runs' /\ thread'.id > runs /\ runs' \in Nat
    BY <1>1 DEF Blank
  <1>4. Sound(thread)'
    BY <1>2, <1>3 DEF Sound, Blank
  <1>5. CASE disk' = thread'
    BY <1>4, <1>5 DEF Recorded, Sound, Counted, Marks
  <1>6. CASE disk' = disk
    <2>1. disk'.id <= runs' /\ disk'.id # thread'.id
      BY <1>1, <1>3, <1>6 DEF Sound
    <2>2. Sound(disk)'
      BY <1>1, <1>6, <2>1 DEF Sound, Counted
    <2>3. QED
      BY <1>4, <2>1, <2>2 DEF Recorded
  <1>7. QED
    BY <1>5, <1>6

LEMMA WriterStaysSound ==
    ASSUME TypeOK, RoundsAreSound, writer' = writer, runs' \in {runs, runs + 1},
           Same(thread, thread') \/ Blank(thread')
    PROVE  WriterIsSound'
  <1> SUFFICES ASSUME writer.pc \in {"inspect", "commit"}
               PROVE  /\ writer.id <= runs' /\ writer.round # 0 /\ writer.snap.runHead # 0
                      /\ thread'.id # writer.id => Counted(thread') = {}
                      /\ thread'.id = writer.id /\ writer.snap.round = writer.round
                            => writer.snap.runHead = thread'.runHead
                      /\ writer.pc = "inspect" => writer.snap.round = writer.round
    BY DEF WriterIsSound, Counted
  <1>1. /\ writer.id <= runs /\ writer.round # 0 /\ writer.snap.runHead # 0
        /\ thread.id # writer.id => Counted(thread) = {}
        /\ thread.id = writer.id /\ writer.snap.round = writer.round
              => writer.snap.runHead = thread.runHead
        /\ writer.pc = "inspect" => writer.snap.round = writer.round
    BY RoundParts DEF WriterIsSound
  <1>2. runs \in Nat /\ writer.id \in Nat
    BY DEF TypeOK, Writer
  <1>3. CASE Same(thread, thread')
    BY <1>1, <1>2, <1>3, CountedIsMarked DEF Same
  <1>4. CASE Blank(thread')
    <2>1. Counted(thread') = {} /\ thread'.id # writer.id
      BY <1>1, <1>2, <1>4, BlankCountsNothing DEF Blank
    <2>2. QED
      BY <1>1, <1>2, <2>1
  <1>5. QED
    BY <1>3, <1>4

LEMMA HandlersStaySound ==
    ASSUME TypeOK, CopiesAreSound, RoundsAreSound,
           NEW h \in Handlers, HandlerStep(h), ~StopSet(h), ~Reopen(h)
    PROVE  RoundsAreSound'
  <1>1. PICK r \in Hand : hand' = [hand EXCEPT ![h] = r] /\ HandMoves(h, r)
    BY HandOfHandler
  <1>2. \A j \in Handlers : hand'[j] = hand[j] \/ hand'[j] = r
    BY <1>1 DEF TypeOK
  <1>3. /\ HandsAreSound /\ Recorded(thread, disk) /\ head # 0 /\ thread.round \in Nat
        /\ runs \in Nat
    BY RoundParts DEF TypeOK, Revisions, Thread
  <1>4. writer' = writer
    BY RestOfHandler
  <1>5. Left \/ Amended(h) \/ OpensRound(h) \/ Launches(h)
    BY RecordOfHandler DEF Replaces
  <1>6. Same(thread, thread') \/ Blank(thread')
    <2>1. Left => Same(thread, thread')
      BY DEF Left, Same, Marks
    <2>2. QED
      BY <1>5, <2>1 DEF Amended, OpensRound, Launches
  <1>7. thread.round # 0 => thread'.round # 0
    BY <1>6 DEF Same, Blank
  <1>8. r.moved => r.snap.runHead # 0
    <2>1. r.moved => r.pc = "continue" /\ r.snap.runHead = head
      BY <1>1 DEF HandMoves
    <2>2. QED
      BY <1>3, <2>1
  <1>9. r.pc = "attach" => thread'.round # 0
    BY <1>1 DEF HandMoves
  <1>10. HandsAreSound'
    BY <1>2, <1>3, <1>7, <1>8, <1>9 DEF HandsAreSound
  <1>11. Recorded(thread, disk)' /\ runs' \in {runs, runs + 1}
    <2>1. CASE Left
      BY <2>1, NothingRecorded DEF Left
    <2>2. CASE Amended(h)
      <3>1. hand[h].pc = "attach" => thread.round # 0
        BY <1>3 DEF HandsAreSound
      <3>2. QED
        BY <2>2, <3>1, NothingNewRecorded DEF Amended
    <2>3. CASE OpensRound(h)
      <3>1. thread'.runHead # 0
        BY <1>3, <2>3 DEF OpensRound, HandsAreSound
      <3>2. QED
        BY <2>3, <3>1, RoundRecorded DEF OpensRound
    <2>4. CASE Launches(h)
      BY <1>3, <2>4, RoundRecorded DEF Launches
    <2>5. QED
      BY <1>5, <2>1, <2>2, <2>3, <2>4
  <1>12. WriterIsSound'
    BY <1>4, <1>6, <1>11, WriterStaysSound
  <1>13. QED
    BY <1>10, <1>11, <1>12, RoundParts

LEMMA CommitStaysSound ==
    ASSUME TypeOK, CopiesAreSound, RoundsAreSound, Commit
    PROVE  RoundsAreSound'
  <1>1. /\ writer.pc = "commit" /\ writer'.pc \in {"idle", "collect"} /\ (Left \/ Records)
        /\ hand' = hand
    BY WriterRecordsIt DEF Commit
  <1>2. WriterIsSound'
    BY <1>1 DEF WriterIsSound
  <1>3. /\ HandsAreSound /\ Sound(thread) /\ runs \in Nat /\ thread.round \in Nat
        /\ thread.id \in Nat
    BY RoundParts DEF Recorded, TypeOK, Thread
  <1>4. /\ writer.round # 0 /\ writer.snap.runHead # 0 /\ writer.snap.round # 0
        /\ thread.id # writer.id => Counted(thread) = {}
        /\ thread.id = writer.id /\ writer.snap.round = writer.round
              => writer.snap.runHead = thread.runHead
        /\ Counts => writer.snap.runHead = writer.sha
    BY <1>1, RoundParts DEF WriterIsSound, CopiesAreSound
  <1>5. CASE Left
    <2>1. HandsAreSound'
      BY <1>1, <1>3, <1>5 DEF HandsAreSound, Left
    <2>2. QED
      BY <1>2, <1>5, <2>1, NothingRecorded, RoundParts
  <1>6. CASE Records
    <2>1. thread'.round # 0 /\ thread'.runHead # 0
      BY <1>3, <1>4, <1>6 DEF Records
    <2>2. Counted(thread') \subseteq {thread'.runHead}
      <3>1. CASE thread.round = writer.snap.round
        <4>1. Counted(thread) \subseteq {writer.snap.runHead}
          BY <1>3, <1>4, <1>6, <3>1 DEF Records, Sound
        <4>2. QED
          BY <1>4, <1>6, <3>1, <4>1 DEF Records
      <3>2. CASE thread.round # writer.snap.round
        BY <1>4, <1>6, <3>2 DEF Records
      <3>3. QED
        BY <3>1, <3>2
    <2>3. thread'.id <= runs'
      BY <1>3, <1>6 DEF Records, Sound
    <2>4. Sound(thread)'
      BY <2>1, <2>2, <2>3 DEF Sound, Counted
    <2>5. disk' = thread'
      BY <1>6 DEF Records
    <2>6. Recorded(thread, disk)'
      BY <2>4, <2>5 DEF Recorded, Sound, Counted, Marks
    <2>7. HandsAreSound'
      BY <1>1, <1>3, <2>1 DEF HandsAreSound
    <2>8. QED
      BY <1>2, <2>6, <2>7, RoundParts
  <1>7. QED
    BY <1>1, <1>5, <1>6

LEMMA RoundsStaySound ==
    ASSUME TypeOK, CopiesAreSound, RoundsAreSound, [Next]_vars, KeepsRecord \/ UNCHANGED vars
    PROVE  RoundsAreSound'
  <1>1. /\ HandsAreSound /\ Recorded(thread, disk) /\ WriterIsSound
        /\ Sound(thread) /\ Sound(disk)
    BY RoundParts DEF Recorded
  <1>2. UNCHANGED <<hand, thread>> => HandsAreSound'
    BY <1>1 DEF HandsAreSound
  <1>3. UNCHANGED <<thread, disk, runs>> => Recorded(thread, disk)'
    BY NothingRecorded DEF Left
  <1>4. UNCHANGED <<writer, thread, runs>> => WriterIsSound'
    BY <1>1 DEF WriterIsSound, Counted
  <1>5. writer'.pc \notin {"inspect", "commit"} => WriterIsSound'
    BY DEF WriterIsSound
  <1>6. IdleWriter.pc = "idle" /\ IdleHand.pc = "idle"
    BY DEF IdleWriter, IdleHand
  <1>7. CASE KeepsRecord /\ \E h \in Handlers : HandlerStep(h)
    BY <1>7, HandlersStaySound DEF KeepsRecord
  <1>8. CASE Admit \/ AdmitDone
    <2>1. Admits /\ UNCHANGED <<thread, disk, runs, hand>>
      BY <1>8, WriterAdmits DEF Admit, AdmitDone, counters
    <2>2. thread.round # 0
      BY <1>1, <2>1 DEF Admits, Sound
    <2>3. Copy = thread
      BY <2>2, CopyTyped
    <2>4. WriterIsSound'
      BY <1>1, <2>1, <2>2, <2>3 DEF Admits, WriterIsSound, Sound, Counted
    <2>5. QED
      BY <1>2, <1>3, <2>1, <2>4, RoundParts
  <1>9. CASE Inspect
    <2> DEFINE t == Reconciled(writer.snap)
    <2>1. Inspects /\ UNCHANGED <<thread, disk, runs, hand>>
      BY <1>9, WriterInspects DEF Inspect, counters
    <2>2. /\ writer.snap \in Thread /\ writer.snap.round \in Nat /\ head # 0
      BY DEF TypeOK, Writer, Thread, Revisions
    <2>3. /\ Moved(writer.snap, head) => t.round = writer.snap.round + 1 /\ t.runHead = head
          /\ ~Moved(writer.snap, head) => t.round = writer.snap.round
          /\ ~Moved(writer.snap, head) /\ writer.snap.runHead # 0 => t.runHead = writer.snap.runHead
      BY <2>2, ReconciledTyped
    <2> HIDE DEF t
    <2>4. /\ writer.id <= runs /\ writer.round # 0 /\ writer.snap.runHead # 0
          /\ thread.id # writer.id => Counted(thread) = {}
          /\ thread.id = writer.id => writer.snap.runHead = thread.runHead
          /\ writer.snap.round = writer.round
      BY <1>1, <2>1 DEF Inspects, WriterIsSound
    <2>5. /\ writer'.id = writer.id /\ writer'.round = writer.round /\ writer'.pc = "commit"
          /\ writer'.snap.round = t.round /\ writer'.snap.runHead = t.runHead
      BY <2>1 DEF Inspects, t
    <2>6. t.runHead # 0 /\ (t.round = writer.round => t.runHead = writer.snap.runHead)
      BY <2>2, <2>3, <2>4
    <2>7. WriterIsSound'
      BY <2>1, <2>4, <2>5, <2>6 DEF WriterIsSound, Counted
    <2>8. QED
      BY <1>2, <1>3, <2>1, <2>7, RoundParts
  <1>10. CASE Commit
    BY <1>10, CommitStaysSound
  <1>11. CASE Turned \/ CommitFails \/ Collect
    <2>1. writer'.pc = "idle" /\ UNCHANGED <<thread, disk, runs, hand>>
      BY <1>6, <1>11 DEF Turned, CommitFails, Collect, counters
    <2>2. QED
      BY <1>2, <1>3, <1>5, <2>1, RoundParts
  <1>12. CASE LinkTake \/ LinkRejected \/ MoveHead \/ CloseWindow \/ UNCHANGED vars
    <2>1. UNCHANGED <<thread, disk, runs, hand, writer>>
      BY <1>12 DEF LinkTake, LinkRejected, MoveHead, CloseWindow, vars, counters, actors
    <2>2. QED
      BY <1>2, <1>3, <1>4, <2>1, RoundParts
  <1>13. CASE SaveState
    <2>1. thread' = thread /\ disk' = thread /\ UNCHANGED <<runs, hand, writer>>
      BY <1>13 DEF SaveState, counters, actors
    <2>2. Recorded(thread, disk)'
      BY <1>1, <2>1 DEF Recorded, Sound, Counted, Marks
    <2>3. QED
      BY <1>2, <1>4, <2>1, <2>2, RoundParts
  <1>14. CASE Crash
    <2>1. /\ thread' = disk /\ disk' = disk /\ runs' = runs
          /\ hand' = [h \in Handlers |-> IdleHand] /\ writer' = IdleWriter
      BY <1>14 DEF Crash, counters
    <2>2. Recorded(thread, disk)'
      BY <1>1, <2>1 DEF Recorded, Sound, Counted, Marks
    <2>3. HandsAreSound'
      BY <1>6, <2>1 DEF HandsAreSound
    <2>4. QED
      BY <1>5, <1>6, <2>1, <2>2, <2>3, RoundParts
  <1>15. QED
    BY <1>7, <1>8, <1>9, <1>10, <1>11, <1>12, <1>13, <1>14 DEF Next, WriterStep, KeepsRecord

LEMMA RoundsSoundInitially ==
    ASSUME Init
    PROVE  RoundsAreSound
  <1>1. Sound(Unknown)
    <2>1. Counted(Unknown) = {}
      BY BlankCountsNothing
    <2>2. runs = 0
      BY DEF Init
    <2>3. QED
      BY <2>1, <2>2, UnknownTyped DEF Sound
  <1>2. IdleWriter.pc = "idle" /\ IdleHand.pc = "idle"
    BY DEF IdleWriter, IdleHand
  <1>3. QED
    BY <1>1, <1>2 DEF Init, RoundsAreSound, WriterIsSound

(***************************************************************************)
(* Every result that counts in a round, and the joint verdict, is of the   *)
(* revision the round was opened for: whatever moved while a message was   *)
(* on its way, and across crashes and failed writes of the state file.     *)
(***************************************************************************)
THEOREM ResultsAreOfOneHead == Spec /\ RecordIsKept => []ResultsAgree
  <1> DEFINE IInv == TypeOK /\ CopiesAreSound /\ RoundsAreSound
  <1>1. Init => IInv
    BY TypesHoldInitially, RoundsSoundInitially
  <1>2. IInv /\ [Next]_vars /\ [KeepsRecord]_vars => IInv'
    BY TypesAreKept, CopiesAreKept, RoundsStaySound
  <1>3. IInv => ResultsAgree
    BY DEF RoundsAreSound, Sound, ResultsAgree
  <1>4. QED
    BY <1>1, <1>2, <1>3, PTL DEF Spec, RecordIsKept

-----------------------------------------------------------------------------
(* Rounds, while besides the review is launched once *)

HandFollows(r, t) ==
  /\ r.pc \in {"route", "live"} =>
        /\ r.snap.round <= t.round
        /\ r.snap.round = t.round => r.snap.runHead = t.runHead
  /\ r.pc = "continue" /\ r.moved =>
        /\ r.snap.round <= t.round + 1
        /\ r.snap.round = t.round + 1 => r.snap.runHead # t.runHead

DiskFollows == disk = thread \/ (disk.round = 0 /\ thread.sess # 0)

LEMMA AdvanceParts ==
    /\ RoundsAdvance <=> /\ DiskFollows /\ WriterFollows
                         /\ \A j \in Handlers : HandFollows(hand[j], thread)
    /\ RoundsAdvance' <=> /\ DiskFollows' /\ WriterFollows'
                          /\ \A j \in Handlers : HandFollows(hand'[j], thread')
  BY DEF RoundsAdvance, HandsFollow, HandFollows, DiskFollows

LEMMA HandStillFollows ==
    ASSUME NEW r \in Hand, NEW t \in Thread, NEW u \in Thread, HandFollows(r, t),
           (u.round = t.round /\ u.runHead = t.runHead) \/ u.round = t.round + 1
    PROVE  HandFollows(r, u)
  <1>1. r.snap.round \in Nat /\ t.round \in Nat
    BY DEF Hand, Thread
  <1>2. CASE u.round = t.round /\ u.runHead = t.runHead
    BY <1>2 DEF HandFollows
  <1>3. CASE u.round = t.round + 1
    <2>1. r.pc \in {"route", "live"} => r.snap.round < u.round
      BY <1>1, <1>3 DEF HandFollows
    <2>2. r.pc = "continue" /\ r.moved => r.snap.round < u.round + 1
      BY <1>1, <1>3 DEF HandFollows
    <2>3. QED
      BY <1>1, <1>3, <2>1, <2>2 DEF HandFollows
  <1>4. QED
    BY <1>2, <1>3

\* What Missing waits for, in a record whose committee is that of the launch c.
LEMMA MissingNone ==
    ASSUME NEW t \in Thread, NEW c \in 0..MaxSessions
    PROVE  (Missing([t EXCEPT !.crew = c]) = {})
              <=> (c = 0 \/ \A m \in Members : t.results[m] # 0 \/ <<c, m>> \notin windows)
  <1>1. [t EXCEPT !.crew = c].crew = c /\ [t EXCEPT !.crew = c].results = t.results
    BY DEF Thread
  <1>2. QED
    BY <1>1 DEF Missing

LEMMA WriterStillFollows ==
    ASSUME TypeOK, WriterFollows, writer' = writer, thread' \in Thread,
           \/ /\ Same(thread, thread')
              /\ \A s, m : m \in Members /\ <<s, m>> \in windows' => <<s, m>> \in windows
           \/ thread'.round = thread.round + 1
    PROVE  WriterFollows'
  <1>1. /\ thread \in Thread /\ thread.round \in Nat /\ writer.round \in Nat
        /\ writer.snap.crew \in 0..MaxSessions
    BY DEF TypeOK, Thread, Writer
  <1>2. CASE writer.pc \notin {"inspect", "commit"}
    BY <1>2 DEF WriterFollows
  <1>3. CASE writer.pc \in {"inspect", "commit"} /\ thread'.round = thread.round + 1
    <2>1. writer.round <= thread'.round /\ thread'.round # writer.round
      BY <1>1, <1>3 DEF WriterFollows
    <2>2. writer.snap.round \in {writer.round, writer.round + 1}
      BY <1>3 DEF WriterFollows
    <2>3. QED
      BY <2>1, <2>2 DEF WriterFollows
  <1>4. CASE /\ writer.pc \in {"inspect", "commit"} /\ Same(thread, thread')
             /\ \A s, m : m \in Members /\ <<s, m>> \in windows' => <<s, m>> \in windows
    <2> DEFINE c == writer.snap.crew
    <2>1. /\ thread'.id = thread.id /\ thread'.round = thread.round
          /\ thread'.runHead = thread.runHead /\ Marks(thread') = Marks(thread)
          /\ thread'.results = thread.results
      BY <1>4 DEF Same, Marks
    <2>2. Missing([thread EXCEPT !.crew = c]) = {} => Missing([thread EXCEPT !.crew = c])' = {}
      <3>1. /\ (Missing([thread EXCEPT !.crew = c]) = {})
               <=> (c = 0 \/ \A m \in Members : thread.results[m] # 0 \/ <<c, m>> \notin windows)
        BY <1>1, MissingNone
      <3>2. [thread EXCEPT !.crew = c]'.crew = c /\ [thread EXCEPT !.crew = c]'.results = thread'.results
        BY DEF Thread
      <3>3. (Missing([thread EXCEPT !.crew = c])' = {})
               <=> (c = 0 \/ \A m \in Members : thread'.results[m] # 0 \/ <<c, m>> \notin windows')
        BY <3>2 DEF Missing
      <3>4. QED
        BY <1>4, <2>1, <3>1, <3>3
    <2>3. Marks(writer.snap)' = Marks(writer.snap) /\ Marks(thread)' = Marks(thread)
      BY <2>1 DEF Marks
    <2>4. QED
      BY <1>4, <2>1, <2>2, <2>3 DEF WriterFollows, Counts
  <1>5. QED
    BY <1>2, <1>3, <1>4

\* Nobody has a message in hand where there has been no review.
LEMMA NoRoundNoWriter ==
    ASSUME TypeOK, RoundsAreSound, WriterFollows, thread.round = 0
    PROVE  writer.pc \notin {"inspect", "commit"} /\ thread.sess = 0
  <1>1. writer.round \in Nat
    BY DEF TypeOK, Writer
  <1>2. writer.pc \in {"inspect", "commit"} => writer.round # 0 /\ writer.round <= 0
    BY RoundParts DEF WriterIsSound, WriterFollows
  <1>3. QED
    BY <1>1, <1>2, RoundParts DEF Recorded, Sound

LEMMA HandlersFollow ==
    ASSUME TypeOK, CopiesAreSound, RoundsAreSound, RoundsAdvance, LaunchesOnce,
           NEW h \in Handlers, HandlerStep(h), ~StopSet(h), ~Reopen(h)
    PROVE  RoundsAdvance'
  <1>1. PICK r \in Hand : hand' = [hand EXCEPT ![h] = r] /\ HandMoves(h, r)
    BY HandOfHandler
  <1>2. \A j \in Handlers : hand'[j] = r \/ (j # h /\ hand'[j] = hand[j])
    BY <1>1 DEF TypeOK
  <1>3. /\ DiskFollows /\ WriterFollows /\ \A j \in Handlers : HandFollows(hand[j], thread)
        /\ \A j \in Handlers : hand[j] \in Hand
        /\ thread \in Thread /\ thread.round \in Nat
        /\ hand[h].snap.round \in Nat
    BY AdvanceParts DEF TypeOK, Thread, Hand
  <1>4. writer' = writer /\ (windows' \subseteq windows \/ LaunchReview(h))
    BY RestOfHandler
  <1>5. Left \/ Amended(h) \/ OpensRound(h) \/ Launches(h)
    BY RecordOfHandler DEF Replaces
  <1>6. LaunchReview(h) => thread.round = 0
    BY DEF LaunchesOnce
  <1>7. thread' \in Thread
    BY <1>3, <1>5 DEF Left, Amended, OpensRound, Launches
  <1>8. \/ Same(thread, thread')
        \/ thread'.round = thread.round + 1
    <2>1. Left => Same(thread, thread')
      BY DEF Left, Same, Marks
    <2>2. Launches(h) => thread'.round = thread.round + 1
      BY <1>3, <1>6 DEF Launches
    <2>3. QED
      BY <1>5, <2>1, <2>2 DEF Amended, OpensRound
  <1>9. HandFollows(r, thread')
    <2>1. CASE r.pc \in {"idle", "new", "gone", "progress", "stop", "attach"}
      BY <2>1 DEF HandFollows
    <2>2. CASE r.pc = "route" /\ r.snap = thread /\ thread' = thread
      BY <1>3, <2>2 DEF HandFollows
    <2>3. CASE /\ r.pc = "live" /\ hand[h].pc \in {"route", "live"}
               /\ r.snap = hand[h].snap /\ thread' = thread
      BY <1>3, <2>3 DEF HandFollows
    <2>4. CASE /\ r.pc = "continue" /\ hand[h].pc = "live" /\ thread' = thread
               /\ r.moved => /\ r.snap.round = hand[h].snap.round + 1
                             /\ r.snap.runHead = head /\ head # hand[h].snap.runHead
      <3>1. /\ hand[h].snap.round <= thread.round
            /\ hand[h].snap.round = thread.round => hand[h].snap.runHead = thread.runHead
        BY <1>3, <2>4 DEF HandFollows
      <3>2. r.moved => r.snap.round <= thread.round + 1
        BY <1>3, <2>4, <3>1
      <3>3. r.moved /\ r.snap.round = thread.round + 1 => r.snap.runHead # thread.runHead
        BY <1>3, <2>4, <3>1
      <3>4. QED
        BY <2>4, <3>2, <3>3 DEF HandFollows
    <2>5. QED
      BY <1>1, <2>1, <2>2, <2>3, <2>4 DEF HandMoves
  <1>10. \A j \in Handlers : HandFollows(hand[j], thread')
    BY <1>3, <1>7, <1>8, HandStillFollows DEF Same
  <1>11. \A j \in Handlers : HandFollows(hand'[j], thread')
    BY <1>2, <1>9, <1>10
  <1>12. DiskFollows'
    <2>1. CASE Launches(h)
      <3>1. thread.round = 0 /\ thread.sess = 0
        BY <1>3, <1>6, <2>1, NoRoundNoWriter DEF Launches
      <3>2. disk.round = 0
        BY <1>3, <3>1 DEF DiskFollows
      <3>3. QED
        BY <2>1, <3>2 DEF Launches, DiskFollows
    <2>2. CASE Left
      BY <1>3, <2>2 DEF Left, DiskFollows
    <2>3. CASE Amended(h) \/ OpensRound(h)
      BY <2>3 DEF Amended, OpensRound, DiskFollows
    <2>4. QED
      BY <1>5, <2>1, <2>2, <2>3
  <1>13. WriterFollows'
    <2>1. CASE LaunchReview(h)
      <3>1. writer.pc \notin {"inspect", "commit"}
        BY <1>3, <1>6, <2>1, NoRoundNoWriter
      <3>2. QED
        BY <1>4, <3>1 DEF WriterFollows
    <2>2. CASE windows' \subseteq windows
      BY <1>3, <1>4, <1>7, <1>8, <2>2, WriterStillFollows
    <2>3. QED
      BY <1>4, <2>1, <2>2
  <1>14. QED
    BY <1>11, <1>12, <1>13, AdvanceParts

LEMMA CommitFollows ==
    ASSUME TypeOK, CopiesAreSound, RoundsAreSound, RoundsAdvance, Commit
    PROVE  RoundsAdvance'
  <1>1. /\ writer.pc = "commit" /\ writer'.pc \in {"idle", "collect"} /\ (Left \/ Records)
        /\ hand' = hand
    BY WriterRecordsIt DEF Commit
  <1>2. WriterFollows'
    BY <1>1 DEF WriterFollows
  <1>3. /\ DiskFollows /\ \A j \in Handlers : HandFollows(hand[j], thread)
        /\ \A j \in Handlers : hand[j] \in Hand
        /\ thread \in Thread
    BY AdvanceParts DEF TypeOK
  <1>4. CASE Left
    <2>1. DiskFollows'
      BY <1>3, <1>4 DEF Left, DiskFollows
    <2>2. QED
      BY <1>1, <1>2, <1>3, <1>4, <2>1, AdvanceParts DEF Left
  <1>5. CASE Records
    <2>1. thread.round = writer.snap.round => thread'.round = thread.round /\ thread'.runHead = thread.runHead
      <3>1. thread.round = writer.round => thread.id = writer.id
        BY <1>1, AdvanceParts DEF WriterFollows
      <3>2. thread.id = writer.id /\ writer.snap.round = writer.round
               => writer.snap.runHead = thread.runHead
        BY <1>1, RoundParts DEF WriterIsSound
      <3>3. QED
        BY <1>5, <3>1, <3>2 DEF Records
    <2>2. /\ thread.round # writer.snap.round => thread'.round = thread.round + 1
          /\ thread' \in Thread /\ disk' = thread'
      BY <1>5 DEF Records
    <2>3. \A j \in Handlers : HandFollows(hand[j], thread')
      BY <1>3, <2>1, <2>2, HandStillFollows
    <2>4. DiskFollows'
      BY <2>2 DEF DiskFollows
    <2>5. QED
      BY <1>1, <1>2, <2>3, <2>4, AdvanceParts
  <1>6. QED
    BY <1>1, <1>4, <1>5

LEMMA InspectFollows ==
    ASSUME TypeOK, RoundsAreSound, WriterFollows, Inspect
    PROVE  WriterFollows'
  <1> DEFINE t == Reconciled(writer.snap)
  <1>1. Inspects /\ thread' = thread /\ windows' = windows
    BY WriterInspects DEF Inspect, outside
  <1>2. /\ writer.snap \in Thread /\ writer.snap.round \in Nat /\ thread \in Thread
    BY DEF TypeOK, Writer, Thread
  <1>3. /\ t \in Thread /\ t.crew = writer.snap.crew
        /\ Moved(writer.snap, head) => t.round = writer.snap.round + 1 /\ t.runHead = head
        /\ ~Moved(writer.snap, head) => t.round = writer.snap.round /\ t.results = writer.snap.results
    BY <1>2, ReconciledTyped
  <1>4. /\ writer'.id = writer.id /\ writer'.round = writer.round /\ writer'.pc = "commit"
        /\ writer'.snap.round = t.round /\ writer'.snap.runHead = t.runHead
        /\ writer'.snap.crew = t.crew /\ writer'.agent = writer.agent
        /\ Counts' => ~Stale(writer.snap, writer.sha) /\ (writer.agent = Driver => Missing(t) = {})
        /\ writer.pc = "inspect"
    BY <1>1 DEF Inspects
  <1> HIDE DEF t
  <1>5. /\ writer.snap.round = writer.round /\ writer.round <= thread.round
        /\ thread.id = writer.id => writer.snap.runHead = thread.runHead
        /\ thread.round = writer.round =>
              thread.id = writer.id /\ Marks(writer.snap) = Marks(thread)
    BY <1>4, RoundParts DEF WriterIsSound, WriterFollows
  <1>6. t.round \in {writer.round, writer.round + 1}
    BY <1>3, <1>5
  <1>7. ASSUME thread.round = writer.round
        PROVE  /\ thread.id = writer.id
               /\ t.round # writer.round => t.runHead # thread.runHead
               /\ Counts' /\ writer.agent = Driver => Missing([thread EXCEPT !.crew = t.crew]) = {}
    <2>1. thread.id = writer.id /\ writer.snap.runHead = thread.runHead
      BY <1>5, <1>7
    <2>2. t.round # writer.round => t.runHead # thread.runHead
      BY <1>3, <1>5, <2>1 DEF Moved
    <2>3. ASSUME Counts', writer.agent = Driver
          PROVE  Missing([thread EXCEPT !.crew = t.crew]) = {}
      <3>1. ~Moved(writer.snap, head) /\ Missing(t) = {}
        BY <1>4, <2>3 DEF Stale
      <3>2. t.results = thread.results
        BY <1>3, <1>5, <1>7, <3>1 DEF Marks
      <3>3. /\ [thread EXCEPT !.crew = t.crew].crew = t.crew
            /\ [thread EXCEPT !.crew = t.crew].results = thread.results
        BY <1>2 DEF Thread
      <3>4. QED
        BY <3>1, <3>2, <3>3 DEF Missing
    <2>4. QED
      BY <2>1, <2>2, <2>3
  <1>8. Missing([thread EXCEPT !.crew = t.crew]) = {}
           => Missing([thread EXCEPT !.crew = writer.snap.crew])' = {}
    <2>1. t.crew = writer'.snap.crew
      BY <1>4
    <2>2. QED
      BY <1>1, <2>1 DEF Missing
  <1>9. QED
    BY <1>1, <1>4, <1>5, <1>6, <1>7, <1>8 DEF WriterFollows

LEMMA RoundsStillAdvance ==
    ASSUME TypeOK, CopiesAreSound, RoundsAreSound, RoundsAdvance, [Next]_vars,
           (KeepsRecord /\ LaunchesOnce) \/ UNCHANGED vars
    PROVE  RoundsAdvance'
  <1>1. /\ DiskFollows /\ WriterFollows /\ \A j \in Handlers : HandFollows(hand[j], thread)
        /\ thread \in Thread
    BY AdvanceParts DEF TypeOK
  <1>2. UNCHANGED <<hand, thread>> => \A j \in Handlers : HandFollows(hand'[j], thread')
    BY <1>1
  <1>3. UNCHANGED <<disk, thread>> => DiskFollows'
    BY <1>1 DEF DiskFollows
  <1>4. ASSUME UNCHANGED <<writer, thread>>,
               \A s, m : m \in Members /\ <<s, m>> \in windows' => <<s, m>> \in windows
        PROVE  WriterFollows'
    <2>1. Same(thread, thread') /\ thread' \in Thread
      BY <1>1, <1>4 DEF Same, Marks
    <2>2. QED
      BY <1>1, <1>4, <2>1, WriterStillFollows
  <1>5. writer'.pc \notin {"inspect", "commit"} => WriterFollows'
    BY DEF WriterFollows
  <1>6. IdleWriter.pc = "idle" /\ IdleHand.pc = "idle"
    BY DEF IdleWriter, IdleHand
  <1>7. CASE KeepsRecord /\ LaunchesOnce /\ \E h \in Handlers : HandlerStep(h)
    BY <1>7, HandlersFollow DEF KeepsRecord
  <1>8. CASE Admit \/ AdmitDone
    <2>1. Admits /\ UNCHANGED <<thread, disk, hand>>
      BY <1>8, WriterAdmits DEF Admit, AdmitDone
    <2>2. thread.round # 0 /\ Copy = thread
      BY <2>1, CopyTyped, RoundParts DEF Admits, Sound, Recorded
    <2>3. thread.round \in Nat
      BY <1>1 DEF Thread
    <2>4. ~(writer'.pc = "commit" /\ Counts')
      BY <2>1 DEF Admits, Counts
    <2>5. WriterFollows'
      BY <2>1, <2>2, <2>3, <2>4 DEF Admits, WriterFollows, Marks
    <2>6. QED
      BY <1>2, <1>3, <2>1, <2>5, AdvanceParts
  <1>9. CASE Inspect
    <2>1. UNCHANGED <<thread, disk, hand>>
      BY <1>9 DEF Inspect
    <2>2. QED
      BY <1>1, <1>2, <1>3, <1>9, <2>1, InspectFollows, AdvanceParts
  <1>10. CASE Commit
    BY <1>10, CommitFollows
  <1>11. CASE Turned \/ CommitFails \/ Collect
    <2>1. writer'.pc = "idle" /\ UNCHANGED <<thread, disk, hand>>
      BY <1>6, <1>11 DEF Turned, CommitFails, Collect
    <2>2. QED
      BY <1>2, <1>3, <1>5, <2>1, AdvanceParts
  <1>12. CASE LinkTake \/ LinkRejected \/ MoveHead \/ CloseWindow \/ UNCHANGED vars
    <2>1. UNCHANGED <<thread, disk, hand, writer>>
      BY <1>12 DEF LinkTake, LinkRejected, MoveHead, CloseWindow, vars, actors
    <2>2. \A s, m : m \in Members /\ <<s, m>> \in windows' => <<s, m>> \in windows
      <3>1. CASE LinkTake
        BY <3>1, LinkTakes
      <3>2. CASE LinkRejected \/ MoveHead \/ CloseWindow \/ UNCHANGED vars
        BY <3>2 DEF LinkRejected, MoveHead, CloseWindow, vars, outside
      <3>3. QED
        BY <1>12, <3>1, <3>2
    <2>3. QED
      BY <1>2, <1>3, <1>4, <2>1, <2>2, AdvanceParts
  <1>13. CASE SaveState
    <2>1. thread' = thread /\ disk' = thread /\ UNCHANGED <<hand, writer, windows>>
      BY <1>13 DEF SaveState, actors, outside
    <2>2. DiskFollows'
      BY <2>1 DEF DiskFollows
    <2>3. QED
      BY <1>2, <1>4, <2>1, <2>2, AdvanceParts
  <1>14. CASE Crash
    <2>1. /\ thread' = disk /\ disk' = disk /\ hand' = [h \in Handlers |-> IdleHand]
          /\ writer' = IdleWriter
      BY <1>14 DEF Crash
    <2>2. DiskFollows'
      BY <2>1 DEF DiskFollows
    <2>3. \A j \in Handlers : HandFollows(hand'[j], thread')
      BY <1>6, <2>1 DEF HandFollows
    <2>4. QED
      BY <1>5, <1>6, <2>1, <2>2, <2>3, AdvanceParts
  <1>15. CASE LinkSet \/ \E h \in Handlers : HandlerStep(h)
    <2>1. CASE UNCHANGED vars
      BY <1>12, <2>1
    <2>2. CASE KeepsRecord /\ LaunchesOnce
      BY <1>7, <1>15, <2>2 DEF KeepsRecord
    <2>3. QED
      BY <2>1, <2>2
  <1>16. QED
    BY <1>8, <1>9, <1>10, <1>11, <1>12, <1>13, <1>14, <1>15 DEF Next, WriterStep

LEMMA RoundsAdvanceInitially ==
    ASSUME Init
    PROVE  RoundsAdvance
  <1>1. IdleWriter.pc = "idle" /\ IdleHand.pc = "idle"
    BY DEF IdleWriter, IdleHand
  <1>2. QED
    BY <1>1 DEF Init, RoundsAdvance, HandsFollow, WriterFollows

IInv == TypeOK /\ CopiesAreSound /\ RoundsAreSound /\ RoundsAdvance

\* The ways a step changes the record.
LEMMA RecordSteps ==
    ASSUME IInv, [Next]_vars, (KeepsRecord /\ LaunchesOnce) \/ UNCHANGED vars
    PROVE  \/ thread' = thread
           \/ Records /\ writer.pc = "commit" /\ WriterRecords
           \/ /\ writer' = writer
              /\ \E h \in Handlers : Amended(h) \/ OpensRound(h) \/ (Launches(h) /\ thread.round = 0)
           \/ /\ thread' = disk /\ disk.round = 0 /\ thread.sess # 0
              /\ mishaps' # mishaps
  <1>1. TypeOK /\ CopiesAreSound /\ RoundsAreSound /\ DiskFollows /\ mishaps \in Nat
    BY AdvanceParts DEF IInv, TypeOK
  <1>2. CASE UNCHANGED vars
    BY <1>2 DEF vars
  <1>3. ASSUME KeepsRecord, LaunchesOnce, NEW h \in Handlers, HandlerStep(h)
        PROVE  /\ writer' = writer
               /\ Left \/ Amended(h) \/ OpensRound(h) \/ (Launches(h) /\ thread.round = 0)
    <2>1. Left \/ Amended(h) \/ OpensRound(h) \/ Launches(h)
      BY <1>1, <1>3, RecordOfHandler DEF KeepsRecord, Replaces
    <2>2. Launches(h) => thread.round = 0
      BY <1>3 DEF Launches, LaunchesOnce
    <2>3. writer' = writer
      BY <1>1, <1>3, RestOfHandler
    <2>4. QED
      BY <2>1, <2>2, <2>3
  <1>4. CASE Commit
    <2>1. writer.pc = "commit" /\ writer'.pc \in {"idle", "collect"} /\ (Left \/ Records)
      BY <1>1, <1>4, WriterRecordsIt
    <2>2. mishaps' = mishaps /\ writer' # writer
      BY <1>4, <2>1 DEF Commit
    <2>3. QED
      BY <2>1, <2>2 DEF Left, WriterRecords
  <1>5. CASE Crash
    <2>1. thread' = disk /\ mishaps' # mishaps
      BY <1>1, <1>5 DEF Crash, Mishap
    <2>2. QED
      BY <1>1, <2>1 DEF DiskFollows
  <1>6. CASE Admit \/ AdmitDone \/ Inspect \/ Turned \/ CommitFails \/ Collect
               \/ LinkTake \/ LinkRejected \/ MoveHead \/ CloseWindow \/ SaveState
    BY <1>6 DEF Admit, AdmitDone, Inspect, Turned, CommitFails, Collect, LinkTake,
                LinkRejected, MoveHead, CloseWindow, SaveState
  <1>7. CASE KeepsRecord /\ LaunchesOnce /\ ~UNCHANGED vars
    <2>1. ~LinkSet
      BY <1>7 DEF KeepsRecord
    <2>2. QED
      BY <1>3, <1>4, <1>5, <1>6, <1>7, <2>1 DEF Next, WriterStep, Left
  <1>8. QED
    BY <1>2, <1>7

(***************************************************************************)
(* Copies stay behind the record: no handler holds a round the record has  *)
(* not reached, the writer's is the one of its admission or the next, and  *)
(* the state file holds the record as it is, or as it was before launch.   *)
(***************************************************************************)
THEOREM RoundsOfOneReview == Spec /\ RecordIsKept /\ LaunchedOnce => []IInv
  <1>1. Init => IInv
    BY TypesHoldInitially, RoundsSoundInitially, RoundsAdvanceInitially DEF IInv
  <1>2. IInv /\ [Next]_vars /\ [KeepsRecord]_vars /\ [LaunchesOnce]_vars => IInv'
    BY TypesAreKept, CopiesAreKept, RoundsStaySound, RoundsStillAdvance DEF IInv
  <1>3. QED
    BY <1>1, <1>2, PTL DEF Spec, RecordIsKept, LaunchedOnce

(***************************************************************************)
(* The joint verdict is recorded only when no attached member with a       *)
(* window still owes its result: acceptable decides that before the        *)
(* delivery, and recordPost writes it after, in the same round.            *)
(***************************************************************************)
THEOREM JointVerdictIsComplete == Spec /\ RecordIsKept /\ LaunchedOnce => JointIsComplete
  <1> DEFINE Act == (thread'.joint # 0 /\ thread.joint = 0)
                    => Missing([thread EXCEPT !.crew = writer.snap.crew]) = {}
  <1>1. IInv /\ [Next]_vars /\ [KeepsRecord]_vars /\ [LaunchesOnce]_vars => [Act]_vars
    <2> SUFFICES ASSUME IInv, [Next]_vars, (KeepsRecord /\ LaunchesOnce) \/ UNCHANGED vars,
                        thread'.joint # 0, thread.joint = 0
                 PROVE  Missing([thread EXCEPT !.crew = writer.snap.crew]) = {}
      OBVIOUS
    <2>1. CASE Records /\ writer.pc = "commit"
      <3>1. thread.round = writer.round /\ Counts /\ writer.agent = Driver
        BY <2>1 DEF Records
      <3>2. QED
        BY <2>1, <3>1, AdvanceParts DEF IInv, WriterFollows
    <2>2. ASSUME NEW h \in Handlers, Amended(h) \/ OpensRound(h) \/ Launches(h)
          PROVE  FALSE
      <3>1. Amended(h) => thread'.joint = thread.joint
        BY DEF Amended, Same, Marks
      <3>2. OpensRound(h) \/ Launches(h) => thread'.joint = 0
        BY BlankCountsNothing DEF OpensRound, Launches, Blank
      <3>3. QED
        BY <2>2, <3>1, <3>2
    <2>3. CASE thread' = disk /\ disk.round = 0
      <3>1. Marks(disk) = Marks(Unknown)
        BY <2>3 DEF IInv, TypeOK
      <3>2. QED
        BY <2>3, <3>1, BlankCountsNothing
    <2>4. QED
      BY <2>1, <2>2, <2>3, RecordSteps
  <1>2. QED
    BY RoundsOfOneReview, <1>1, PTL DEF Spec, RecordIsKept, LaunchedOnce, JointIsComplete

(***************************************************************************)
(* A message changes a round only while it is the one the message was      *)
(* admitted in, and nothing else changes the marks of a round.             *)
(***************************************************************************)
THEOREM TransitionsLandInTheirRound ==
    Spec /\ RecordIsKept /\ LaunchedOnce => TransitionLandsInItsRound
  <1> DEFINE Act == /\ (WriterRecords /\ Changed) => thread.id = writer.id
                    /\ (Changed /\ thread'.id = thread.id) => WriterRecords
  <1>1. IInv /\ [Next]_vars /\ [KeepsRecord]_vars /\ [LaunchesOnce]_vars => [Act]_vars
    <2> SUFFICES ASSUME IInv, [Next]_vars, (KeepsRecord /\ LaunchesOnce) \/ UNCHANGED vars
                 PROVE  Act
      OBVIOUS
    <2>1. CASE thread' = thread
      BY <2>1 DEF Changed, Marks
    <2>2. CASE Records /\ writer.pc = "commit" /\ WriterRecords
      <3>1. thread.round = writer.round
        BY <2>2 DEF Records
      <3>2. QED
        BY <2>2, <3>1, AdvanceParts DEF IInv, WriterFollows
    <2>3. ASSUME writer' = writer, NEW h \in Handlers, Amended(h) \/ OpensRound(h) \/ Launches(h)
          PROVE  Act
      <3>1. ~WriterRecords
        BY <2>3 DEF WriterRecords
      <3>2. Amended(h) => ~Changed
        BY DEF Amended, Same, Changed
      <3>3. OpensRound(h) \/ Launches(h) => thread'.id = runs + 1
        BY DEF OpensRound, Launches, Blank
      <3>4. thread.id # runs + 1
        BY RoundParts DEF IInv, Recorded, Sound, TypeOK, Thread
      <3>5. QED
        BY <2>3, <3>1, <3>2, <3>3, <3>4
    <2>4. CASE thread' = disk /\ mishaps' # mishaps
      <3>1. ~WriterRecords
        BY <2>4 DEF WriterRecords
      <3>2. thread'.id = thread.id => Marks(thread') = Marks(thread)
        BY <2>4, RoundParts DEF IInv, Recorded
      <3>3. QED
        BY <3>1, <3>2 DEF Changed
    <2>5. QED
      BY <2>1, <2>2, <2>3, <2>4, RecordSteps
  <1>2. QED
    BY RoundsOfOneReview, <1>1, PTL DEF Spec, RecordIsKept, LaunchedOnce, TransitionLandsInItsRound

(***************************************************************************)
(* A round is voided only for a revision it is not of, though handlers and *)
(* the writer each decide that on a copy of their own.                     *)
(***************************************************************************)
THEOREM RoundsOpenForNewHeads ==
    Spec /\ RecordIsKept /\ LaunchedOnce => RoundOpensForNewHead
  <1> DEFINE Act == (thread'.sess = thread.sess /\ thread'.id # thread.id /\ thread.round # 0)
                    => thread'.runHead # thread.runHead
  <1>1. IInv /\ [Next]_vars /\ [KeepsRecord]_vars /\ [LaunchesOnce]_vars => [Act]_vars
    <2> SUFFICES ASSUME IInv, [Next]_vars, (KeepsRecord /\ LaunchesOnce) \/ UNCHANGED vars,
                        thread'.sess = thread.sess, thread'.id # thread.id, thread.round # 0
                 PROVE  thread'.runHead # thread.runHead
      OBVIOUS
    <2>1. CASE Records /\ writer.pc = "commit"
      <3>1. thread.round = writer.round /\ thread.round # writer.snap.round
        BY <2>1 DEF Records
      <3>2. writer.snap.runHead # thread.runHead
        BY <2>1, <3>1, AdvanceParts DEF IInv, WriterFollows
      <3>3. QED
        BY <2>1, <3>2 DEF Records
    <2>2. ASSUME NEW h \in Handlers, Amended(h) \/ OpensRound(h)
          PROVE  thread'.runHead # thread.runHead
      <3>1. OpensRound(h)
        BY <2>2 DEF Amended, Same
      <3>2. thread.round \in Nat /\ hand[h].snap.round \in Nat
        BY DEF IInv, TypeOK, Thread, Hand
      <3>3. HandFollows(hand[h], thread)
        BY AdvanceParts DEF IInv
      <3>4. hand[h].snap.round = thread.round + 1
        BY <3>1, <3>2, <3>3 DEF OpensRound, HandFollows
      <3>5. QED
        BY <3>1, <3>3, <3>4 DEF OpensRound, HandFollows
    <2>3. CASE thread' = disk /\ disk.round = 0 /\ thread.sess # 0
      <3>1. disk.sess = 0
        BY <2>3, RoundParts DEF IInv, Recorded, Sound
      <3>2. QED
        BY <2>3, <3>1
    <2>4. QED
      BY <2>1, <2>2, <2>3, RecordSteps
  <1>2. QED
    BY RoundsOfOneReview, <1>1, PTL DEF Spec, RecordIsKept, LaunchedOnce, RoundOpensForNewHead

=============================================================================
