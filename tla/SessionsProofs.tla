--------------------------- MODULE SessionsProofs ---------------------------
(***************************************************************************)
(* Theorems about Sessions: its types, what the hooks count however they   *)
(* overlap, the timeline of hooks that do not, and the report of a session *)
(* that was closed.                                                        *)
(*                                                                         *)
(* The timeline is compared with a log of the events. The first lemmas are *)
(* about such logs alone: what one more event does to each thing the       *)
(* reference counts in them, and that Advance does the same to the record. *)
(***************************************************************************)
EXTENDS Sessions, FiniteSetTheorems, TLAPS

-----------------------------------------------------------------------------
(* Logs: the operators of the properties, for any log *)

Entries == [event : Events, at : Times]

OfLog(l, es) == {i \in DOMAIN l : l[i].event \in es}
BeginsOf(l) == {i \in OfLog(l, {"dialog"}) : i = 1 \/ l[i - 1].event # "dialog"}
NoticedOf(l) == \E i \in OfLog(l, {"dialog"}) : i > 1 /\ l[i - 1].event = "dialog"
LastOf(l, t) == {i \in DOMAIN l : l[i].at <= t /\ \A j \in DOMAIN l : l[j].at <= t => j <= i}
InDialogOf(l, t) == \E i \in LastOf(l, t) : l[i].event = "dialog"
TimesOf(l) == {t \in 1..(l[Len(l)].at - 1) : InDialogOf(l, t)}

\* The record r is what the events of l add up to.
Exact(l, r) ==
    /\ r.state = StateOf(l[Len(l)].event) /\ r.at = l[Len(l)].at
    /\ \A i \in DOMAIN l : l[i].at \in 1..r.at
    /\ r.turns = Cardinality(OfLog(l, {"prompt"})) /\ r.count = Cardinality(BeginsOf(l))
    /\ r.started = l[1].at
    /\ OfLog(l, {"tool"}) = {} => r.first = 0
    /\ OfLog(l, {"tool"}) # {} =>
          \E i \in OfLog(l, {"tool"}) : r.first = l[i].at /\ \A j \in OfLog(l, {"tool"}) : i <= j
    /\ r.blocked \in 0..Cardinality(TimesOf(l))
    /\ ~NoticedOf(l) => r.blocked = Cardinality(TimesOf(l))

\* What is counted in a log is finite.
LEMMA CountIsNat ==
    ASSUME NEW l \in Seq(Entries), NEW S \in SUBSET DOMAIN l
    PROVE  IsFiniteSet(S) /\ Cardinality(S) \in Nat
  <1>1. IsFiniteSet(1..Len(l)) /\ DOMAIN l = 1..Len(l)
    BY FS_Interval
  <1>2. IsFiniteSet(S)
    BY <1>1, FS_Subset
  <1>3. QED
    BY <1>2, FS_CardinalityType

\* One more entry leaves the others as they are.
LEMMA OneMore ==
    ASSUME NEW l \in Seq(Entries), NEW x \in Entries
    PROVE  /\ Append(l, x) \in Seq(Entries) /\ Append(l, x) # <<>>
           /\ Len(l) \in Nat /\ Len(Append(l, x)) = Len(l) + 1
           /\ DOMAIN l = 1..Len(l) /\ DOMAIN Append(l, x) = 1..(Len(l) + 1)
           /\ \A i \in 1..Len(l) : Append(l, x)[i] = l[i] /\ l[i] \in Entries
           /\ Append(l, x)[Len(l) + 1] = x
  OBVIOUS

LEMMA OfOneMore ==
    ASSUME NEW l \in Seq(Entries), NEW x \in Entries, NEW es
    PROVE  /\ OfLog(Append(l, x), es) =
                 OfLog(l, es) \cup (IF x.event \in es THEN {Len(l) + 1} ELSE {})
           /\ Cardinality(OfLog(l, es)) \in Nat
           /\ Cardinality(OfLog(Append(l, x), es)) =
                 Cardinality(OfLog(l, es)) + (IF x.event \in es THEN 1 ELSE 0)
  <1>1. OfLog(Append(l, x), es) = OfLog(l, es) \cup (IF x.event \in es THEN {Len(l) + 1} ELSE {})
    BY OneMore DEF OfLog
  <1>2. IsFiniteSet(OfLog(l, es)) /\ Cardinality(OfLog(l, es)) \in Nat
    BY CountIsNat DEF OfLog
  <1>3. Len(l) + 1 \notin OfLog(l, es)
    BY DEF OfLog
  <1>4. CASE x.event \in es
    BY <1>1, <1>2, <1>3, <1>4, FS_AddElement
  <1>5. CASE x.event \notin es
    <2>1. OfLog(Append(l, x), es) = OfLog(l, es)
      BY <1>1, <1>5
    <2>2. QED
      BY <1>1, <1>2, <1>5, <2>1
  <1>6. QED
    BY <1>4, <1>5

\* A notice begins a dialog unless one precedes it.
LEMMA BeginsOneMore ==
    ASSUME NEW l \in Seq(Entries), NEW x \in Entries, l # <<>>
    PROVE  /\ Cardinality(BeginsOf(l)) \in Nat
           /\ Cardinality(BeginsOf(Append(l, x))) = Cardinality(BeginsOf(l)) +
                 (IF x.event = "dialog" /\ l[Len(l)].event # "dialog" THEN 1 ELSE 0)
           /\ NoticedOf(Append(l, x)) <=>
                 NoticedOf(l) \/ (x.event = "dialog" /\ l[Len(l)].event = "dialog")
  <1> DEFINE m == Append(l, x)
             n == Len(l)
             Begun == x.event = "dialog" /\ l[n].event # "dialog"
  <1>1. n \in Nat \ {0} /\ Len(m) = n + 1 /\ DOMAIN l = 1..n /\ DOMAIN m = 1..(n + 1)
        /\ m[n + 1] = x /\ \A i \in 1..n : m[i] = l[i]
    BY OneMore
  <1>2. BeginsOf(l) = {i \in 1..n : l[i].event = "dialog" /\ (i = 1 \/ l[i - 1].event # "dialog")}
    BY <1>1 DEF BeginsOf, OfLog
  <1>3. BeginsOf(m) =
           {i \in 1..(n + 1) : m[i].event = "dialog" /\ (i = 1 \/ m[i - 1].event # "dialog")}
    BY <1>1 DEF BeginsOf, OfLog
  <1>4. \A i \in 1..n : i # 1 => m[i - 1] = l[i - 1]
    BY <1>1
  <1>5. m[(n + 1) - 1] = l[n] /\ n + 1 # 1
    <2>1. (n + 1) - 1 = n /\ n \in 1..n /\ n + 1 # 1
      BY <1>1
    <2>2. m[n] = l[n]
      BY <1>1, <2>1
    <2>3. QED
      BY <2>1, <2>2
  <1>6. \A i \in 1..n : i \in BeginsOf(m) <=> i \in BeginsOf(l)
    BY <1>1, <1>2, <1>3, <1>4
  <1>7. n + 1 \in BeginsOf(m) <=> Begun
    <2>1. n + 1 \in 1..(n + 1) /\ m[n + 1] = x
      BY <1>1
    <2>2. n + 1 \in BeginsOf(m) <=>
             x.event = "dialog" /\ (n + 1 = 1 \/ m[(n + 1) - 1].event # "dialog")
      BY <1>3, <2>1
    <2>3. QED
      BY <1>5, <2>2
  <1>8. IsFiniteSet(BeginsOf(l)) /\ Cardinality(BeginsOf(l)) \in Nat /\ n + 1 \notin BeginsOf(l)
    BY <1>1, <1>2, CountIsNat
  <1>9. Cardinality(BeginsOf(m)) = Cardinality(BeginsOf(l)) + (IF Begun THEN 1 ELSE 0)
    <2>1. CASE Begun
      <3>1. BeginsOf(m) = BeginsOf(l) \cup {n + 1}
        BY <1>1, <1>2, <1>3, <1>6, <1>7, <2>1
      <3>2. QED
        BY <1>8, <2>1, <3>1, FS_AddElement
    <2>2. CASE ~Begun
      <3>1. BeginsOf(m) = BeginsOf(l)
        BY <1>1, <1>2, <1>3, <1>6, <1>7, <2>2
      <3>2. QED
        BY <1>8, <2>2, <3>1
    <2>3. QED
      BY <2>1, <2>2
  <1>10. NoticedOf(m) <=> NoticedOf(l) \/ (x.event = "dialog" /\ l[n].event = "dialog")
    <2>1. NoticedOf(l) <=> \E i \in 1..n : i > 1 /\ l[i].event = "dialog" /\ l[i - 1].event = "dialog"
      BY <1>1 DEF NoticedOf, OfLog
    <2>2. NoticedOf(m) <=>
             \E i \in 1..(n + 1) : i > 1 /\ m[i].event = "dialog" /\ m[i - 1].event = "dialog"
      BY <1>1 DEF NoticedOf, OfLog
    <2>3. \A i \in 1..(n + 1) : i \in 1..n \/ i = n + 1
      BY <1>1
    <2>4. ASSUME NoticedOf(m)
          PROVE  NoticedOf(l) \/ (x.event = "dialog" /\ l[n].event = "dialog")
      <3>1. PICK i \in 1..(n + 1) : i > 1 /\ m[i].event = "dialog" /\ m[i - 1].event = "dialog"
        BY <2>2, <2>4
      <3>2. CASE i \in 1..n
        BY <1>1, <1>4, <2>1, <3>1, <3>2
      <3>3. CASE i = n + 1
        BY <1>1, <1>5, <3>1, <3>3
      <3>4. QED
        BY <2>3, <3>2, <3>3
    <2>5. ASSUME NoticedOf(l)
          PROVE  NoticedOf(m)
      <3>1. PICK i \in 1..n : i > 1 /\ l[i].event = "dialog" /\ l[i - 1].event = "dialog"
        BY <2>1, <2>5
      <3>2. i \in 1..(n + 1) /\ m[i] = l[i] /\ m[i - 1] = l[i - 1]
        BY <1>1, <1>4, <3>1
      <3>3. QED
        BY <2>2, <3>1, <3>2
    <2>6. ASSUME x.event = "dialog", l[n].event = "dialog"
          PROVE  NoticedOf(m)
      <3>1. n + 1 \in 1..(n + 1) /\ n + 1 > 1 /\ m[n + 1] = x
        BY <1>1
      <3>2. QED
        BY <1>5, <2>2, <2>6, <3>1
    <2>7. QED
      BY <2>4, <2>5, <2>6
  <1>11. QED
    BY <1>8, <1>9, <1>10

\* The time from the last event to the next is in a dialog when that event is a
\* notice; the time before stays what it was.
LEMMA TimesOneMore ==
    ASSUME NEW l \in Seq(Entries), NEW x \in Entries, l # <<>>,
           \A i \in DOMAIN l : l[i].at \in 1..l[Len(l)].at, x.at >= l[Len(l)].at
    PROVE  /\ Cardinality(TimesOf(l)) \in Nat
           /\ Cardinality(TimesOf(Append(l, x))) = Cardinality(TimesOf(l)) +
                 (IF l[Len(l)].event = "dialog" THEN x.at - l[Len(l)].at ELSE 0)
  <1> DEFINE m == Append(l, x)
             n == Len(l)
             a == l[n].at
             b == x.at
  <1>1. n \in Nat \ {0} /\ Len(m) = n + 1 /\ DOMAIN l = 1..n /\ DOMAIN m = 1..(n + 1)
        /\ m[n + 1] = x /\ \A i \in 1..n : m[i] = l[i] /\ l[i] \in Entries
    BY OneMore
  <1>2. /\ a \in Nat \ {0} /\ b \in Nat /\ b >= a
        /\ \A i \in 1..n : l[i].at \in Nat /\ l[i].at <= a
    <2>1. MaxTime \in Nat
      BY SessionsAssumption
    <2>2. x.at \in Nat /\ \A i \in 1..n : l[i].at \in Nat
      BY <1>1, <2>1 DEF Entries, Times
    <2>3. n \in 1..n
      BY <1>1
    <2>4. \A i \in 1..n : l[i].at \in 1..a
      BY <1>1
    <2>5. QED
      BY <2>2, <2>3, <2>4
  <1>3. \A t \in 1..(a - 1) : InDialogOf(m, t) <=> InDialogOf(l, t)
    <2>1. SUFFICES ASSUME NEW t \in 1..(a - 1) PROVE LastOf(m, t) = LastOf(l, t)
      BY <1>1 DEF InDialogOf, LastOf
    <2>2. ~(m[n + 1].at <= t)
      BY <1>1, <1>2
    <2>3. QED
      BY <1>1, <2>2 DEF LastOf
  <1>4. \A t \in a..(b - 1) : InDialogOf(m, t) <=> l[n].event = "dialog"
    <2>1. SUFFICES ASSUME NEW t \in a..(b - 1) PROVE LastOf(m, t) = {n}
      BY <1>1 DEF InDialogOf
    <2>2. ~(m[n + 1].at <= t) /\ \A i \in 1..n : m[i].at <= t
      BY <1>1, <1>2
    <2>3. n \in LastOf(m, t)
      <3>0. n \in 1..n /\ n \in 1..(n + 1)
        BY <1>1
      <3>1. n \in 1..n /\ n \in 1..(n + 1) /\ m[n].at <= t
        BY <2>2, <3>0
      <3>2. \A j \in 1..(n + 1) : m[j].at <= t => j <= n
        BY <1>1, <2>2
      <3>3. QED
        BY <1>1, <3>1, <3>2 DEF LastOf
    <2>4. \A i \in LastOf(m, t) : i = n
      BY <1>1, <2>2 DEF LastOf
    <2>5. QED
      BY <2>3, <2>4
  <1>5. TimesOf(l) = {t \in 1..(a - 1) : InDialogOf(l, t)}
    BY DEF TimesOf
  <1>6. TimesOf(m) = {t \in 1..(b - 1) : InDialogOf(m, t)}
    BY <1>1 DEF TimesOf
  <1>7. IsFiniteSet(TimesOf(l))
    <2>1. IsFiniteSet(1..(a - 1)) /\ TimesOf(l) \subseteq 1..(a - 1)
      <3>1. a - 1 \in Int /\ 1 \in Int
        BY <1>2
      <3>2. QED
        BY <1>5, <3>1, FS_Interval
    <2>2. QED
      BY <2>1, FS_Subset
  <1>8. Cardinality(TimesOf(l)) \in Nat
    BY <1>7, FS_CardinalityType
  <1>9. 1..(b - 1) = 1..(a - 1) \cup a..(b - 1)
    BY <1>2
  <1>10. CASE l[n].event = "dialog"
    <2>1. TimesOf(m) = TimesOf(l) \cup a..(b - 1)
      BY <1>3, <1>4, <1>5, <1>6, <1>9, <1>10
    <2>2. TimesOf(l) \cap a..(b - 1) = {}
      BY <1>2, <1>5
    <2>3. IsFiniteSet(a..(b - 1)) /\ Cardinality(a..(b - 1)) = b - a
      <3>1. a \in Int /\ b - 1 \in Int
        BY <1>2
      <3>2. /\ IsFiniteSet(a..(b - 1))
            /\ Cardinality(a..(b - 1)) = IF a > b - 1 THEN 0 ELSE (b - 1) - a + 1
        BY <3>1, FS_Interval
      <3>3. QED
        BY <1>2, <3>2
    <2>4. Cardinality(TimesOf(m)) = Cardinality(TimesOf(l)) + (b - a) - Cardinality({})
      BY <1>7, <2>1, <2>2, <2>3, FS_Union
    <2>5. QED
      BY <1>2, <1>8, <1>10, <2>4, FS_EmptySet
  <1>11. CASE l[n].event # "dialog"
    <2>1. TimesOf(m) = TimesOf(l)
      BY <1>3, <1>4, <1>5, <1>6, <1>9, <1>11
    <2>2. QED
      BY <1>8, <1>11, <2>1
  <1>12. QED
    BY <1>10, <1>11

-----------------------------------------------------------------------------
(* Advance adds one event to the record *)

LEMMA MaxTimeIsNat == MaxTime \in Nat
  BY SessionsAssumption

LEMMA AdvanceTyped ==
    ASSUME NEW r \in Record, NEW e \in Events, NEW a \in Times, a > 0
    PROVE  /\ Advance(r, e, a) \in Record /\ Advance(r, e, a) # NoRecord
           /\ Advance(r, e, a).started > 0
           /\ (StateOf(e) = "ended") <=> (e = "end")
  <1>1. StateOf(e) \in States \ {"unknown"} /\ ((StateOf(e) = "ended") <=> (e = "end"))
    BY DEF StateOf, States, Events
  <1>2. /\ OrElse(r.started, a) \in Times /\ OrElse(r.started, a) > 0
        /\ OrElse(r.first, IF e = "tool" THEN a ELSE 0) \in Times
    BY MaxTimeIsNat DEF Record, OrElse, Times
  <1>3. Dialogs(r, e) \in Nat /\ Turns(r, e) \in Nat
    BY DEF Dialogs, Turns, Record
  <1>4. (IF r.state = "blocked" /\ StateOf(e) # "blocked"
            THEN r.blocked + (a - r.at) ELSE r.blocked) \in Int
    BY MaxTimeIsNat DEF Record, Times
  <1>5. QED
    BY <1>1, <1>2, <1>3, <1>4 DEF Advance, Record, NoRecord

\* The first event of a session.
LEMMA ExactAtFirst ==
    ASSUME NEW e \in Events, NEW a \in Times, a > 0
    PROVE  Exact(Append(<<>>, [event |-> e, at |-> a]), Advance(NoRecord, e, a))
  <1> DEFINE x == [event |-> e, at |-> a]
             m == Append(<<>>, x)
             r == Advance(NoRecord, e, a)
  <1>1. /\ x \in Entries /\ m = <<x>> /\ Len(m) = 1 /\ DOMAIN m = {1} /\ m[1] = x
        /\ x.event = e /\ x.at = a /\ a \in Nat
    BY MaxTimeIsNat DEF Entries, Times
  <1>2. \A es : OfLog(m, es) = IF e \in es THEN {1} ELSE {}
    BY <1>1 DEF OfLog
  <1>3. BeginsOf(m) = (IF e = "dialog" THEN {1} ELSE {}) /\ ~NoticedOf(m)
    <2>1. OfLog(m, {"dialog"}) = IF e = "dialog" THEN {1} ELSE {}
      BY <1>2
    <2>2. QED
      BY <2>1 DEF BeginsOf, NoticedOf
  <1>4. Cardinality({1}) = 1 /\ Cardinality({}) = 0
    BY FS_Singleton, FS_EmptySet
  <1>5. TimesOf(m) = {}
    <2>1. \A t \in 1..(a - 1) : LastOf(m, t) = {}
      BY <1>1 DEF LastOf
    <2>2. QED
      BY <1>1, <2>1 DEF TimesOf, InDialogOf
  <1>6. /\ r.state = StateOf(e) /\ r.at = a /\ r.started = a /\ r.blocked = 0
        /\ r.first = (IF e = "tool" THEN a ELSE 0)
        /\ r.turns = (IF e = "prompt" THEN 1 ELSE 0) /\ r.count = (IF e = "dialog" THEN 1 ELSE 0)
    BY DEF Advance, NoRecord, OrElse, Dialogs, Turns, StateOf, Events
  <1>7. r.turns = Cardinality(OfLog(m, {"prompt"})) /\ r.count = Cardinality(BeginsOf(m))
    BY <1>2, <1>3, <1>4, <1>6
  <1>8. /\ OfLog(m, {"tool"}) = {} => r.first = 0
        /\ OfLog(m, {"tool"}) # {} =>
              \E i \in OfLog(m, {"tool"}) : r.first = m[i].at /\ \A j \in OfLog(m, {"tool"}) : i <= j
    BY <1>1, <1>2, <1>6
  <1>9. r.blocked \in 0..Cardinality(TimesOf(m)) /\ r.blocked = Cardinality(TimesOf(m))
    BY <1>4, <1>5, <1>6
  <1>10. /\ r.state = StateOf(m[Len(m)].event) /\ r.at = m[Len(m)].at /\ r.started = m[1].at
         /\ \A i \in DOMAIN m : m[i].at \in 1..r.at
    BY <1>1, <1>6
  <1>11. QED
    BY <1>7, <1>8, <1>9, <1>10 DEF Exact

\* Each later one.
LEMMA ExactOneMore ==
    ASSUME NEW l \in Seq(Entries), l # <<>>, NEW r \in Record, Exact(l, r),
           NEW e \in Events, NEW a \in Times, a >= r.at
    PROVE  Exact(Append(l, [event |-> e, at |-> a]), Advance(r, e, a))
  <1> DEFINE x == [event |-> e, at |-> a]
             m == Append(l, x)
             n == Len(l)
             q == Advance(r, e, a)
             last == l[n].event
  <1>1. /\ x \in Entries /\ x.event = e /\ x.at = a /\ a \in Nat
        /\ r.at \in Nat /\ r.blocked \in Int /\ r.count \in Nat /\ r.turns \in Nat
    BY MaxTimeIsNat DEF Entries, Times, Record
  <1>2. n \in Nat \ {0} /\ Len(m) = n + 1 /\ DOMAIN l = 1..n /\ DOMAIN m = 1..(n + 1)
        /\ m[n + 1] = x /\ \A i \in 1..n : m[i] = l[i] /\ l[i] \in Entries
    BY <1>1, OneMore
  <1>3. /\ r.state = StateOf(last) /\ r.at = l[n].at /\ r.started = l[1].at
        /\ \A i \in 1..n : l[i].at \in 1..r.at
    BY <1>2 DEF Exact
  <1>4. 1 \in 1..n /\ n \in 1..n /\ r.at > 0 /\ a > 0
    BY <1>1, <1>2, <1>3
  <1>5. last \in Events
    BY <1>2, <1>4 DEF Entries
  <1>6. (r.state = "blocked" <=> last = "dialog") /\ (StateOf(e) = "blocked" <=> e = "dialog")
    BY <1>3, <1>5 DEF StateOf, Events
  <1>7. r.started > 0 /\ q.started = r.started /\ q.state = StateOf(e) /\ q.at = a
    BY <1>3, <1>4 DEF Advance, OrElse
  <1>8. q.turns = Cardinality(OfLog(m, {"prompt"}))
    <2>1. Cardinality(OfLog(m, {"prompt"})) =
             Cardinality(OfLog(l, {"prompt"})) + (IF e = "prompt" THEN 1 ELSE 0)
      BY <1>1, OfOneMore
    <2>2. r.turns = Cardinality(OfLog(l, {"prompt"}))
      BY DEF Exact
    <2>3. QED
      BY <1>1, <2>1, <2>2 DEF Advance, Turns
  <1>9. q.count = Cardinality(BeginsOf(m))
    <2>1. Cardinality(BeginsOf(m)) = Cardinality(BeginsOf(l)) +
             (IF e = "dialog" /\ last # "dialog" THEN 1 ELSE 0)
      BY <1>1, BeginsOneMore
    <2>2. r.count = Cardinality(BeginsOf(l))
      BY DEF Exact
    <2>3. QED
      BY <1>1, <1>6, <2>1, <2>2 DEF Advance, Dialogs
  <1>10. /\ OfLog(m, {"tool"}) = {} => q.first = 0
         /\ OfLog(m, {"tool"}) # {} =>
              \E i \in OfLog(m, {"tool"}) : q.first = m[i].at /\ \A j \in OfLog(m, {"tool"}) : i <= j
    <2>1. OfLog(m, {"tool"}) = OfLog(l, {"tool"}) \cup (IF e = "tool" THEN {n + 1} ELSE {})
      BY <1>1, OfOneMore
    <2>2. q.first = OrElse(r.first, IF e = "tool" THEN a ELSE 0)
      BY DEF Advance
    <2>3. OfLog(l, {"tool"}) \subseteq 1..n
      BY <1>2 DEF OfLog
    <2>4. CASE OfLog(l, {"tool"}) = {}
      <3>1. r.first = 0
        BY <2>4 DEF Exact
      <3>2. q.first = IF e = "tool" THEN a ELSE 0
        BY <2>2, <3>1 DEF OrElse
      <3>3. OfLog(m, {"tool"}) = IF e = "tool" THEN {n + 1} ELSE {}
        BY <2>1, <2>4
      <3>4. n + 1 <= n + 1 /\ m[n + 1].at = a
        BY <1>1, <1>2
      <3>5. QED
        BY <3>2, <3>3, <3>4
    <2>5. CASE OfLog(l, {"tool"}) # {}
      <3>1. PICK i \in OfLog(l, {"tool"}) : r.first = l[i].at /\ \A j \in OfLog(l, {"tool"}) : i <= j
        BY <2>5 DEF Exact
      <3>2. r.first \in 1..r.at /\ i \in 1..n /\ m[i] = l[i]
        BY <1>2, <1>3, <2>3, <3>1
      <3>3. q.first = r.first
        BY <1>1, <2>2, <3>2 DEF OrElse
      <3>4. \A j \in OfLog(m, {"tool"}) : i <= j
        BY <1>2, <2>1, <3>1, <3>2
      <3>5. i \in OfLog(m, {"tool"})
        BY <2>1
      <3>6. QED
        BY <3>1, <3>2, <3>3, <3>4, <3>5
    <2>6. QED
      BY <2>4, <2>5
  <1>11. /\ q.blocked \in 0..Cardinality(TimesOf(m))
         /\ ~NoticedOf(m) => q.blocked = Cardinality(TimesOf(m))
    <2>1. \A i \in DOMAIN l : l[i].at \in 1..l[Len(l)].at
      BY <1>2, <1>3
    <2>2. /\ Cardinality(TimesOf(l)) \in Nat
          /\ Cardinality(TimesOf(m)) = Cardinality(TimesOf(l)) +
                (IF last = "dialog" THEN a - r.at ELSE 0)
      BY <1>1, <1>3, <2>1, TimesOneMore
    <2>3. NoticedOf(m) <=> NoticedOf(l) \/ (e = "dialog" /\ last = "dialog")
      BY <1>1, BeginsOneMore
    <2>4. q.blocked = IF last = "dialog" /\ e # "dialog" THEN r.blocked + (a - r.at) ELSE r.blocked
      BY <1>6 DEF Advance
    <2>5. /\ r.blocked \in 0..Cardinality(TimesOf(l))
          /\ ~NoticedOf(l) => r.blocked = Cardinality(TimesOf(l))
      BY DEF Exact
    <2>6. QED
      BY <1>1, <2>2, <2>3, <2>4, <2>5
  <1>12. /\ q.state = StateOf(m[Len(m)].event) /\ q.at = m[Len(m)].at /\ q.started = m[1].at
         /\ \A i \in DOMAIN m : m[i].at \in 1..q.at
    <2>1. m[Len(m)] = x /\ m[1] = l[1]
      BY <1>2, <1>4
    <2>2. ASSUME NEW i \in 1..(n + 1)
          PROVE  m[i].at \in 1..a
      <3>1. CASE i \in 1..n
        <4>1. m[i].at \in 1..r.at
          BY <1>2, <1>3, <3>1
        <4>2. QED
          BY <1>1, <4>1
      <3>2. CASE i = n + 1
        BY <1>1, <1>2, <1>4, <3>2
      <3>3. QED
        BY <1>2, <3>1, <3>2
    <2>3. QED
      BY <1>1, <1>2, <1>3, <1>7, <2>1, <2>2
  <1>13. QED
    BY <1>8, <1>9, <1>10, <1>11, <1>12 DEF Exact

-----------------------------------------------------------------------------
(* Types *)

LEMMA NoneTyped == NoRecord \in Record /\ NoHook \in Hook
  BY MaxTimeIsNat DEF NoRecord, NoHook, Record, Hook, Times, States

LEMMA StepTyped ==
    ASSUME TypeOK, NEW h \in Hooks, NEW r \in Hook, Step(h, r)
    PROVE  /\ hook' \in [Hooks -> Hook] /\ hook'[h] = r
           /\ \A g \in Hooks \ {h} : hook'[g] = hook[g]
  BY DEF TypeOK, Step

\* What a hook that reads takes with it.
LEMMA ReadTakes ==
    ASSUME TypeOK, NEW h \in Hooks, Read(h)
    PROVE  \E at \in Times \ {0} :
              /\ hook' \in [Hooks -> Hook] /\ hook[h] = NoHook
              /\ hook'[h] = [pc |-> "write", at |-> at, prev |-> rec]
              /\ \A g \in Hooks \ {h} : hook'[g] = hook[g]
              /\ overlapped' =
                    (overlapped \/ at < rec.at \/ \E g \in Hooks \ {h} : hook[g].pc = "write")
  <1>1. PICK at \in {now, now - 1} \ {0} :
           /\ Step(h, [pc |-> "write", at |-> at, prev |-> rec])
           /\ overlapped' =
                 (overlapped \/ at < rec.at \/ \E g \in Hooks \ {h} : hook[g].pc = "write")
    BY DEF Read
  <1>2. at \in Times \ {0}
    BY MaxTimeIsNat DEF TypeOK, Times
  <1>3. [pc |-> "write", at |-> at, prev |-> rec] \in Hook
    BY <1>2 DEF TypeOK, Hook
  <1>4. QED
    BY <1>1, <1>2, <1>3, StepTyped DEF Read

\* What a hook that writes leaves.
LEMMA WriteLeaves ==
    ASSUME TypeOK, NEW h \in Hooks, Write(h)
    PROVE  \E e \in Events :
              /\ hook[h].pc = "write" /\ hook[h] \in Hook
              /\ rec' = Advance(hook[h].prev, e, hook[h].at)
              /\ log' = Append(log, [event |-> e, at |-> hook[h].at])
              /\ [event |-> e, at |-> hook[h].at] \in Entries
              /\ hook' \in [Hooks -> Hook]
              /\ hook'[h].pc = (IF e = "end" THEN "report" ELSE "idle")
              /\ \A g \in Hooks \ {h} : hook'[g] = hook[g]
  <1>1. PICK e \in Events :
           /\ rec' = Advance(hook[h].prev, e, hook[h].at)
           /\ log' = Append(log, [event |-> e, at |-> hook[h].at])
           /\ Step(h, IF e = "end" THEN [hook[h] EXCEPT !.pc = "report"] ELSE NoHook)
    BY DEF Write
  <1>2. hook[h] \in Hook /\ hook[h].pc = "write"
    BY DEF TypeOK, Write
  <1>3. /\ [hook[h] EXCEPT !.pc = "report"] \in Hook /\ [hook[h] EXCEPT !.pc = "report"].pc = "report"
        /\ NoHook.pc = "idle"
    BY <1>2 DEF Hook, NoHook
  <1>4. (IF e = "end" THEN [hook[h] EXCEPT !.pc = "report"] ELSE NoHook) \in Hook
    BY <1>3, NoneTyped
  <1>5. /\ hook' \in [Hooks -> Hook] /\ \A g \in Hooks \ {h} : hook'[g] = hook[g]
        /\ hook'[h] = (IF e = "end" THEN [hook[h] EXCEPT !.pc = "report"] ELSE NoHook)
    BY <1>1, <1>4, StepTyped
  <1>6. [event |-> e, at |-> hook[h].at] \in Entries
    BY <1>2 DEF Entries, Hook
  <1>7. hook'[h].pc = (IF e = "end" THEN "report" ELSE "idle")
    BY <1>3, <1>5
  <1>8. QED
    BY <1>1, <1>2, <1>5, <1>6, <1>7

\* A hook that goes without having written.
LEMMA HookGoes ==
    ASSUME TypeOK, NEW h \in Hooks, Ignore(h) \/ Report(h) \/ Kill(h)
    PROVE  /\ hook' \in [Hooks -> Hook] /\ hook'[h].pc = "idle"
           /\ \A g \in Hooks \ {h} : hook'[g] = hook[g]
           /\ UNCHANGED <<now, rec, closing, log, overlapped>>
  <1>1. Step(h, NoHook) /\ UNCHANGED <<now, rec, closing, log, overlapped>>
    BY DEF Ignore, Report, Kill
  <1>2. QED
    BY <1>1, StepTyped, NoneTyped DEF NoHook

LEMMA TypesStart == ASSUME Init PROVE TypeOK
  <1>1. MaxTime \in Nat /\ <<>> \in Seq([event : Events, at : Times])
    BY MaxTimeIsNat
  <1>2. hook \in [Hooks -> Hook]
    BY NoneTyped DEF Init
  <1>3. now \in 1..MaxTime
    BY <1>1, SessionsAssumption DEF Init
  <1>4. QED
    BY <1>1, <1>2, <1>3, NoneTyped DEF Init, TypeOK

LEMMA TypesAreKept ==
    ASSUME TypeOK, HooksAreReal, [Next]_vars
    PROVE  TypeOK'
  <1>1. CASE Tick
    BY <1>1, MaxTimeIsNat DEF Tick, TypeOK
  <1>2. ASSUME NEW h \in Hooks, Read(h)
        PROVE  TypeOK'
    BY <1>2, ReadTakes DEF Read, TypeOK
  <1>3. ASSUME NEW h \in Hooks, Write(h)
        PROVE  TypeOK'
    <2>1. PICK e \in Events :
              /\ hook[h].pc = "write" /\ hook[h] \in Hook
              /\ rec' = Advance(hook[h].prev, e, hook[h].at)
              /\ log' = Append(log, [event |-> e, at |-> hook[h].at])
              /\ [event |-> e, at |-> hook[h].at] \in Entries
              /\ hook' \in [Hooks -> Hook]
      BY <1>3, WriteLeaves
    <2>2. hook[h].at \in Times /\ hook[h].at > 0 /\ hook[h].prev \in Record
      BY <2>1 DEF HooksAreReal, Hook
    <2>3. rec' \in Record /\ rec' # NoRecord
      BY <2>1, <2>2, AdvanceTyped
    <2>4. log \in Seq(Entries)
      BY DEF TypeOK, Entries
    <2>5. log' \in Seq(Entries) /\ log' # <<>>
      BY <2>1, <2>4, OneMore
    <2>6. QED
      BY <1>3, <2>1, <2>3, <2>5 DEF Write, TypeOK, Entries
  <1>4. ASSUME NEW h \in Hooks, Ignore(h) \/ Report(h) \/ Kill(h)
        PROVE  TypeOK'
    <2>1. /\ hook' \in [Hooks -> Hook]
          /\ UNCHANGED <<now, rec, closing, log, overlapped>>
      BY <1>4, HookGoes
    <2>2. reports' \subseteq {"hook", "watcher"} /\ closes' \in Nat /\ kills' \in Nat
      <3>1. reports \subseteq {"hook", "watcher"} /\ closes \in Nat /\ kills \in Nat
        BY DEF TypeOK
      <3>2. CASE Ignore(h)
        BY <3>1, <3>2 DEF Ignore
      <3>3. CASE Report(h)
        BY <3>1, <3>3 DEF Report
      <3>4. CASE Kill(h)
        BY <3>1, <3>4 DEF Kill
      <3>5. QED
        BY <1>4, <3>2, <3>3, <3>4
    <2>3. QED
      BY <2>1, <2>2 DEF TypeOK
  <1>5. CASE CloseSession
    BY <1>5 DEF CloseSession, TypeOK
  <1>6. CASE ReportClosed
    BY <1>6 DEF ReportClosed, TypeOK
  <1>7. CASE UNCHANGED vars
    BY <1>7 DEF vars, TypeOK
  <1>8. QED
    BY <1>1, <1>2, <1>3, <1>4, <1>5, <1>6, <1>7 DEF Next

-----------------------------------------------------------------------------
(* What is counted *)

LEMMA LogIsTyped ==
    ASSUME TypeOK
    PROVE  /\ log \in Seq(Entries)
           /\ \A es : Cardinality(Of(es)) \in Nat /\ Of(es) = OfLog(log, es)
  <1>1. log \in Seq(Entries)
    BY DEF TypeOK, Entries
  <1>2. \A es : Of(es) = OfLog(log, es)
    BY DEF Of, OfLog
  <1>3. \A es : Cardinality(OfLog(log, es)) \in Nat
    BY <1>1, CountIsNat DEF OfLog
  <1>4. QED
    BY <1>1, <1>2, <1>3

LEMMA CountsAtFirst == ASSUME Init PROVE CountsAreReal /\ HooksAreReal
  <1>1. TypeOK
    BY TypesStart
  <1>2. Cardinality(Of({"prompt"})) \in Nat /\ Cardinality(Of({"dialog"})) \in Nat
    BY <1>1, LogIsTyped
  <1>3. QED
    BY <1>2 DEF Init, CountsAreReal, HooksAreReal, NoRecord, NoHook

LEMMA CountsAreKept ==
    ASSUME TypeOK, CountsAreReal, HooksAreReal, [Next]_vars
    PROVE  CountsAreReal' /\ HooksAreReal'
  <1>1. CASE Tick \/ CloseSession \/ ReportClosed \/ UNCHANGED vars
    <2>1. UNCHANGED <<rec, hook, log>>
      BY <1>1 DEF Tick, CloseSession, ReportClosed, vars
    <2>2. QED
      BY <2>1 DEF CountsAreReal, HooksAreReal, Of
  <1>2. ASSUME NEW h \in Hooks, Read(h)
        PROVE  CountsAreReal' /\ HooksAreReal'
    <2>1. UNCHANGED <<rec, log>>
      BY <1>2 DEF Read
    <2>2. PICK at \in Times \ {0} :
             /\ hook'[h] = [pc |-> "write", at |-> at, prev |-> rec]
             /\ \A g \in Hooks \ {h} : hook'[g] = hook[g]
      BY <1>2, ReadTakes
    <2>3. hook'[h].prev = rec /\ hook'[h].at > 0
      BY <2>2, MaxTimeIsNat DEF Times
    <2>4. QED
      BY <2>1, <2>2, <2>3 DEF CountsAreReal, HooksAreReal, Of
  <1>3. ASSUME NEW h \in Hooks, Write(h)
        PROVE  CountsAreReal' /\ HooksAreReal'
    <2>1. PICK e \in Events :
              /\ hook[h].pc = "write" /\ hook[h] \in Hook
              /\ rec' = Advance(hook[h].prev, e, hook[h].at)
              /\ log' = Append(log, [event |-> e, at |-> hook[h].at])
              /\ [event |-> e, at |-> hook[h].at] \in Entries
              /\ hook'[h].pc = (IF e = "end" THEN "report" ELSE "idle")
              /\ \A g \in Hooks \ {h} : hook'[g] = hook[g]
      BY <1>3, WriteLeaves
    <2> DEFINE prev == hook[h].prev
               prompts == Cardinality(OfLog(log, {"prompt"}))
               dialogs == Cardinality(OfLog(log, {"dialog"}))
    <2>2. /\ hook[h].at \in Times /\ hook[h].at > 0 /\ prev \in Record
          /\ prev.turns <= prompts /\ prev.count <= dialogs
      BY <2>1, LogIsTyped DEF HooksAreReal, Hook
    <2>3. log \in Seq(Entries)
      BY LogIsTyped
    <2>4. /\ prompts \in Nat /\ dialogs \in Nat
          /\ Cardinality(OfLog(log', {"prompt"})) = prompts + (IF e = "prompt" THEN 1 ELSE 0)
          /\ Cardinality(OfLog(log', {"dialog"})) = dialogs + (IF e = "dialog" THEN 1 ELSE 0)
      BY <2>1, <2>3, OfOneMore
    <2>5. /\ Cardinality(Of({"prompt"}))' = Cardinality(OfLog(log', {"prompt"}))
          /\ Cardinality(Of({"dialog"}))' = Cardinality(OfLog(log', {"dialog"}))
      BY DEF Of, OfLog
    <2>6. prev.turns \in Nat /\ prev.count \in Nat
      BY <2>2 DEF Record
    <2>7. /\ rec'.turns = prev.turns + (IF e = "prompt" THEN 1 ELSE 0)
          /\ rec'.count <= prev.count + (IF e = "dialog" THEN 1 ELSE 0)
      BY <2>1, <2>6 DEF Advance, Turns, Dialogs, StateOf, Events
    <2>8. rec'.started > 0 /\ rec'.count \in Nat
      BY <2>1, <2>2, AdvanceTyped DEF Record
    <2>9. CountsAreReal'
      BY <2>2, <2>4, <2>5, <2>6, <2>7, <2>8 DEF CountsAreReal
    <2>10. HooksAreReal'
      <3>1. SUFFICES ASSUME NEW g \in Hooks, hook'[g].pc = "write"
                     PROVE  /\ hook'[g].at > 0
                            /\ hook'[g].prev.turns <= Cardinality(OfLog(log', {"prompt"}))
                            /\ hook'[g].prev.count <= Cardinality(OfLog(log', {"dialog"}))
                            /\ hook'[g].prev.turns > 0 => hook'[g].prev.started > 0
        BY <2>5 DEF HooksAreReal
      <3>2. g # h /\ hook'[g] = hook[g]
        BY <2>1, <3>1
      <3>3. /\ hook[g].at > 0 /\ hook[g].prev.turns <= prompts /\ hook[g].prev.count <= dialogs
            /\ hook[g].prev.turns > 0 => hook[g].prev.started > 0
        BY <3>1, <3>2, LogIsTyped DEF HooksAreReal
      <3>4. hook[g].prev.turns \in Nat /\ hook[g].prev.count \in Nat
        BY DEF TypeOK, Hook, Record
      <3>5. QED
        BY <2>4, <3>2, <3>3, <3>4
    <2>11. QED
      BY <2>9, <2>10
  <1>4. ASSUME NEW h \in Hooks, Ignore(h) \/ Report(h) \/ Kill(h)
        PROVE  CountsAreReal' /\ HooksAreReal'
    <2>1. /\ hook'[h].pc = "idle" /\ \A g \in Hooks \ {h} : hook'[g] = hook[g]
          /\ UNCHANGED <<rec, log>>
      BY <1>4, HookGoes
    <2>2. QED
      BY <2>1 DEF CountsAreReal, HooksAreReal, Of
  <1>5. QED
    BY <1>1, <1>2, <1>3, <1>4 DEF Next

-----------------------------------------------------------------------------
(* Hooks that do not overlap, and their timeline *)

LEMMA CurrentIsKept ==
    ASSUME TypeOK, HooksAreCurrent, [Next]_vars
    PROVE  HooksAreCurrent'
  <1>1. CASE Tick \/ CloseSession \/ ReportClosed \/ UNCHANGED vars
    <2>1. UNCHANGED <<rec, hook, overlapped>>
      BY <1>1 DEF Tick, CloseSession, ReportClosed, vars
    <2>2. QED
      BY <2>1 DEF HooksAreCurrent
  <1>2. ASSUME NEW h \in Hooks, Read(h)
        PROVE  HooksAreCurrent'
    <2>1. PICK at \in Times \ {0} :
              /\ hook'[h] = [pc |-> "write", at |-> at, prev |-> rec]
              /\ \A g \in Hooks \ {h} : hook'[g] = hook[g]
              /\ overlapped' =
                    (overlapped \/ at < rec.at \/ \E g \in Hooks \ {h} : hook[g].pc = "write")
      BY <1>2, ReadTakes
    <2>2. rec' = rec /\ rec.at \in Nat /\ at \in Nat
      BY <1>2, MaxTimeIsNat DEF Read, TypeOK, Record, Times
    <2>3. ASSUME ~overlapped', NEW g \in Hooks, hook'[g].pc = "write"
          PROVE  g = h /\ hook'[g].prev = rec' /\ hook'[g].at >= rec'.at
      <3>1. ~(at < rec.at) /\ \A k \in Hooks \ {h} : hook[k].pc # "write"
        BY <2>1, <2>3
      <3>2. g = h
        BY <2>1, <2>3, <3>1
      <3>3. hook'[h].prev = rec /\ hook'[h].at = at
        BY <2>1
      <3>4. QED
        BY <2>2, <3>1, <3>2, <3>3
    <2>4. QED
      BY <2>3 DEF HooksAreCurrent
  <1>3. ASSUME NEW h \in Hooks, Write(h)
        PROVE  HooksAreCurrent'
    <2>1. /\ hook[h].pc = "write" /\ hook'[h].pc # "write"
          /\ \A g \in Hooks \ {h} : hook'[g] = hook[g]
      BY <1>3, WriteLeaves
    <2>2. overlapped' = overlapped
      BY <1>3 DEF Write
    <2>3. ~overlapped => \A g \in Hooks : hook'[g].pc # "write"
      BY <2>1 DEF HooksAreCurrent
    <2>4. QED
      BY <2>2, <2>3 DEF HooksAreCurrent
  <1>4. ASSUME NEW h \in Hooks, Ignore(h) \/ Report(h) \/ Kill(h)
        PROVE  HooksAreCurrent'
    <2>1. /\ hook'[h].pc = "idle" /\ \A g \in Hooks \ {h} : hook'[g] = hook[g]
          /\ UNCHANGED <<rec, overlapped>>
      BY <1>4, HookGoes
    <2>2. QED
      BY <2>1 DEF HooksAreCurrent
  <1>5. QED
    BY <1>1, <1>2, <1>3, <1>4 DEF Next

\* The invariant says of the log and the record what Exact says of any two.
LEMMA SameTimeline ==
    /\ TimelineIsExact <=> (~overlapped /\ log # <<>> => Exact(log, rec))
    /\ TimelineIsExact' <=> (~overlapped' /\ log' # <<>> => Exact(log', rec'))
  BY DEF TimelineIsExact, Exact, Of, Begins, LastUpTo, InDialog, Noticed,
     OfLog, BeginsOf, LastOf, InDialogOf, NoticedOf, TimesOf

LEMMA TimelineIsKept ==
    ASSUME TypeOK, HooksAreReal, HooksAreCurrent, TimelineIsExact, [Next]_vars
    PROVE  TimelineIsExact'
  <1>1. CASE UNCHANGED <<rec, log>> /\ (overlapped' \/ overlapped' = overlapped)
    BY <1>1, SameTimeline
  <1>2. ASSUME NEW h \in Hooks, Write(h)
        PROVE  TimelineIsExact'
    <2>1. SUFFICES ASSUME ~overlapped
                   PROVE  Exact(log', rec')
      BY <1>2, SameTimeline DEF Write
    <2>2. PICK e \in Events :
              /\ hook[h].pc = "write" /\ hook[h] \in Hook
              /\ rec' = Advance(hook[h].prev, e, hook[h].at)
              /\ log' = Append(log, [event |-> e, at |-> hook[h].at])
      BY <1>2, WriteLeaves
    <2>3. hook[h].prev = rec /\ hook[h].at >= rec.at
      BY <2>1, <2>2 DEF HooksAreCurrent
    <2>4. hook[h].at \in Times /\ hook[h].at > 0 /\ rec \in Record /\ log \in Seq(Entries)
      BY <2>2, LogIsTyped DEF HooksAreReal, Hook, TypeOK
    <2>5. CASE log = <<>>
      <3>1. rec = NoRecord
        BY <2>5 DEF TypeOK
      <3>2. QED
        BY <2>2, <2>3, <2>4, <2>5, <3>1, ExactAtFirst
    <2>6. CASE log # <<>>
      <3>1. Exact(log, rec)
        BY <2>1, <2>6, SameTimeline
      <3>2. QED
        BY <2>2, <2>3, <2>4, <2>6, <3>1, ExactOneMore
    <2>7. QED
      BY <2>5, <2>6
  <1>3. CASE \A h \in Hooks : ~Write(h)
    <2>1. UNCHANGED <<rec, log>> /\ (overlapped' \/ overlapped' = overlapped)
      BY <1>3 DEF Next, vars, Tick, Read, Ignore, Report, Kill, CloseSession, ReportClosed, TypeOK
    <2>2. QED
      BY <1>1, <2>1
  <1>4. QED
    BY <1>2, <1>3

LEMMA ExactAddsUp ==
    ASSUME TypeOK, TimelineIsExact
    PROVE  TimelineAddsUp
  <1>1. SUFFICES ASSUME ~overlapped, log # <<>>
                 PROVE  TimelineAddsUp
    BY DEF TimelineAddsUp
  <1> DEFINE tools == Of({"tool"})
  <1>2. rec.first = IF tools = {} THEN 0
                    ELSE log[CHOOSE i \in tools : \A j \in tools : i <= j].at
    <2>1. CASE tools = {}
      BY <1>1, <2>1 DEF TimelineIsExact
    <2>2. CASE tools # {}
      <3>1. PICK i \in tools : rec.first = log[i].at /\ \A j \in tools : i <= j
        BY <1>1, <2>2 DEF TimelineIsExact
      <3>2. tools \subseteq Nat
        BY LogIsTyped DEF Of
      <3>3. \A k \in tools : (\A j \in tools : k <= j) => k = i
        BY <3>1, <3>2
      <3>4. i = CHOOSE k \in tools : \A j \in tools : k <= j
        BY <3>1, <3>3
      <3>5. QED
        BY <2>2, <3>1, <3>4
    <2>3. QED
      BY <2>1, <2>2
  <1>3. QED
    BY <1>1, <1>2 DEF TimelineIsExact, TimelineAddsUp

-----------------------------------------------------------------------------
(* The report *)

LEMMA ReportIsKept ==
    ASSUME TypeOK, HooksAreReal, EndIsReported, [Next]_vars
    PROVE  EndIsReported'
  <1> DEFINE Covered == reports # {} \/ (\E h \in Hooks : hook[h].pc = "report") \/ kills > 0
  <1>1. ASSUME NEW h \in Hooks, Write(h)
        PROVE  EndIsReported'
    <2>1. PICK e \in Events :
              /\ hook[h].pc = "write" /\ hook[h] \in Hook
              /\ rec' = Advance(hook[h].prev, e, hook[h].at)
              /\ hook'[h].pc = (IF e = "end" THEN "report" ELSE "idle")
              /\ \A g \in Hooks \ {h} : hook'[g] = hook[g]
      BY <1>1, WriteLeaves
    <2>2. UNCHANGED <<closing, reports, kills>>
      BY <1>1 DEF Write
    <2>3. rec'.state = "ended" => e = "end"
      BY <2>1 DEF Advance, StateOf, Events
    <2>4. QED
      BY <2>1, <2>2, <2>3 DEF EndIsReported
  <1>2. ASSUME NEW h \in Hooks, Read(h)
        PROVE  EndIsReported'
    <2>1. /\ hook[h] = NoHook /\ \A g \in Hooks \ {h} : hook'[g] = hook[g]
      BY <1>2, ReadTakes
    <2>2. UNCHANGED <<rec, closing, reports, kills>> /\ hook[h].pc # "report"
      BY <1>2, <2>1 DEF Read, NoHook
    <2>3. QED
      BY <2>1, <2>2 DEF EndIsReported
  <1>3. ASSUME NEW h \in Hooks, Ignore(h) \/ Report(h) \/ Kill(h)
        PROVE  EndIsReported'
    <2>1. /\ \A g \in Hooks \ {h} : hook'[g] = hook[g]
          /\ UNCHANGED <<rec, closing>>
      BY <1>3, HookGoes
    <2>2. \/ reports' # {} \/ kills' > 0
          \/ hook[h].pc = "write" /\ UNCHANGED <<reports, kills>>
      <3>1. CASE Ignore(h)
        BY <3>1 DEF Ignore
      <3>2. CASE Report(h)
        BY <3>2 DEF Report
      <3>3. CASE Kill(h)
        <4>1. kills' = kills + 1 /\ kills \in Nat
          BY <3>3 DEF Kill, TypeOK
        <4>2. QED
          BY <4>1
      <3>4. QED
        BY <1>3, <3>1, <3>2, <3>3
    <2>3. QED
      BY <2>1, <2>2 DEF EndIsReported
  <1>4. CASE CloseSession
    BY <1>4 DEF CloseSession, EndIsReported
  <1>5. CASE ReportClosed
    BY <1>5 DEF ReportClosed, EndIsReported
  <1>6. CASE Tick \/ UNCHANGED vars
    BY <1>6 DEF Tick, vars, EndIsReported
  <1>7. QED
    BY <1>1, <1>2, <1>3, <1>4, <1>5, <1>6 DEF Next

-----------------------------------------------------------------------------
(* Theorems *)

LEMMA Inductive == Spec => []IInv
  <1>1. Init => IInv
    <2>1. SUFFICES ASSUME Init PROVE IInv
      OBVIOUS
    <2>2. TypeOK /\ CountsAreReal /\ HooksAreReal
      BY <2>1, TypesStart, CountsAtFirst
    <2>3. HooksAreCurrent /\ EndIsReported
      BY <2>1 DEF Init, HooksAreCurrent, EndIsReported, NoHook, NoRecord
    <2>4. TimelineIsExact
      BY <2>1 DEF Init, TimelineIsExact
    <2>5. QED
      BY <2>2, <2>3, <2>4 DEF IInv
  <1>2. IInv /\ [Next]_vars => IInv'
    BY TypesAreKept, CountsAreKept, CurrentIsKept, ReportIsKept, TimelineIsKept DEF IInv
  <1>3. QED
    BY <1>1, <1>2, PTL DEF Spec

\* The record, the hooks and the journal keep their types, and a record is there
\* as soon as an event was.
THEOREM TypeCorrect == Spec => []TypeOK
  <1>1. IInv => TypeOK
    BY DEF IInv
  <1>2. QED
    BY <1>1, Inductive, PTL

\* However many hooks overlap, a record has no more turns than prompts and no
\* more dialogs than notices (session.go: Advance, Write).
THEOREM NothingIsInvented == Spec => []CountsAreReal
  <1>1. IInv => CountsAreReal
    BY DEF IInv
  <1>2. QED
    BY <1>1, Inductive, PTL

\* While the hooks of a session do not overlap, its record is what its events add
\* up to, however many they are: the time in dialogs, the counts, the first
\* action (session_test.go:275).
THEOREM TimelineIsTheEvents == Spec => []TimelineAddsUp
  <1>1. IInv => TimelineAddsUp
    BY ExactAddsUp DEF IInv
  <1>2. QED
    BY <1>1, Inductive, PTL

\* A session whose window the daemon gave up is in the journal or about to be, or
\* its hook was killed (progress.go: closeSession).
THEOREM ClosedHasReport == Spec => []ClosedIsReported
  <1>1. IInv => ClosedIsReported
    BY DEF IInv, EndIsReported, ClosedIsReported
  <1>2. QED
    BY <1>1, Inductive, PTL
=============================================================================
