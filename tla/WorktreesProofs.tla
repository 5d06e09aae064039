--------------------------- MODULE WorktreesProofs --------------------------
(* Theorems about Worktrees, for every value of its constants. *)
EXTENDS Worktrees, FiniteSetTheorems, WellFoundedInduction, TLAPS

-----------------------------------------------------------------------------
(* Numbers *)

Below == {q \in Nat \X Nat : q[1] < q[2]}

LEMMA BelowIsWellFounded == IsWellFoundedOn(Below, Nat)
<1>1. Below = OpToRel(<, Nat)
  BY DEF Below, OpToRel
<1>. QED
  BY <1>1, NatLessThanWellFounded

\* The least of some numbers is one of them.
LEMMA MinIsLeast ==
  ASSUME NEW S \in SUBSET Nat, S # {}
  PROVE  Min(S) \in S /\ \A y \in S : Min(S) <= y
<1>1. PICK x \in S : \A y \in S : <<y, x>> \notin Below
  BY BelowIsWellFounded, WFMin
<1>2. ASSUME NEW y \in S PROVE x <= y
  <2>1. y \in Nat /\ x \in Nat /\ <<y, x>> \notin Below
    BY <1>1
  <2>2. ~(y < x)
    BY <2>1 DEF Below
  <2>. QED
    BY <2>1, <2>2
<1>. QED
  BY <1>2 DEF Min

LEMMA Kinds ==
    /\ None \notin Paths /\ None \notin Heads /\ None \notin Windows
    /\ Fallback \in Paths /\ MaxSuffix \in Nat /\ MaxHead \in Nat /\ MaxWindows \in Nat
    /\ MaxMessages \in Nat /\ MaxTrouble \in Nat
    /\ Paths \subseteq Nat /\ Windows \subseteq Nat /\ Heads \subseteq Nat
  BY WorktreesAssumption DEF WorktreesAssumption, Paths, Heads, Windows, Fallback

\* choosePath returns a path nobody has, or the last one.
LEMMA ChosenPath ==
  ASSUME NEW busy
  PROVE  /\ ChoosePath(busy) \in Paths
         /\ ChoosePath(busy) = Fallback \/ ChoosePath(busy) \notin busy
<1>1. CASE 1..MaxSuffix \subseteq busy
  BY <1>1, Kinds DEF ChoosePath
<1>2. CASE ~(1..MaxSuffix \subseteq busy)
  <2>1. (1..MaxSuffix) \ busy \in SUBSET Nat /\ (1..MaxSuffix) \ busy # {}
    BY <1>2, Kinds
  <2>2. Min((1..MaxSuffix) \ busy) \in (1..MaxSuffix) \ busy
    BY <2>1, MinIsLeast
  <2>. QED
    BY <1>2, <2>2, Kinds DEF ChoosePath, Paths
<1>. QED
  BY <1>1, <1>2

-----------------------------------------------------------------------------
(* Hands *)

\* A record of all the fields of a hand: how the provers are shown that a hand with some of
\* them replaced is one.
AsRecord(y) ==
    [pc |-> y.pc, root |-> y.root, exact |-> y.exact, who |-> y.who, list |-> y.list,
     path |-> y.path, exists |-> y.exists, rev |-> y.rev, dirty |-> y.dirty, drv |-> y.drv,
     base |-> y.base, mem |-> y.mem, peer |-> y.peer, opened |-> y.opened, sure |-> y.sure,
     touched |-> y.touched, fresh |-> y.fresh]

LEMMA RestSound == Rest \in Hand /\ Sound(Rest)
  BY Kinds DEF Rest, Hand, Sound

\* The hand h goes on as now.
LEMMA GoesTyped ==
  ASSUME hand \in [Hands -> Hand], NEW h \in Hands, NEW now \in Hand, Goes(h, now)
  PROVE  /\ hand' \in [Hands -> Hand] /\ hand'[h] = now
         /\ \A k \in Hands : k # h => hand'[k] = hand[k]
  BY DEF Goes

\* What the other hands are at, whatever they are told of trees and windows.
Like(x, y) ==
    /\ x.pc = y.pc /\ x.root = y.root /\ x.exact = y.exact /\ x.who = y.who /\ x.list = y.list
    /\ x.path = y.path /\ x.exists = y.exists /\ x.rev = y.rev /\ x.dirty = y.dirty
    /\ x.drv = y.drv /\ x.base = y.base /\ x.mem = y.mem /\ x.peer = y.peer
    /\ x.opened = y.opened

LEMMA LikeSound == ASSUME NEW x, NEW y, Like(x, y), Sound(x) PROVE Sound(y)
  BY DEF Like, Sound

LEMMA ToldOfTree ==
  ASSUME NEW x \in Hand, NEW p \in Paths
  PROVE  LET y == [x EXCEPT !.touched = @ \cup {p}]
         IN  y \in Hand /\ Like(x, y) /\ y.sure = x.sure /\ y.fresh = x.fresh
             /\ y.touched = x.touched \cup {p}
  BY DEF Hand, Like

LEMMA ToldOfWindow ==
  ASSUME NEW x \in Hand, NEW w \in Windows
  PROVE  LET y == [x EXCEPT !.fresh = @ \cup {w}]
         IN  y \in Hand /\ Like(x, y) /\ y.sure = x.sure /\ y.touched = x.touched
             /\ y.fresh = x.fresh \cup {w}
  BY DEF Hand, Like

LEMMA NoLongerSure ==
  ASSUME NEW x \in Hand
  PROVE  LET y == [x EXCEPT !.sure = FALSE]
         IN  y \in Hand /\ Like(x, y) /\ y.sure = FALSE /\ y.touched = x.touched /\ y.fresh = x.fresh
<1>. DEFINE y == [x EXCEPT !.sure = FALSE]
<1>1. y \in Hand
  BY DEF Hand
<1>2. Like(x, y)
  BY DEF Hand, Like
<1>3. y.sure = FALSE
  BY DEF Hand
<1>4. y.touched = x.touched /\ y.fresh = x.fresh
  BY DEF Hand
<1>. QED
  BY <1>1, <1>2, <1>3, <1>4

\* The tree at p becomes t, and those who count on it are told.
LEMMA ChangesTyped ==
  ASSUME hand \in [Hands -> Hand], NEW h \in Hands, NEW p \in Paths, NEW t, NEW now \in Hand,
         Changes(h, p, t, now)
  PROVE  /\ hand' \in [Hands -> Hand] /\ hand'[h] = now
         /\ \A k \in Hands : k # h =>
               /\ Like(hand[k], hand'[k])
               /\ hand'[k].sure = hand[k].sure /\ hand'[k].fresh = hand[k].fresh
               /\ hand'[k].touched = IF p \in {hand[k].drv, hand[k].mem}
                                     THEN hand[k].touched \cup {p} ELSE hand[k].touched
<1>. DEFINE told(k) == [hand[k] EXCEPT !.touched = @ \cup {p}]
<1>1. \A k \in Hands : told(k) \in Hand /\ Like(hand[k], told(k))
                       /\ told(k).sure = hand[k].sure /\ told(k).fresh = hand[k].fresh
                       /\ told(k).touched = hand[k].touched \cup {p}
  BY ToldOfTree
<1>2. \A k \in Hands : Like(hand[k], hand[k])
  BY DEF Like
<1>3. \A k \in Hands : hand'[k] = IF k = h THEN now
                                  ELSE IF p \in {hand[k].drv, hand[k].mem} THEN told(k) ELSE hand[k]
  BY DEF Changes, Touched
<1>4. hand' = [k \in Hands |-> hand'[k]]
  BY DEF Changes, Touched
<1>. HIDE DEF told
<1>. QED
  BY <1>1, <1>2, <1>3, <1>4

\* The tree is prepared, or not.
LEMMA Prepared ==
  ASSUME NEW x \in Hand, NEW y,
         y = [x EXCEPT !.path = None, !.exists = FALSE, !.rev = None, !.dirty = FALSE, !.fresh = {}]
  PROVE  /\ y \in Hand
         /\ y.pc = x.pc /\ y.root = x.root /\ y.exact = x.exact /\ y.who = x.who
         /\ y.list = x.list /\ y.path = None /\ y.exists = FALSE /\ y.rev = None
         /\ y.dirty = FALSE /\ y.drv = x.drv /\ y.base = x.base /\ y.mem = x.mem
         /\ y.peer = x.peer /\ y.opened = x.opened /\ y.sure = x.sure
         /\ y.touched = x.touched /\ y.fresh = {}
<1>1. y = AsRecord(y)
  BY DEF Hand, AsRecord
<1>2. y \in Hand
  BY <1>1 DEF Hand, AsRecord
<1>. QED
  BY <1>2 DEF Hand

\* The member is left out.
LEMMA WithoutMember ==
  ASSUME NEW x \in Hand, NEW y,
         y = [x EXCEPT !.pc = "open"]
  PROVE  /\ y \in Hand
         /\ y.pc = "open" /\ y.root = x.root /\ y.exact = x.exact /\ y.who = x.who
         /\ y.list = x.list /\ y.path = x.path /\ y.exists = x.exists /\ y.rev = x.rev
         /\ y.dirty = x.dirty /\ y.drv = x.drv /\ y.base = x.base /\ y.mem = x.mem
         /\ y.peer = x.peer /\ y.opened = x.opened /\ y.sure = x.sure
         /\ y.touched = x.touched /\ y.fresh = x.fresh
<1>1. y = AsRecord(y)
  BY DEF Hand, AsRecord
<1>2. y \in Hand
  BY <1>1 DEF Hand, AsRecord
<1>. QED
  BY <1>2 DEF Hand

\* What Prepare and Refresh lead to.
LEMMA ReadyIs ==
  ASSUME NEW h \in Hands, hand[h] \in Hand, Sound(hand[h]), hand[h].pc \in {"look", "move"},
         NEW res \in Paths \cup {None}, NEW rev \in Heads \cup {None}, NEW ok \in BOOLEAN,
         ok => res = hand[h].path /\ rev \in Heads
  PROVE  LET x == hand[h]
             y == Ready(h, res, rev, ok)
         IN  /\ y \in Hand /\ Sound(y)
             /\ \/ y = Rest
                \/ /\ y.pc \in {"list", "open", "member"} /\ x.who # "sync"
                   /\ y.root = x.root /\ y.exact = x.exact /\ y.opened = x.opened
                   /\ y.peer = x.peer /\ y.sure = x.sure /\ y.touched = x.touched
                   /\ y.path = None
                   /\ x.who = "driver" => y.drv = res /\ y.base = rev /\ y.mem = None
                   /\ x.who = "driver" /\ x.exact => ok
                   /\ x.who = "member" => y.drv = x.drv /\ y.base = x.base
                   /\ x.who = "member" => y.mem = IF ok THEN res ELSE None
                   /\ y.pc = "member" => ok /\ x.who = "member" /\ y.rev = rev
<1>. DEFINE x == hand[h]
            y == Ready(h, res, rev, ok)
<1>1. PICK now : now = [x EXCEPT !.path = None, !.exists = FALSE, !.rev = None, !.dirty = FALSE,
                                 !.fresh = {}]
  OBVIOUS
<1>2. /\ now \in Hand
      /\ now.pc = x.pc /\ now.root = x.root /\ now.exact = x.exact /\ now.who = x.who
      /\ now.drv = x.drv /\ now.base = x.base /\ now.mem = x.mem /\ now.peer = x.peer
      /\ now.opened = x.opened /\ now.sure = x.sure /\ now.touched = x.touched
      /\ now.path = None /\ now.dirty = FALSE
  <2>1. x \in Hand
    OBVIOUS
  <2>. QED
    BY <1>1, <2>1, Prepared
<1>3. x.who \in {"driver", "member", "sync"} /\ x.exact \in BOOLEAN
  BY DEF Hand
<1>4. x.path # None /\ Sound(x)
  BY DEF Sound
<1>5. CASE x.who = "sync" \/ (x.who = "driver" /\ x.exact /\ ~ok)
  <2>1. y = Rest
    BY <1>1, <1>2, <1>5 DEF Ready
  <2>. QED
    BY <2>1, RestSound
<1>6. CASE x.who = "driver" /\ (x.exact => ok)
  <2>1. PICK z : z = [now EXCEPT !.drv = res, !.base = rev, !.pc = "open"]
    OBVIOUS
  <2>2. PICK l : l = [now EXCEPT !.drv = res, !.base = rev, !.pc = "list", !.who = "member"]
    OBVIOUS
  <2>3. y = IF x.exact /\ x.root \in Committees THEN l ELSE z
    BY <1>1, <1>2, <1>6, <2>1, <2>2 DEF Ready
  <2>4. /\ z \in Hand /\ z.pc = "open" /\ z.root = x.root /\ z.exact = x.exact
        /\ z.who = "driver" /\ z.path = None /\ z.drv = res /\ z.base = rev /\ z.mem = x.mem
        /\ z.peer = x.peer /\ z.opened = x.opened /\ z.sure = x.sure /\ z.touched = x.touched
        /\ z.dirty = FALSE
    <3>1. now \in Hand /\ res \in Paths \cup {None} /\ rev \in Heads \cup {None}
      BY <1>2
    <3>2. z.pc = "open" /\ z.root = now.root /\ z.exact = now.exact
          /\ z.who = now.who /\ z.path = now.path /\ z.drv = res /\ z.base = rev
          /\ z.mem = now.mem /\ z.peer = now.peer /\ z.opened = now.opened
          /\ z.sure = now.sure /\ z.touched = now.touched /\ z.dirty = now.dirty
      BY <2>1, <3>1 DEF Hand
    <3>3. z = AsRecord(z)
      BY <2>1, <3>1 DEF Hand, AsRecord
    <3>4. z \in Hand
      BY <2>1, <3>1, <3>3 DEF Hand, AsRecord
    <3>. QED
      BY <1>2, <1>6, <3>2, <3>4
  <2>5. /\ l \in Hand /\ l.pc = "list" /\ l.root = x.root /\ l.exact = x.exact
        /\ l.who = "member" /\ l.path = None /\ l.drv = res /\ l.base = rev /\ l.mem = x.mem
        /\ l.peer = x.peer /\ l.opened = x.opened /\ l.sure = x.sure /\ l.touched = x.touched
        /\ l.dirty = FALSE
    <3>1. now \in Hand /\ res \in Paths \cup {None} /\ rev \in Heads \cup {None}
      BY <1>2
    <3>2. l.pc = "list" /\ l.root = now.root /\ l.exact = now.exact
          /\ l.who = "member" /\ l.path = now.path /\ l.drv = res /\ l.base = rev
          /\ l.mem = now.mem /\ l.peer = now.peer /\ l.opened = now.opened
          /\ l.sure = now.sure /\ l.touched = now.touched /\ l.dirty = now.dirty
      BY <2>2, <3>1 DEF Hand
    <3>3. l = AsRecord(l)
      BY <2>2, <3>1 DEF Hand, AsRecord
    <3>4. l \in Hand
      BY <2>2, <3>1, <3>3 DEF Hand, AsRecord
    <3>. QED
      BY <1>2, <3>2, <3>4
  <2>6. x.mem = None
    BY <1>4 DEF Sound
  <2>7. Sound(z)
    BY <1>4, <1>6, <2>4, Kinds DEF Sound
  <2>8. ASSUME y = l, x.exact PROVE Sound(l)
    BY <1>4, <1>6, <2>5, <2>8, Kinds DEF Sound
  <2>9. CASE y = z
    BY <1>6, <2>4, <2>6, <2>7, <2>9
  <2>10. CASE y = l /\ x.exact
    BY <1>6, <2>5, <2>6, <2>8, <2>10
  <2>. QED
    BY <2>3, <2>9, <2>10
<1>7. CASE x.who = "member" /\ ok
  <2>1. PICK z : z = [now EXCEPT !.mem = res, !.rev = rev, !.pc = "member"]
    OBVIOUS
  <2>2. y = z
    BY <1>1, <1>2, <1>7, <2>1 DEF Ready
  <2>3. /\ z \in Hand /\ z.pc = "member" /\ z.root = x.root /\ z.exact = x.exact
        /\ z.who = "member" /\ z.path = None /\ z.drv = x.drv /\ z.base = x.base /\ z.mem = res
        /\ z.rev = rev
        /\ z.peer = x.peer /\ z.opened = x.opened /\ z.sure = x.sure /\ z.touched = x.touched
        /\ z.dirty = FALSE
    <3>1. now \in Hand /\ res \in Paths \cup {None} /\ rev \in Heads \cup {None}
      BY <1>2
    <3>2. z.pc = "member" /\ z.root = now.root /\ z.exact = now.exact
          /\ z.who = now.who /\ z.path = now.path /\ z.drv = now.drv /\ z.base = now.base
          /\ z.mem = res /\ z.rev = rev /\ z.peer = now.peer /\ z.opened = now.opened
          /\ z.sure = now.sure /\ z.touched = now.touched /\ z.dirty = now.dirty
      BY <2>1, <3>1 DEF Hand
    <3>3. z = AsRecord(z)
      BY <2>1, <3>1 DEF Hand, AsRecord
    <3>4. z \in Hand
      BY <2>1, <3>1, <3>3 DEF Hand, AsRecord
    <3>. QED
      BY <1>2, <1>7, <3>2, <3>4
  <2>4. Sound(z)
    BY <1>4, <1>7, <2>3, Kinds DEF Sound
  <2>. QED
    BY <1>7, <2>2, <2>3, <2>4
<1>8. CASE x.who = "member" /\ ~ok
  <2>1. PICK z : z = [now EXCEPT !.pc = "open"]
    OBVIOUS
  <2>2. y = z
    BY <1>1, <1>2, <1>8, <2>1 DEF Ready
  <2>3. /\ z \in Hand /\ z.pc = "open" /\ z.root = x.root /\ z.exact = x.exact
        /\ z.who = "member" /\ z.path = None /\ z.drv = x.drv /\ z.base = x.base /\ z.mem = x.mem
        /\ z.peer = x.peer /\ z.opened = x.opened /\ z.sure = x.sure /\ z.touched = x.touched
        /\ z.dirty = FALSE
    BY <1>2, <1>8, <2>1, WithoutMember
  <2>4. Sound(z) /\ x.mem = None
    BY <1>4, <1>8, <2>3, Kinds DEF Sound
  <2>. QED
    BY <1>8, <2>2, <2>3, <2>4
<1>. QED
  BY <1>3, <1>5, <1>6, <1>7, <1>8

\* The other hands are at what they were at.
Others(h) ==
    \A k \in Hands : k # h =>
        /\ Like(hand[k], hand'[k])
        /\ hand'[k].sure => hand[k].sure
        /\ hand[k].touched \subseteq hand'[k].touched
        /\ hand[k].fresh \subseteq hand'[k].fresh

\* Nobody is told of anything.
Alone(h) == \A k \in Hands : k # h => hand'[k] = hand[k]

LEMMA AloneIsOthers == ASSUME NEW h, Alone(h) PROVE Others(h)
  BY DEF Alone, Others, Like

LEMMA SoundAfter ==
  ASSUME HandIsSound, NEW h \in Hands, Others(h), Sound(hand'[h])
  PROVE  HandIsSound'
<1>1. \A k \in Hands : k # h => Sound(hand'[k])
  BY LikeSound DEF Others, HandIsSound
<1>. QED
  BY <1>1 DEF HandIsSound

LEMMA SoundForAll ==
  ASSUME HandIsSound, \A k \in Hands : Like(hand[k], hand'[k])
  PROVE  HandIsSound'
  BY LikeSound DEF HandIsSound

LEMMA LiveTyped == Live \in SUBSET Windows
  BY DEF Live

LEMMA StartIs ==
  ASSUME TypeOK, HandIsSound, NEW h \in Hands, NEW r \in Roots, NEW exact \in BOOLEAN,
         Start(h, r, exact)
  PROVE  /\ hand' \in [Hands -> Hand] /\ HandIsSound' /\ Others(h)
         /\ hand[h].pc = "rest"
         /\ \A k \in Hands : k # h /\ Launching(k) => ~hand'[k].sure
         /\ \A k \in Hands : k # h => hand'[k].touched = hand[k].touched
         /\ LET y == hand'[h]
            IN  /\ y.pc = "choose" /\ y.who = "driver" /\ y.root = r /\ y.exact = exact
                /\ y.path = None /\ y.drv = None /\ y.mem = None /\ y.peer = None
                /\ y.opened = None /\ y.touched = {} /\ y.fresh = {}
                /\ y.sure => y.list = Live /\ \A k \in Hands : ~Launching(k)
<1>1. PICK list \in {Live, {}}, read \in BOOLEAN :
          /\ Lists(list, read)
          /\ hand' = [k \in Hands |->
                IF k = h
                THEN [Rest EXCEPT !.pc = "choose", !.root = r, !.exact = exact, !.list = list,
                                  !.sure = read /\ \A other \in Hands : ~Launching(other)]
                ELSE IF Launching(k) THEN [hand[k] EXCEPT !.sure = FALSE]
                ELSE hand[k]]
  BY DEF Start
<1>2. PICK sure : sure = (read /\ \A other \in Hands : ~Launching(other))
  OBVIOUS
<1>3. PICK y : y = [Rest EXCEPT !.pc = "choose", !.root = r, !.exact = exact, !.list = list,
                                !.sure = sure]
  OBVIOUS
<1>4. hand'[h] = y
  BY <1>1, <1>2, <1>3
<1>5. /\ y.pc = "choose" /\ y.who = "driver" /\ y.root = r /\ y.exact = exact /\ y.list = list
      /\ y.path = None /\ y.drv = None /\ y.mem = None /\ y.peer = None /\ y.opened = None
      /\ y.touched = {} /\ y.fresh = {} /\ y.sure = sure
      /\ y.rev = None /\ y.base = None /\ y.exists = FALSE /\ y.dirty = FALSE
  BY <1>3 DEF Rest
<1>6. y = AsRecord(y)
  BY <1>3 DEF Rest, AsRecord
<1>7. list \in SUBSET Windows /\ sure \in BOOLEAN
  BY <1>2, LiveTyped
<1>8. y \in Hand
  BY <1>5, <1>6, <1>7 DEF Hand, AsRecord
<1>9. Sound(y)
  BY <1>5 DEF Sound
<1>10. \A k \in Hands : hand[k] \in Hand
  BY DEF TypeOK
<1>11. \A k \in Hands : k # h =>
          /\ hand'[k] \in Hand /\ Like(hand[k], hand'[k]) /\ (hand'[k].sure => hand[k].sure)
          /\ hand'[k].touched = hand[k].touched /\ hand'[k].fresh = hand[k].fresh
          /\ Launching(k) => ~hand'[k].sure
  <2>. SUFFICES ASSUME NEW k \in Hands, k # h
                PROVE  /\ hand'[k] \in Hand /\ Like(hand[k], hand'[k])
                       /\ (hand'[k].sure => hand[k].sure)
                       /\ hand'[k].touched = hand[k].touched /\ hand'[k].fresh = hand[k].fresh
                       /\ Launching(k) => ~hand'[k].sure
    OBVIOUS
  <2>1. CASE Launching(k)
    <3>1. hand'[k] = [hand[k] EXCEPT !.sure = FALSE]
      BY <1>1, <2>1
    <3>. QED
      BY <1>10, <3>1, NoLongerSure
  <2>2. CASE ~Launching(k)
    <3>1. hand'[k] = hand[k]
      BY <1>1, <2>2
    <3>. QED
      BY <1>10, <2>2, <3>1 DEF Like
  <2>. QED
    BY <2>1, <2>2
<1>12. hand' \in [Hands -> Hand]
  <2>1. hand' = [k \in Hands |-> hand'[k]]
    BY <1>1
  <2>. QED
    BY <1>4, <1>8, <1>11, <2>1
<1>13. Others(h)
  BY <1>11 DEF Others
<1>14. sure => list = Live /\ \A k \in Hands : ~Launching(k)
  BY <1>1, <1>2 DEF Lists
<1>. QED
  BY <1>4, <1>5, <1>9, <1>11, <1>12, <1>13, <1>14, SoundAfter DEF Start

LEMMA ListIs ==
  ASSUME TypeOK, HandIsSound, NEW h \in Hands, ListForMember(h)
  PROVE  /\ hand' \in [Hands -> Hand] /\ HandIsSound' /\ Alone(h)
         /\ LET x == hand[h]
                y == hand'[h]
            IN  /\ x.pc = "list" /\ y.pc = "choose" /\ y.who = x.who /\ y.exact = x.exact
                /\ y.path = None /\ y.drv = x.drv /\ y.base = x.base /\ y.mem = None
                /\ y.peer = None /\ y.opened = None /\ y.touched = x.touched
                /\ y.sure => x.sure /\ y.list = Live
<1>1. PICK list \in {Live, {}}, read \in BOOLEAN :
          /\ Lists(list, read)
          /\ Goes(h, [hand[h] EXCEPT !.pc = "choose", !.list = list, !.sure = @ /\ read])
  BY DEF ListForMember
<1>. DEFINE x == hand[h]
<1>2. x \in Hand /\ Sound(x) /\ x.pc = "list"
  BY DEF TypeOK, HandIsSound, ListForMember
<1>3. PICK sure : sure = (x.sure /\ read)
  OBVIOUS
<1>4. PICK y : y = [x EXCEPT !.pc = "choose", !.list = list, !.sure = sure]
  OBVIOUS
<1>5. list \in SUBSET Windows /\ sure \in BOOLEAN
  BY <1>3, LiveTyped
<1>6. /\ y.pc = "choose" /\ y.who = x.who /\ y.root = x.root /\ y.exact = x.exact /\ y.list = list
      /\ y.path = x.path /\ y.drv = x.drv /\ y.mem = x.mem /\ y.peer = x.peer
      /\ y.opened = x.opened /\ y.touched = x.touched /\ y.sure = sure /\ y.base = x.base
      /\ y.dirty = x.dirty
  BY <1>2, <1>4 DEF Hand
<1>7. y = AsRecord(y)
  BY <1>2, <1>4 DEF Hand, AsRecord
<1>8. y \in Hand
  BY <1>2, <1>4, <1>5, <1>7 DEF Hand, AsRecord
<1>9. Sound(y)
  BY <1>2, <1>6 DEF Sound
<1>10. Goes(h, y)
  BY <1>1, <1>3, <1>4
<1>11. hand' \in [Hands -> Hand] /\ hand'[h] = y /\ Alone(h)
  BY <1>8, <1>10, GoesTyped DEF TypeOK, Alone
<1>12. HandIsSound'
  BY <1>9, <1>11, AloneIsOthers, SoundAfter
<1>13. sure => x.sure /\ list = Live
  BY <1>1, <1>3 DEF Lists
<1>. QED
  BY <1>2, <1>6, <1>11, <1>12, <1>13 DEF Sound

LEMMA ChooseIs ==
  ASSUME TypeOK, HandIsSound, NEW h \in Hands, Choose(h)
  PROVE  /\ hand' \in [Hands -> Hand] /\ HandIsSound' /\ Alone(h)
         /\ LET x == hand[h]
                y == hand'[h]
            IN  /\ x.pc = "choose" /\ y.pc = "look" /\ y.who = x.who /\ y.exact = x.exact
                /\ y.path \in Paths
                /\ y.path # Fallback => y.path \notin BusyWorktrees(x.list)
                /\ y.drv = x.drv /\ y.base = x.base /\ y.mem = None /\ x.mem = None
                /\ y.peer = None /\ y.opened = None /\ y.touched = x.touched /\ y.sure = x.sure
<1>. DEFINE x == hand[h]
<1>1. x \in Hand /\ Sound(x) /\ x.pc = "choose"
  BY DEF TypeOK, HandIsSound, Choose
<1>2. PICK path : path = ChoosePath(BusyWorktrees(x.list)
                                    \cup IF x.who = "member" THEN {x.drv} ELSE {})
  OBVIOUS
<1>3. /\ path \in Paths
      /\ path # Fallback => path \notin BusyWorktrees(x.list)
      /\ x.who = "member" /\ path # Fallback => path # x.drv
  BY <1>2, ChosenPath
<1>4. PICK y : y = [x EXCEPT !.pc = "look", !.path = path, !.exists = tree[path].there, !.list = {}]
  OBVIOUS
<1>5. tree[path].there \in BOOLEAN
  BY <1>3 DEF TypeOK
<1>6. /\ y.pc = "look" /\ y.who = x.who /\ y.root = x.root /\ y.exact = x.exact
      /\ y.path = path /\ y.drv = x.drv /\ y.mem = x.mem /\ y.peer = x.peer
      /\ y.opened = x.opened /\ y.touched = x.touched /\ y.sure = x.sure /\ y.base = x.base
      /\ y.dirty = x.dirty
  BY <1>1, <1>4 DEF Hand
<1>7. y = AsRecord(y)
  BY <1>1, <1>4 DEF Hand, AsRecord
<1>8. y \in Hand
  BY <1>1, <1>3, <1>4, <1>5, <1>7 DEF Hand, AsRecord
<1>9. Sound(y)
  <2>1. x.mem = None /\ x.peer = None /\ x.opened = None /\ x.who # "sync" /\ path # None
    BY <1>1, <1>3, Kinds DEF Sound
  <2>2. x.who \in {"driver", "member", "sync"}
    BY <1>1 DEF Hand
  <2>3. CASE x.who = "driver"
    BY <1>1, <1>6, <2>1, <2>3 DEF Sound
  <2>4. CASE x.who = "member"
    BY <1>1, <1>3, <1>6, <2>1, <2>4 DEF Sound
  <2>. QED
    BY <2>1, <2>2, <2>3, <2>4
<1>10. Goes(h, y)
  BY <1>2, <1>4 DEF Choose
<1>11. hand' \in [Hands -> Hand] /\ hand'[h] = y /\ Alone(h)
  BY <1>8, <1>10, GoesTyped DEF TypeOK, Alone
<1>12. HandIsSound'
  BY <1>9, <1>11, AloneIsOthers, SoundAfter
<1>. QED
  BY <1>1, <1>3, <1>6, <1>11, <1>12 DEF Sound

\* The hand h is done with its tree, and nothing has changed there.
LEMMA ReadyGoes ==
  ASSUME TypeOK, HandIsSound, NEW h \in Hands, hand[h].pc \in {"look", "move"},
         NEW res \in Paths \cup {None}, NEW rev \in Heads \cup {None}, NEW ok \in BOOLEAN,
         ok => res = hand[h].path /\ rev \in Heads, Goes(h, Ready(h, res, rev, ok))
  PROVE  /\ hand' \in [Hands -> Hand] /\ HandIsSound' /\ Alone(h)
         /\ hand'[h] = Ready(h, res, rev, ok)
<1>1. hand[h] \in Hand /\ Sound(hand[h])
  BY DEF TypeOK, HandIsSound
<1>2. Ready(h, res, rev, ok) \in Hand /\ Sound(Ready(h, res, rev, ok))
  BY <1>1, ReadyIs
<1>3. hand' \in [Hands -> Hand] /\ hand'[h] = Ready(h, res, rev, ok) /\ Alone(h)
  BY <1>2, GoesTyped DEF TypeOK, Alone
<1>. QED
  BY <1>2, <1>3, AloneIsOthers, SoundAfter

\* The hand h has changed the tree at p.
LEMMA ReadyChanges ==
  ASSUME TypeOK, HandIsSound, NEW h \in Hands, hand[h].pc = "move",
         NEW rev \in Heads, NEW ok \in BOOLEAN, NEW t,
         Changes(h, hand[h].path, t, Ready(h, hand[h].path, rev, ok))
  PROVE  /\ hand' \in [Hands -> Hand] /\ HandIsSound' /\ Others(h)
         /\ hand'[h] = Ready(h, hand[h].path, rev, ok)
         /\ \A k \in Hands : k # h =>
               /\ hand'[k].sure = hand[k].sure /\ hand'[k].fresh = hand[k].fresh
               /\ hand'[k].touched = IF hand[h].path \in {hand[k].drv, hand[k].mem}
                                     THEN hand[k].touched \cup {hand[h].path}
                                     ELSE hand[k].touched
<1>1. hand[h] \in Hand /\ Sound(hand[h])
  BY DEF TypeOK, HandIsSound
<1>2. hand[h].path \in Paths
  BY <1>1 DEF Hand, Sound
<1>3. Ready(h, hand[h].path, rev, ok) \in Hand /\ Sound(Ready(h, hand[h].path, rev, ok))
  BY <1>1, <1>2, ReadyIs
<1>4. /\ hand' \in [Hands -> Hand] /\ hand'[h] = Ready(h, hand[h].path, rev, ok)
      /\ \A k \in Hands : k # h =>
            /\ Like(hand[k], hand'[k])
            /\ hand'[k].sure = hand[k].sure /\ hand'[k].fresh = hand[k].fresh
            /\ hand'[k].touched = IF hand[h].path \in {hand[k].drv, hand[k].mem}
                                  THEN hand[k].touched \cup {hand[h].path} ELSE hand[k].touched
  BY <1>2, <1>3, ChangesTyped DEF TypeOK
<1>5. Others(h)
  BY <1>4 DEF Others
<1>. QED
  BY <1>3, <1>4, <1>5, SoundAfter

\* The hand h goes on to move or add a tree.
LEMMA MoveIs ==
  ASSUME TypeOK, HandIsSound, NEW h \in Hands, hand[h].pc = "look", NEW dirty, dirty = FALSE,
         \/ Goes(h, [hand[h] EXCEPT !.pc = "move", !.rev = head, !.dirty = dirty])
         \/ Goes(h, [hand[h] EXCEPT !.pc = "move", !.rev = head])
  PROVE  /\ hand' \in [Hands -> Hand] /\ HandIsSound' /\ Alone(h)
         /\ LET x == hand[h]
                y == hand'[h]
            IN  /\ y.pc = "move" /\ y.who = x.who /\ y.exact = x.exact /\ y.path = x.path
                /\ y.exists = x.exists /\ y.drv = x.drv /\ y.base = x.base /\ y.mem = None
                /\ y.peer = x.peer /\ y.opened = x.opened /\ y.touched = x.touched
                /\ y.sure = x.sure /\ y.fresh = x.fresh
<1>. DEFINE x == hand[h]
<1>1. x \in Hand /\ Sound(x) /\ head \in Heads /\ x.dirty = FALSE
  <2>1. x \in Hand /\ Sound(x) /\ head \in Heads
    BY DEF TypeOK, HandIsSound
  <2>. QED
    BY <2>1 DEF Hand, Sound
<1>2. PICK y : /\ Goes(h, y)
               /\ \/ y = [x EXCEPT !.pc = "move", !.rev = head, !.dirty = dirty]
                  \/ y = [x EXCEPT !.pc = "move", !.rev = head]
  OBVIOUS
<1>3. /\ y.pc = "move" /\ y.who = x.who /\ y.root = x.root /\ y.exact = x.exact
      /\ y.path = x.path /\ y.drv = x.drv /\ y.mem = x.mem /\ y.peer = x.peer
      /\ y.opened = x.opened /\ y.touched = x.touched /\ y.sure = x.sure /\ y.base = x.base
      /\ y.rev = head /\ y.dirty = FALSE /\ y.exists = x.exists /\ y.fresh = x.fresh
      /\ y.list = x.list
  BY <1>1, <1>2 DEF Hand
<1>4. y = AsRecord(y)
  BY <1>1, <1>2 DEF Hand, AsRecord
<1>5. y \in Hand
  BY <1>1, <1>3, <1>4 DEF Hand, AsRecord
<1>6. Sound(y)
  BY <1>1, <1>3 DEF Sound
<1>7. hand' \in [Hands -> Hand] /\ hand'[h] = y /\ Alone(h)
  BY <1>2, <1>5, GoesTyped DEF TypeOK, Alone
<1>8. HandIsSound'
  BY <1>6, <1>7, AloneIsOthers, SoundAfter
<1>. QED
  BY <1>1, <1>3, <1>7, <1>8 DEF Sound

LEMMA SyncIs ==
  ASSUME TypeOK, HandIsSound, NEW h \in Hands, NEW r \in Roots, Sync(h, r)
  PROVE  /\ hand' \in [Hands -> Hand] /\ HandIsSound' /\ Alone(h)
         /\ hand[h].pc = "rest"
         /\ LET y == hand'[h]
            IN  /\ y.pc = "look" /\ y.who = "sync" /\ y.exact = FALSE
                /\ y.path = thread[r].tree /\ y.drv = None /\ y.mem = None
                /\ y.peer = None /\ y.opened = None /\ y.fresh = {}
                /\ y.sure = win[thread[r].window].sure
<1>1. thread[r].tree \in Paths /\ thread[r].window \in Windows /\ Sound(hand[h])
  BY DEF Sync, TypeOK, Live, HandIsSound
<1>2. PICK y : y = [Rest EXCEPT !.pc = "look", !.who = "sync",
                                !.path = thread[r].tree, !.exists = TRUE,
                                !.sure = win[thread[r].window].sure]
  OBVIOUS
<1>3. win[thread[r].window].sure \in BOOLEAN
  BY <1>1 DEF TypeOK
<1>4. /\ y.pc = "look" /\ y.who = "sync" /\ y.root = None /\ y.exact = FALSE
      /\ y.path = thread[r].tree /\ y.drv = None /\ y.mem = None /\ y.peer = None
      /\ y.opened = None /\ y.touched = {} /\ y.sure = win[thread[r].window].sure
      /\ y.base = None /\ y.rev = None /\ y.dirty = FALSE /\ y.exists = TRUE /\ y.fresh = {}
      /\ y.list = {}
  BY <1>2 DEF Rest
<1>5. y = AsRecord(y)
  BY <1>2 DEF Rest, AsRecord
<1>6. y \in Hand
  BY <1>1, <1>3, <1>4, <1>5 DEF Hand, AsRecord
<1>7. Sound(y)
  BY <1>1, <1>4, Kinds DEF Sound
<1>8. hand' \in [Hands -> Hand] /\ hand'[h] = y /\ Alone(h)
  BY <1>2, <1>6, GoesTyped DEF Sync, TypeOK, Alone
<1>9. HandIsSound'
  BY <1>7, <1>8, AloneIsOthers, SoundAfter
<1>. QED
  BY <1>4, <1>8, <1>9 DEF Sync

LEMMA NewWindowIs ==
  ASSUME TypeOK, NEW h \in Hands, NEW w \in Unopened, NEW p \in Paths \cup {None}, NEW now \in Hand,
         NewWindow(h, w, p, now)
  PROVE  /\ w \in Windows /\ win[w].state = "unopened"
         /\ hand' \in [Hands -> Hand] /\ hand'[h] = now
         /\ \A k \in Hands : k # h =>
               /\ Like(hand[k], hand'[k])
               /\ hand'[k].sure = hand[k].sure /\ hand'[k].touched = hand[k].touched
               /\ hand'[k].fresh = IF hand[k].pc \in {"choose", "look", "move"}
                                   THEN hand[k].fresh \cup {w} ELSE hand[k].fresh
         /\ win' = [win EXCEPT ![w] = [state |-> "working", tree |-> p, sure |-> hand[h].sure]]
<1>1. w \in Windows /\ win[w].state = "unopened"
  BY DEF Unopened
<1>2. \A k \in Hands : hand[k] \in Hand
  BY DEF TypeOK
<1>3. \A k \in Hands :
         hand'[k] = IF k = h THEN now
                    ELSE IF hand[k].pc \in {"choose", "look", "move"}
                    THEN [hand[k] EXCEPT !.fresh = @ \cup {w}] ELSE hand[k]
  BY DEF NewWindow
<1>4. \A k \in Hands : k # h =>
         /\ hand'[k] \in Hand /\ Like(hand[k], hand'[k])
         /\ hand'[k].sure = hand[k].sure /\ hand'[k].touched = hand[k].touched
         /\ hand'[k].fresh = IF hand[k].pc \in {"choose", "look", "move"}
                             THEN hand[k].fresh \cup {w} ELSE hand[k].fresh
  <2>. SUFFICES ASSUME NEW k \in Hands, k # h
                PROVE  /\ hand'[k] \in Hand /\ Like(hand[k], hand'[k])
                       /\ hand'[k].sure = hand[k].sure /\ hand'[k].touched = hand[k].touched
                       /\ hand'[k].fresh = IF hand[k].pc \in {"choose", "look", "move"}
                                           THEN hand[k].fresh \cup {w} ELSE hand[k].fresh
    OBVIOUS
  <2>1. CASE hand[k].pc \in {"choose", "look", "move"}
    <3>1. hand'[k] = [hand[k] EXCEPT !.fresh = @ \cup {w}]
      BY <1>3, <2>1
    <3>. QED
      BY <1>1, <1>2, <2>1, <3>1, ToldOfWindow
  <2>2. CASE hand[k].pc \notin {"choose", "look", "move"}
    BY <1>2, <1>3, <2>2 DEF Like
  <2>. QED
    BY <2>1, <2>2
<1>5. hand' = [k \in Hands |-> hand'[k]]
  BY DEF NewWindow
<1>6. hand' \in [Hands -> Hand]
  BY <1>3, <1>4, <1>5
<1>. QED
  BY <1>1, <1>3, <1>4, <1>6 DEF NewWindow

LEMMA NewWindowTold ==
  ASSUME NEW h \in Hands, NEW w,
         \A k \in Hands : k # h =>
               /\ Like(hand[k], hand'[k])
               /\ hand'[k].sure = hand[k].sure /\ hand'[k].touched = hand[k].touched
               /\ hand'[k].fresh = IF hand[k].pc \in {"choose", "look", "move"}
                                   THEN hand[k].fresh \cup {w} ELSE hand[k].fresh
  PROVE  Others(h)
  BY DEF Others

\* What the hand h and the windows are after one is opened in the tree at p.
Opened(h, w, p) ==
    /\ w \in Windows /\ win[w].state = "unopened"
    /\ win' = [win EXCEPT ![w] = [state |-> "working", tree |-> p, sure |-> hand[h].sure]]
    /\ \A k \in Hands : k # h =>
          /\ hand'[k].sure = hand[k].sure /\ hand'[k].touched = hand[k].touched
          /\ hand'[k].fresh = IF hand[k].pc \in {"choose", "look", "move"}
                              THEN hand[k].fresh \cup {w} ELSE hand[k].fresh

LEMMA OpenMemberIs ==
  ASSUME TypeOK, HandIsSound, NEW h \in Hands, OpenMember(h)
  PROVE  /\ hand' \in [Hands -> Hand] /\ HandIsSound' /\ Others(h)
         /\ LET x == hand[h]
                y == hand'[h]
            IN  /\ x.pc = "member" /\ x.who = "member" /\ y.pc = "open" /\ y.who = "member"
                /\ x.mem \in Paths /\ y.exact = x.exact /\ y.path = None /\ y.drv = x.drv
                /\ y.base = x.base /\ y.mem = None /\ y.opened = None
                /\ y.touched = x.touched /\ y.sure = x.sure
                /\ \/ UNCHANGED win /\ Alone(h) /\ y.peer = None
                   \/ \E w \in Windows : /\ Opened(h, w, x.mem)
                                         /\ y.peer = [window |-> w, tree |-> x.mem]
<1>. DEFINE x == hand[h]
<1>1. x \in Hand /\ Sound(x) /\ x.pc = "member"
  BY DEF TypeOK, HandIsSound, OpenMember
<1>2. PICK next : next = [x EXCEPT !.pc = "open", !.mem = None, !.rev = None]
  OBVIOUS
<1>3. /\ next.pc = "open" /\ next.who = x.who /\ next.root = x.root /\ next.exact = x.exact
      /\ next.path = x.path /\ next.drv = x.drv /\ next.base = x.base /\ next.mem = None
      /\ next.peer = x.peer /\ next.opened = x.opened /\ next.touched = x.touched
      /\ next.sure = x.sure /\ next.dirty = x.dirty
  BY <1>1, <1>2 DEF Hand
<1>4. next \in Hand
  <2>1. next = AsRecord(next)
    BY <1>1, <1>2 DEF Hand, AsRecord
  <2>. QED
    BY <1>1, <1>2, <2>1 DEF Hand, AsRecord
<1>5. x.who = "member" /\ x.mem \in Paths /\ x.path = None /\ x.opened = None /\ x.peer = None
  BY <1>1 DEF Hand, Sound
<1>6. Sound(next)
  BY <1>1, <1>3, <1>5 DEF Sound
<1>7. CASE Goes(h, next) /\ UNCHANGED win
  <2>1. hand' \in [Hands -> Hand] /\ hand'[h] = next /\ Alone(h)
    BY <1>4, <1>7, GoesTyped DEF TypeOK, Alone
  <2>2. HandIsSound' /\ Others(h)
    BY <1>6, <2>1, AloneIsOthers, SoundAfter
  <2>. QED
    BY <1>1, <1>3, <1>5, <1>7, <2>1, <2>2
<1>8. ASSUME NEW w \in Unopened,
             NewWindow(h, w, x.mem, [next EXCEPT !.peer = [window |-> w, tree |-> x.mem]])
      PROVE  /\ hand' \in [Hands -> Hand] /\ HandIsSound' /\ Others(h)
             /\ LET y == hand'[h]
                IN  /\ y.pc = "open" /\ y.who = "member" /\ y.exact = x.exact
                    /\ y.path = None /\ y.drv = x.drv /\ y.base = x.base /\ y.mem = None
                    /\ y.opened = None /\ y.touched = x.touched /\ y.sure = x.sure
                    /\ Opened(h, w, x.mem)
                    /\ y.peer = [window |-> w, tree |-> x.mem]
  <2>1. PICK y : y = [next EXCEPT !.peer = [window |-> w, tree |-> x.mem]]
    OBVIOUS
  <2>2. /\ y.pc = "open" /\ y.who = "member" /\ y.root = x.root /\ y.exact = x.exact
        /\ y.path = None /\ y.drv = x.drv /\ y.base = x.base /\ y.mem = None
        /\ y.peer = [window |-> w, tree |-> x.mem] /\ y.opened = None
        /\ y.touched = x.touched /\ y.sure = x.sure /\ y.dirty = x.dirty
    BY <1>3, <1>4, <1>5, <2>1 DEF Hand
  <2>3. w \in Windows
    BY <1>8 DEF Unopened
  <2>4. y \in Hand
    <3>1. y = AsRecord(y)
      BY <1>4, <2>1 DEF Hand, AsRecord
    <3>2. [window |-> w, tree |-> x.mem] \in [window : Windows, tree : Paths]
      BY <1>5, <2>3
    <3>. QED
      BY <1>4, <2>1, <3>1, <3>2 DEF Hand, AsRecord
  <2>5. Sound(y)
    <3>1. x.mem # x.drv \/ x.drv = Fallback
      BY <1>1, <1>5 DEF Sound
    <3>2. y.peer.tree = x.mem
      BY <2>2
    <3>. QED
      BY <1>1, <1>5, <2>2, <3>1, <3>2, Kinds DEF Sound
  <2>6. NewWindow(h, w, x.mem, y)
    BY <1>8, <2>1
  <2>7. /\ hand' \in [Hands -> Hand] /\ hand'[h] = y
        /\ win[w].state = "unopened"
        /\ \A k \in Hands : k # h =>
               /\ Like(hand[k], hand'[k])
               /\ hand'[k].sure = hand[k].sure /\ hand'[k].touched = hand[k].touched
               /\ hand'[k].fresh = IF hand[k].pc \in {"choose", "look", "move"}
                                   THEN hand[k].fresh \cup {w} ELSE hand[k].fresh
        /\ win' = [win EXCEPT ![w] = [state |-> "working", tree |-> x.mem, sure |-> hand[h].sure]]
    <3>1. PICK p : p = x.mem
      OBVIOUS
    <3>2. p \in Paths \cup {None} /\ NewWindow(h, w, p, y)
      BY <1>5, <2>6, <3>1
    <3>3. NewWindow(h, w, p, y) /\ w \in Unopened /\ y \in Hand /\ p \in Paths \cup {None}
      BY <1>8, <2>4, <3>2
    <3>4. /\ w \in Windows /\ win[w].state = "unopened"
          /\ hand' \in [Hands -> Hand] /\ hand'[h] = y
          /\ \A k \in Hands : k # h =>
                /\ Like(hand[k], hand'[k])
                /\ hand'[k].sure = hand[k].sure /\ hand'[k].touched = hand[k].touched
                /\ hand'[k].fresh = IF hand[k].pc \in {"choose", "look", "move"}
                                    THEN hand[k].fresh \cup {w} ELSE hand[k].fresh
          /\ win' = [win EXCEPT ![w] = [state |-> "working", tree |-> p, sure |-> hand[h].sure]]
      BY <3>3, NewWindowIs
    <3>. QED
      BY <3>1, <3>4
  <2>8. Others(h)
    BY <2>7, NewWindowTold
  <2>9. HandIsSound'
    BY <2>5, <2>7, <2>8, SoundAfter
  <2>10. Opened(h, w, x.mem)
    BY <2>3, <2>7 DEF Opened
  <2>. QED
    BY <2>2, <2>7, <2>8, <2>9, <2>10
<1>9. \/ Goes(h, next) /\ UNCHANGED win
      \/ \E w \in Unopened : NewWindow(h, w, x.mem, [next EXCEPT !.peer = [window |-> w, tree |-> x.mem]])
  BY <1>2 DEF OpenMember
<1>. QED
  BY <1>1, <1>5, <1>7, <1>8, <1>9 DEF Unopened

LEMMA OpenIs ==
  ASSUME TypeOK, HandIsSound, NEW h \in Hands, Open(h)
  PROVE  /\ hand' \in [Hands -> Hand] /\ HandIsSound' /\ Others(h)
         /\ LET x == hand[h]
                y == hand'[h]
            IN  /\ x.pc = "open"
                /\ \/ UNCHANGED win /\ Alone(h) /\ y = Rest
                   \/ /\ y.pc = "record" /\ y.who = x.who /\ y.exact = FALSE /\ y.path = None
                      /\ y.drv = x.drv /\ y.mem = None /\ y.peer = x.peer /\ y.sure = x.sure
                      /\ \E w \in Windows : Opened(h, w, x.drv) /\ y.opened = w
<1>. DEFINE x == hand[h]
<1>1. x \in Hand /\ Sound(x) /\ x.pc = "open"
  BY DEF TypeOK, HandIsSound, Open
<1>2. x.mem = None /\ x.path = None /\ x.opened = None /\ x.who # "sync"
  BY <1>1 DEF Sound
<1>3. CASE Goes(h, Rest) /\ UNCHANGED win
  <2>1. hand' \in [Hands -> Hand] /\ hand'[h] = Rest /\ Alone(h)
    BY <1>3, RestSound, GoesTyped DEF TypeOK, Alone
  <2>2. HandIsSound' /\ Others(h)
    BY <2>1, RestSound, AloneIsOthers, SoundAfter
  <2>. QED
    BY <1>1, <1>3, <2>1, <2>2
<1>4. ASSUME NEW w \in Unopened,
             NewWindow(h, w, x.drv, [x EXCEPT !.pc = "record", !.opened = w, !.exact = FALSE,
                                              !.base = None, !.touched = {}])
      PROVE  /\ hand' \in [Hands -> Hand] /\ HandIsSound' /\ Others(h)
             /\ LET y == hand'[h]
                IN  /\ y.pc = "record" /\ y.who = x.who /\ y.exact = FALSE /\ y.path = None
                    /\ y.drv = x.drv /\ y.mem = None /\ y.peer = x.peer /\ y.sure = x.sure
                    /\ Opened(h, w, x.drv) /\ y.opened = w
  <2>1. PICK y : y = [x EXCEPT !.pc = "record", !.opened = w, !.exact = FALSE, !.base = None,
                               !.touched = {}]
    OBVIOUS
  <2>2. /\ y.pc = "record" /\ y.who = x.who /\ y.root = x.root /\ y.exact = FALSE
        /\ y.path = x.path /\ y.drv = x.drv /\ y.base = None /\ y.mem = x.mem
        /\ y.peer = x.peer /\ y.opened = w /\ y.sure = x.sure /\ y.dirty = x.dirty
    BY <1>1, <2>1 DEF Hand
  <2>3. w \in Windows
    BY <1>4 DEF Unopened
  <2>4. y \in Hand
    <3>1. y = AsRecord(y)
      BY <1>1, <2>1 DEF Hand, AsRecord
    <3>2. /\ y.pc = "record" /\ y.opened = w /\ y.exact = FALSE /\ y.base = None
          /\ y.touched = {} /\ y.root = x.root /\ y.who = x.who /\ y.list = x.list
          /\ y.path = x.path /\ y.exists = x.exists /\ y.rev = x.rev /\ y.dirty = x.dirty
          /\ y.drv = x.drv /\ y.mem = x.mem /\ y.peer = x.peer /\ y.sure = x.sure
          /\ y.fresh = x.fresh
      BY <1>1, <2>1 DEF Hand
    <3>. QED
      BY <1>1, <2>3, <3>1, <3>2 DEF Hand, AsRecord
  <2>5. Sound(y)
    BY <1>1, <1>2, <2>2, <2>3, Kinds DEF Sound
  <2>6. NewWindow(h, w, x.drv, y) /\ x.drv \in Paths \cup {None}
    BY <1>1, <1>4, <2>1 DEF Hand
  <2>7. /\ hand' \in [Hands -> Hand] /\ hand'[h] = y
        /\ win[w].state = "unopened"
        /\ \A k \in Hands : k # h =>
               /\ Like(hand[k], hand'[k])
               /\ hand'[k].sure = hand[k].sure /\ hand'[k].touched = hand[k].touched
               /\ hand'[k].fresh = IF hand[k].pc \in {"choose", "look", "move"}
                                   THEN hand[k].fresh \cup {w} ELSE hand[k].fresh
        /\ win' = [win EXCEPT ![w] = [state |-> "working", tree |-> x.drv, sure |-> hand[h].sure]]
    <3>1. PICK p : p = x.drv
      OBVIOUS
    <3>2. p \in Paths \cup {None} /\ NewWindow(h, w, p, y)
      BY <2>6, <3>1
    <3>3. NewWindow(h, w, p, y) /\ w \in Unopened /\ y \in Hand /\ p \in Paths \cup {None}
      BY <1>4, <2>4, <3>2
    <3>4. /\ w \in Windows /\ win[w].state = "unopened"
          /\ hand' \in [Hands -> Hand] /\ hand'[h] = y
          /\ \A k \in Hands : k # h =>
                /\ Like(hand[k], hand'[k])
                /\ hand'[k].sure = hand[k].sure /\ hand'[k].touched = hand[k].touched
                /\ hand'[k].fresh = IF hand[k].pc \in {"choose", "look", "move"}
                                    THEN hand[k].fresh \cup {w} ELSE hand[k].fresh
          /\ win' = [win EXCEPT ![w] = [state |-> "working", tree |-> p, sure |-> hand[h].sure]]
      BY <3>3, NewWindowIs
    <3>. QED
      BY <3>1, <3>4
  <2>8. Others(h)
    BY <2>7, NewWindowTold
  <2>9. HandIsSound'
    BY <2>5, <2>7, <2>8, SoundAfter
  <2>10. Opened(h, w, x.drv)
    BY <2>3, <2>7 DEF Opened
  <2>. QED
    BY <1>2, <2>2, <2>7, <2>8, <2>9, <2>10
<1>5. \/ Goes(h, Rest) /\ UNCHANGED win
      \/ \E w \in Unopened :
            NewWindow(h, w, x.drv, [x EXCEPT !.pc = "record", !.opened = w, !.exact = FALSE,
                                             !.base = None, !.touched = {}])
  BY DEF Open
<1>. QED
  BY <1>1, <1>3, <1>4, <1>5 DEF Unopened

LEMMA RecordIs ==
  ASSUME TypeOK, HandIsSound, NEW h \in Hands, Record(h)
  PROVE  /\ hand' \in [Hands -> Hand] /\ HandIsSound' /\ Alone(h)
         /\ LET x == hand[h]
                y == hand'[h]
            IN  /\ x.pc = "record" /\ x.root \in Roots /\ x.opened \in Windows
                /\ \/ y = Rest
                   \/ /\ y.pc = "attach" /\ y.who = "driver" /\ y.exact = FALSE /\ y.path = None
                      /\ y.drv = None /\ y.mem = None /\ y.opened = None /\ y.peer = x.peer
                      /\ y.sure = x.sure /\ x.peer # None
<1>. DEFINE x == hand[h]
<1>1. x \in Hand /\ Sound(x) /\ x.pc = "record"
  BY DEF TypeOK, HandIsSound, Record
<1>2. x.opened \in Windows /\ x.root \in Roots
  BY <1>1 DEF Hand, Sound
<1>3. PICK y : y = [Rest EXCEPT !.pc = "attach", !.root = x.root, !.sure = x.sure,
                                !.peer = x.peer]
  OBVIOUS
<1>4. /\ y.pc = "attach" /\ y.who = "driver" /\ y.root = x.root /\ y.exact = FALSE
      /\ y.path = None /\ y.drv = None /\ y.mem = None /\ y.peer = x.peer /\ y.opened = None
      /\ y.sure = x.sure /\ y.dirty = FALSE
  BY <1>3 DEF Rest
<1>5. y \in Hand
  <2>1. y = AsRecord(y)
    BY <1>3 DEF Rest, AsRecord
  <2>2. Rest \in Hand
    BY RestSound
  <2>. QED
    BY <1>1, <1>3, <2>1, <2>2 DEF Hand, AsRecord
<1>6. x.peer # None => Sound(y)
  BY <1>2, <1>4 DEF Sound
<1>7. Goes(h, Rest) \/ (x.peer # None /\ Goes(h, y))
  BY <1>3 DEF Record
<1>8. CASE Goes(h, Rest)
  <2>1. hand' \in [Hands -> Hand] /\ hand'[h] = Rest /\ Alone(h)
    BY <1>8, RestSound, GoesTyped DEF TypeOK, Alone
  <2>2. HandIsSound'
    BY <2>1, RestSound, AloneIsOthers, SoundAfter
  <2>. QED
    BY <1>1, <1>2, <2>1, <2>2
<1>9. CASE x.peer # None /\ Goes(h, y)
  <2>1. hand' \in [Hands -> Hand] /\ hand'[h] = y /\ Alone(h)
    BY <1>5, <1>9, GoesTyped DEF TypeOK, Alone
  <2>2. HandIsSound'
    BY <1>6, <1>9, <2>1, AloneIsOthers, SoundAfter
  <2>. QED
    BY <1>1, <1>2, <1>4, <1>9, <2>1, <2>2
<1>. QED
  BY <1>7, <1>8, <1>9

LEMMA AttachIs ==
  ASSUME TypeOK, HandIsSound, NEW h \in Hands, Attach(h)
  PROVE  /\ hand' \in [Hands -> Hand] /\ HandIsSound' /\ Alone(h)
         /\ hand'[h] = Rest /\ hand[h].pc = "attach" /\ hand[h].root \in Roots
         /\ hand[h].peer \in [window : Windows, tree : Paths]
<1>1. hand[h] \in Hand /\ Sound(hand[h]) /\ hand[h].pc = "attach"
  BY DEF TypeOK, HandIsSound, Attach
<1>2. hand[h].root \in Roots /\ hand[h].peer \in [window : Windows, tree : Paths]
  BY <1>1 DEF Hand, Sound
<1>3. hand' \in [Hands -> Hand] /\ hand'[h] = Rest /\ Alone(h)
  BY RestSound, GoesTyped DEF Attach, TypeOK, Alone
<1>. QED
  BY <1>1, <1>2, <1>3, RestSound, AloneIsOthers, SoundAfter

LEMMA RemoveIs ==
  ASSUME TypeOK, HandIsSound, PruneIsSound, Remove
  PROVE  LET p == Min(prune.todo)
         IN  /\ p \in prune.todo /\ p \in Paths
             /\ hand' \in [Hands -> Hand] /\ HandIsSound'
             /\ \/ UNCHANGED <<tree, hand>>
                \/ /\ tree[p].dirty = FALSE /\ tree' = [tree EXCEPT ![p] = NoTree]
                   /\ \A k \in Hands :
                         /\ Like(hand[k], hand'[k])
                         /\ hand'[k].sure = hand[k].sure /\ hand'[k].fresh = hand[k].fresh
                         /\ hand'[k].touched = hand[k].touched
                            \/ hand'[k].touched = hand[k].touched \cup {p}
                         /\ p \in {hand[k].drv, hand[k].mem} => p \in hand'[k].touched
<1>1. prune.todo \in SUBSET Nat /\ prune.todo \subseteq Paths /\ prune.todo # {}
  <2>1. prune.todo \in SUBSET Paths
    BY DEF TypeOK
  <2>2. prune.pc # "rest"
    BY DEF Remove
  <2>. QED
    BY <2>1, <2>2, Kinds DEF PruneIsSound
<1>2. PICK p : p = Min(prune.todo)
  OBVIOUS
<1>3. p \in prune.todo /\ p \in Paths
  BY <1>1, <1>2, MinIsLeast
<1>4. CASE UNCHANGED <<tree, hand>>
  <2>1. \A k \in Hands : Like(hand[k], hand'[k])
    BY <1>4 DEF Like
  <2>2. HandIsSound'
    BY <2>1, SoundForAll
  <2>. QED
    BY <1>2, <1>3, <1>4, <2>2 DEF TypeOK
<1>5. CASE ~tree[p].dirty /\ tree' = [tree EXCEPT ![p] = NoTree] /\ hand' = Touched(None, p)
  <2>. DEFINE told(k) == [hand[k] EXCEPT !.touched = @ \cup {p}]
  <2>1. \A k \in Hands : hand[k] \in Hand
    BY DEF TypeOK
  <2>2. \A k \in Hands : told(k) \in Hand /\ Like(hand[k], told(k))
                         /\ told(k).sure = hand[k].sure /\ told(k).fresh = hand[k].fresh
                         /\ told(k).touched = hand[k].touched \cup {p}
    BY <1>3, <2>1, ToldOfTree
  <2>3. \A k \in Hands : Like(hand[k], hand[k])
    BY DEF Like
  <2>4. \A k \in Hands : (hand'[k] = hand[k] /\ p \notin {hand[k].drv, hand[k].mem})
                         \/ hand'[k] = told(k)
    BY <1>5, WorktreesAssumption DEF Touched, WorktreesAssumption
  <2>5. hand' = [k \in Hands |-> hand'[k]]
    BY <1>5 DEF Touched
  <2>6. tree[p].dirty \in BOOLEAN
    BY <1>3 DEF TypeOK
  <2>. HIDE DEF told
  <2>7. hand' \in [Hands -> Hand] /\ \A k \in Hands : Like(hand[k], hand'[k])
    BY <2>1, <2>2, <2>3, <2>4, <2>5
  <2>8. HandIsSound'
    BY <2>7, SoundForAll
  <2>. QED
    BY <1>2, <1>3, <1>5, <2>2, <2>4, <2>6, <2>7, <2>8
<1>. QED
  BY <1>2, <1>4, <1>5 DEF Remove

-----------------------------------------------------------------------------
(* What every step keeps: the types, and what a hand and the housekeeper have *)

\* The base of every other argument.
Base == TypeOK /\ HandIsSound /\ TreesAreSound /\ PruneIsSound

LEMMA Counted == ASSUME TypeOK, UNCHANGED trouble \/ Fault PROVE trouble' \in 0..MaxTrouble
  BY Kinds DEF TypeOK, Fault

LEMMA MessageCounted ==
  ASSUME TypeOK, messages < MaxMessages, messages' = messages + 1
  PROVE  messages' \in 0..MaxMessages
  BY Kinds DEF TypeOK

\* Only a hand, and the count of troubles, change.
LEMMA OnlyHand ==
  ASSUME Base, UNCHANGED <<head, tree, win, thread, prune>>, messages' \in 0..MaxMessages,
         trouble' \in 0..MaxTrouble, hand' \in [Hands -> Hand], HandIsSound'
  PROVE  Base'
<1>1. TypeOK'
  BY DEF Base, TypeOK
<1>2. TreesAreSound' /\ PruneIsSound'
  BY DEF Base, TreesAreSound, PruneIsSound
<1>. QED
  BY <1>1, <1>2 DEF Base

LEMMA PathOfMove ==
  ASSUME Base, NEW h \in Hands, hand[h].pc \in {"look", "move"}
  PROVE  /\ hand[h] \in Hand /\ Sound(hand[h]) /\ hand[h].path \in Paths
         /\ hand[h].pc = "move" => hand[h].rev \in Heads
  BY DEF Base, TypeOK, HandIsSound, Sound, Hand

\* A tree becomes t.
LEMMA TreeBecomes ==
  ASSUME Base, NEW p \in Paths,
         NEW t \in [there : BOOLEAN, sha : Heads, dirty : BOOLEAN, old : BOOLEAN],
         t.dirty => t.there,
         tree' = [tree EXCEPT ![p] = t], UNCHANGED <<head, win, thread, messages>>,
         prune' \in [pc : {"rest", "look", "remove"}, todo : SUBSET Paths, late : SUBSET Paths],
         PruneIsSound', trouble' \in 0..MaxTrouble, hand' \in [Hands -> Hand], HandIsSound'
  PROVE  Base'
<1>1. TypeOK'
  BY DEF Base, TypeOK
<1>2. TreesAreSound'
  BY DEF Base, TypeOK, TreesAreSound
<1>. QED
  BY <1>1, <1>2 DEF Base

\* What is left of the list when its first path is done with.
LEMMA DroppedIs ==
  ASSUME Base, prune.pc # "rest"
  PROVE  /\ Min(prune.todo) \in prune.todo /\ Min(prune.todo) \in Paths
         /\ Dropped \in [pc : {"rest", "look", "remove"}, todo : SUBSET Paths, late : SUBSET Paths]
         /\ prune' = Dropped /\ UNCHANGED thread => PruneIsSound'
<1>1. prune.todo \in SUBSET Paths /\ prune.late \in SUBSET Paths
  BY DEF Base, TypeOK
<1>2. prune.todo \in SUBSET Nat /\ prune.todo # {}
  BY <1>1, Kinds DEF Base, PruneIsSound
<1>3. Min(prune.todo) \in prune.todo
  BY <1>2, MinIsLeast
<1>4. Dropped \in [pc : {"rest", "look", "remove"}, todo : SUBSET Paths, late : SUBSET Paths]
  BY <1>1 DEF Dropped
<1>5. ASSUME prune' = Dropped, UNCHANGED thread PROVE PruneIsSound'
  <2>1. /\ prune'.todo = prune.todo \ {Min(prune.todo)}
        /\ prune'.late = prune.late \cap prune'.todo
        /\ prune'.pc = IF prune'.todo = {} THEN "rest" ELSE "look"
    BY <1>5 DEF Dropped
  <2>. QED
    BY <1>5, <2>1 DEF Base, PruneIsSound
<1>. QED
  BY <1>1, <1>3, <1>4, <1>5

LEMMA InitBase == ASSUME Init PROVE Base
<1>. USE DEF Init
<1>1. hand \in [Hands -> Hand] /\ HandIsSound
  BY RestSound DEF HandIsSound
<1>2. head \in Heads /\ messages \in 0..MaxMessages /\ trouble \in 0..MaxTrouble /\ 0 \in Heads
  BY Kinds DEF Heads
<1>3. tree \in [Paths -> [there : BOOLEAN, sha : Heads, dirty : BOOLEAN, old : BOOLEAN]]
  BY <1>2 DEF NoTree
<1>4. win \in [Windows -> [state : {"unopened", "idle", "working", "closed"},
                           tree : Paths \cup {None}, sure : BOOLEAN]]
  OBVIOUS
<1>5. thread \in [Roots -> [window : Windows \cup {None}, tree : Paths \cup {None},
                            members : SUBSET [window : Windows, tree : Paths], known : BOOLEAN]]
  BY DEF NoThread
<1>6. prune \in [pc : {"rest", "look", "remove"}, todo : SUBSET Paths, late : SUBSET Paths]
  OBVIOUS
<1>7. TypeOK
  BY <1>1, <1>2, <1>3, <1>4, <1>5, <1>6 DEF TypeOK
<1>8. TreesAreSound /\ PruneIsSound
  BY DEF TreesAreSound, NoTree, PruneIsSound
<1>. QED
  BY <1>1, <1>7, <1>8 DEF Base

\* The tree at the path becomes t, and the hand is done with it.
LEMMA ChangedBase ==
  ASSUME Base, NEW h \in Hands, hand[h].pc = "move", NEW ok \in BOOLEAN,
         NEW t \in [there : BOOLEAN, sha : Heads, dirty : BOOLEAN, old : BOOLEAN], t.there,
         Changes(h, hand[h].path, t, Ready(h, hand[h].path, hand[h].rev, ok)),
         UNCHANGED <<head, win, thread, prune, messages>>, UNCHANGED trouble \/ Fault
  PROVE  Base'
<1>1. hand[h].path \in Paths /\ hand[h].rev \in Heads
  BY PathOfMove
<1>2. hand' \in [Hands -> Hand] /\ HandIsSound'
  <2>1. PICK rev \in Heads : rev = hand[h].rev
    BY <1>1
  <2>2. Changes(h, hand[h].path, t, Ready(h, hand[h].path, rev, ok)) /\ TypeOK /\ HandIsSound
    BY <2>1 DEF Base
  <2>. QED
    BY <2>2, ReadyChanges
<1>3. tree' = [tree EXCEPT ![hand[h].path] = t]
  BY DEF Changes
<1>4. trouble' \in 0..MaxTrouble
  BY Counted DEF Base
<1>5. PruneIsSound' /\ prune' \in [pc : {"rest", "look", "remove"}, todo : SUBSET Paths,
                                   late : SUBSET Paths]
  BY DEF Base, PruneIsSound, TypeOK
<1>6. PICK p \in Paths : p = hand[h].path
  BY <1>1
<1>. QED
  BY <1>2, <1>3, <1>4, <1>5, <1>6, TreeBecomes

\* A launch or a continuation.
LEMMA HandleBase ==
  ASSUME Base, NEW h \in Hands, Handle(h)
  PROVE  Base'
<1>. USE DEF Base
<1>1. CASE \E r \in Roots, exact \in BOOLEAN : Start(h, r, exact)
  <2>1. PICK r \in Roots, exact \in BOOLEAN : Start(h, r, exact)
    BY <1>1
  <2>2. hand' \in [Hands -> Hand] /\ HandIsSound'
    BY <2>1, StartIs
  <2>3. /\ UNCHANGED <<head, tree, win, prune>> /\ (UNCHANGED trouble \/ Fault)
        /\ thread' = IF exact THEN [thread EXCEPT ![r].window = None] ELSE thread
    BY <2>1 DEF Start, Lists
  <2>4. messages' \in 0..MaxMessages
    BY <2>1, MessageCounted DEF Start
  <2>5. trouble' \in 0..MaxTrouble
    BY <2>3, Counted
  <2>6. thread' \in [Roots -> [window : Windows \cup {None}, tree : Paths \cup {None},
                               members : SUBSET [window : Windows, tree : Paths], known : BOOLEAN]]
    BY <2>3 DEF TypeOK
  <2>7. \A k \in Roots : thread'[k].tree = thread[k].tree
    BY <2>3 DEF TypeOK
  <2>8. TypeOK'
    BY <2>2, <2>3, <2>4, <2>5, <2>6 DEF TypeOK
  <2>9. TreesAreSound' /\ PruneIsSound'
    BY <2>3, <2>7 DEF TreesAreSound, PruneIsSound
  <2>. QED
    BY <2>2, <2>8, <2>9
<1>2. CASE \E r \in Roots : Sync(h, r)
  <2>1. PICK r \in Roots : Sync(h, r)
    BY <1>2
  <2>2. hand' \in [Hands -> Hand] /\ HandIsSound'
    BY <2>1, SyncIs
  <2>3. UNCHANGED <<head, tree, win, thread, prune>> /\ UNCHANGED trouble
    BY <2>1 DEF Sync
  <2>4. messages' \in 0..MaxMessages
    BY <2>1, MessageCounted DEF Sync
  <2>5. trouble' \in 0..MaxTrouble
    BY <2>3, Counted
  <2>. QED
    BY <2>2, <2>3, <2>4, <2>5, OnlyHand
<1>3. CASE ListForMember(h)
  <2>1. hand' \in [Hands -> Hand] /\ HandIsSound'
    BY <1>3, ListIs
  <2>2. UNCHANGED <<head, tree, win, thread, prune>> /\ (UNCHANGED trouble \/ Fault)
        /\ messages' = messages
    BY <1>3 DEF ListForMember, Lists
  <2>3. trouble' \in 0..MaxTrouble /\ messages' \in 0..MaxMessages
    BY <2>2, Counted DEF TypeOK
  <2>. QED
    BY <2>1, <2>2, <2>3, OnlyHand
<1>4. CASE Choose(h)
  <2>1. hand' \in [Hands -> Hand] /\ HandIsSound'
    BY <1>4, ChooseIs
  <2>2. UNCHANGED <<head, tree, win, thread, prune, messages, trouble>>
    BY <1>4 DEF Choose
  <2>3. trouble' \in 0..MaxTrouble /\ messages' \in 0..MaxMessages
    BY <2>2 DEF TypeOK
  <2>. QED
    BY <2>1, <2>2, <2>3, OnlyHand
<1>5. CASE LookFails(h) \/ LookAt(h) \/ LookForRoom(h) \/ CheckoutFails(h) \/ AddTreeFails(h)
  <2>1. hand[h].pc \in {"look", "move"}
    BY <1>5 DEF LookFails, LookAt, LookForRoom, CheckoutFails, AddTreeFails
  <2>2. hand[h] \in Hand /\ hand[h].path \in Paths /\ (hand[h].pc = "move" => hand[h].rev \in Heads)
    BY <2>1, PathOfMove
  <2>3. head \in Heads
    BY DEF TypeOK
  <2>4. hand' \in [Hands -> Hand] /\ HandIsSound'
    <3>1. CASE LookFails(h)
      <4>1. PICK res : res = (IF hand[h].exists THEN hand[h].path ELSE None)
        OBVIOUS
      <4>2. Goes(h, Ready(h, res, None, FALSE)) /\ res \in Paths \cup {None}
        BY <2>2, <3>1, <4>1 DEF LookFails
      <4>. QED
        BY <2>1, <4>2, ReadyGoes
    <3>2. CASE LookAt(h)
      <4>1. CASE Movable(tree[hand[h].path])
        <5>1. PICK dirty : dirty = tree[hand[h].path].dirty
          OBVIOUS
        <5>2. Goes(h, [hand[h] EXCEPT !.pc = "move", !.rev = head, !.dirty = dirty])
          BY <3>2, <4>1, <5>1 DEF LookAt
        <5>3. dirty = FALSE /\ hand[h].pc = "look"
          BY <2>2, <3>2, <4>1, <5>1 DEF Movable, LookAt, TypeOK
        <5>. QED
          BY <5>2, <5>3, MoveIs
      <4>2. CASE ~Movable(tree[hand[h].path])
        <5>1. PICK ok : ok = AtHead(tree[hand[h].path])
          OBVIOUS
        <5>2. ok \in BOOLEAN
          BY <5>1 DEF AtHead
        <5>3. Goes(h, Ready(h, hand[h].path, head, ok))
          BY <3>2, <4>2, <5>1 DEF LookAt
        <5>. QED
          BY <2>1, <2>2, <2>3, <5>2, <5>3, ReadyGoes
      <4>. QED
        BY <4>1, <4>2
    <3>3. CASE LookForRoom(h)
      BY <3>3, MoveIs DEF LookForRoom
    <3>4. CASE CheckoutFails(h)
      <4>1. Goes(h, Ready(h, hand[h].path, hand[h].rev, FALSE)) /\ hand[h].rev \in Heads
        BY <2>2, <3>4 DEF CheckoutFails
      <4>. QED
        BY <2>1, <2>2, <4>1, ReadyGoes
    <3>5. CASE AddTreeFails(h)
      <4>1. Goes(h, Ready(h, None, hand[h].rev, FALSE)) /\ hand[h].rev \in Heads
        BY <2>2, <3>5 DEF AddTreeFails
      <4>. QED
        BY <2>1, <2>2, <4>1, ReadyGoes
    <3>. QED
      BY <1>5, <3>1, <3>2, <3>3, <3>4, <3>5
  <2>5. UNCHANGED <<head, tree, win, thread, prune, messages>> /\ (UNCHANGED trouble \/ Fault)
    BY <1>5 DEF LookFails, LookAt, LookForRoom, CheckoutFails, AddTreeFails
  <2>6. trouble' \in 0..MaxTrouble /\ messages' \in 0..MaxMessages
    BY <2>5, Counted DEF TypeOK
  <2>. QED
    BY <2>4, <2>5, <2>6, OnlyHand
<1>6. CASE Checkout(h) \/ AddTree(h)
  <2>1. hand[h].pc = "move" /\ hand[h].path \in Paths /\ hand[h].rev \in Heads
    BY <1>6, PathOfMove DEF Checkout, AddTree
  <2>2. UNCHANGED <<head, win, thread, prune, messages>>
    BY <1>6 DEF Checkout, AddTree
  <2>3. CASE Checkout(h)
    <3>1. PICK t : t = [tree[hand[h].path] EXCEPT !.sha = hand[h].rev]
      OBVIOUS
    <3>2. /\ Changes(h, hand[h].path, t, Ready(h, hand[h].path, hand[h].rev, TRUE))
          /\ tree[hand[h].path].there /\ UNCHANGED trouble
      BY <2>3, <3>1 DEF Checkout
    <3>3. tree[hand[h].path] \in [there : BOOLEAN, sha : Heads, dirty : BOOLEAN, old : BOOLEAN]
      BY <2>1 DEF TypeOK
    <3>4. t \in [there : BOOLEAN, sha : Heads, dirty : BOOLEAN, old : BOOLEAN] /\ t.there
      BY <2>1, <3>1, <3>2, <3>3
    <3>. QED
      BY <2>1, <2>2, <3>2, <3>4, ChangedBase
  <2>4. CASE AddTree(h)
    <3>1. PICK t : t = [NoTree EXCEPT !.there = TRUE, !.sha = hand[h].rev]
      OBVIOUS
    <3>2. PICK ok \in BOOLEAN :
              /\ UNCHANGED trouble \/ Fault
              /\ Changes(h, hand[h].path, [NoTree EXCEPT !.there = TRUE, !.sha = hand[h].rev],
                         Ready(h, hand[h].path, hand[h].rev, ok))
      BY <2>4 DEF AddTree
    <3>3. t \in [there : BOOLEAN, sha : Heads, dirty : BOOLEAN, old : BOOLEAN] /\ t.there
      BY <2>1, <3>1 DEF NoTree
    <3>. QED
      BY <2>1, <2>2, <3>1, <3>2, <3>3, ChangedBase
  <2>. QED
    BY <1>6, <2>3, <2>4
<1>7. CASE OpenMember(h) \/ Open(h)
  <2>1. hand' \in [Hands -> Hand] /\ HandIsSound'
    BY <1>7, OpenMemberIs, OpenIs
  <2>2. UNCHANGED win \/ \E w \in Windows, p \in Paths \cup {None} : Opened(h, w, p)
    <3>1. hand[h] \in Hand
      BY DEF TypeOK
    <3>2. hand[h].drv \in Paths \cup {None} /\ hand[h].mem \in Paths \cup {None}
      BY <3>1 DEF Hand
    <3>3. CASE OpenMember(h)
      BY <3>2, <3>3, OpenMemberIs
    <3>4. CASE Open(h)
      BY <3>2, <3>4, OpenIs
    <3>. QED
      BY <1>7, <3>3, <3>4
  <2>3. win' \in [Windows -> [state : {"unopened", "idle", "working", "closed"},
                              tree : Paths \cup {None}, sure : BOOLEAN]]
    <3>1. hand[h].sure \in BOOLEAN
      BY DEF TypeOK, Hand
    <3>. QED
      BY <2>2, <3>1 DEF TypeOK, Opened
  <2>4. UNCHANGED <<head, tree, thread, prune, messages>> /\ (UNCHANGED trouble \/ Fault)
    BY <1>7 DEF OpenMember, Open
  <2>5. trouble' \in 0..MaxTrouble /\ messages' \in 0..MaxMessages
    BY <2>4, Counted DEF TypeOK
  <2>6. TypeOK'
    BY <2>1, <2>3, <2>4, <2>5 DEF TypeOK
  <2>7. TreesAreSound' /\ PruneIsSound'
    BY <2>4 DEF TreesAreSound, PruneIsSound
  <2>. QED
    BY <2>1, <2>6, <2>7
<1>8. CASE Record(h)
  <2>. DEFINE x == hand[h]
  <2>1. hand' \in [Hands -> Hand] /\ HandIsSound'
    BY <1>8, RecordIs
  <2>2. x \in Hand /\ x.root \in Roots /\ x.opened \in Windows /\ x.drv \in Paths \cup {None}
    <3>1. x \in Hand /\ x.root \in Roots /\ x.opened \in Windows
      BY <1>8, RecordIs DEF TypeOK
    <3>. QED
      BY <3>1 DEF Hand
  <2>3. /\ thread' = [thread EXCEPT ![x.root] = [window |-> x.opened, tree |-> x.drv,
                                                 members |-> {}, known |-> TRUE]]
        /\ prune' = [prune EXCEPT !.late = @ \cup ({x.drv} \cap prune.todo)]
        /\ UNCHANGED <<head, tree, win, messages>> /\ (UNCHANGED trouble \/ Fault)
    BY <1>8 DEF Record
  <2>4. thread' \in [Roots -> [window : Windows \cup {None}, tree : Paths \cup {None},
                               members : SUBSET [window : Windows, tree : Paths], known : BOOLEAN]]
    BY <2>2, <2>3 DEF TypeOK
  <2>5. /\ prune' \in [pc : {"rest", "look", "remove"}, todo : SUBSET Paths, late : SUBSET Paths]
        /\ prune'.pc = prune.pc /\ prune'.todo = prune.todo
        /\ prune'.late = prune.late \cup ({x.drv} \cap prune.todo)
    BY <2>3 DEF TypeOK
  <2>6. trouble' \in 0..MaxTrouble /\ messages' \in 0..MaxMessages
    BY <2>3, Counted DEF TypeOK
  <2>7. TypeOK'
    BY <2>1, <2>3, <2>4, <2>5, <2>6 DEF TypeOK
  <2>8. PruneIsSound'
    <3>1. \A r \in Roots : thread'[r].tree = thread[r].tree \/ thread'[r].tree = x.drv
      BY <2>2, <2>3 DEF TypeOK
    <3>. QED
      BY <2>5, <3>1 DEF PruneIsSound
  <2>9. TreesAreSound'
    BY <2>3 DEF TreesAreSound
  <2>. QED
    BY <2>1, <2>7, <2>8, <2>9
<1>9. CASE Attach(h)
  <2>. DEFINE x == hand[h]
  <2>1. /\ hand' \in [Hands -> Hand] /\ HandIsSound' /\ x.root \in Roots
        /\ x.peer \in [window : Windows, tree : Paths]
    BY <1>9, AttachIs
  <2>2. /\ UNCHANGED thread \/ thread' = [thread EXCEPT ![x.root].members = {x.peer}]
        /\ UNCHANGED <<head, tree, win, prune, messages>>
        /\ trouble' \in 0..MaxTrouble
    BY <1>9, Counted DEF Attach
  <2>3. thread' \in [Roots -> [window : Windows \cup {None}, tree : Paths \cup {None},
                               members : SUBSET [window : Windows, tree : Paths], known : BOOLEAN]]
    <3>1. CASE UNCHANGED thread
      BY <3>1 DEF TypeOK
    <3>2. CASE thread' = [thread EXCEPT ![x.root].members = {x.peer}]
      <4>1. thread[x.root] \in [window : Windows \cup {None}, tree : Paths \cup {None},
                                members : SUBSET [window : Windows, tree : Paths], known : BOOLEAN]
        BY <2>1 DEF TypeOK
      <4>2. {x.peer} \in SUBSET [window : Windows, tree : Paths]
        BY <2>1
      <4>. HIDE DEF x
      <4>. QED
        BY <3>2, <4>1, <4>2 DEF TypeOK
    <3>. QED
      BY <2>2, <3>1, <3>2
  <2>4. TypeOK'
    BY <2>1, <2>2, <2>3 DEF TypeOK
  <2>5. \A r \in Roots : thread'[r].tree = thread[r].tree
    BY <2>1, <2>2 DEF TypeOK
  <2>6. TreesAreSound' /\ PruneIsSound'
    BY <2>2, <2>5 DEF TreesAreSound, PruneIsSound
  <2>. QED
    BY <2>1, <2>4, <2>6
<1>. QED
  BY <1>1, <1>2, <1>3, <1>4, <1>5, <1>6, <1>7, <1>8, <1>9 DEF Handle

LEMMA HousekeepingBase == ASSUME Base, Housekeeping PROVE Base'
<1>. USE DEF Base
<1>1. CASE SweepAndScan
  <2>1. PICK dropped \in SUBSET {r \in Roots : thread[r].known} : thread' = Swept(dropped)
    BY <1>1 DEF SweepAndScan
  <2>2. PICK stale : stale = Stale(thread')
    OBVIOUS
  <2>3. /\ prune' = [pc |-> IF stale = {} THEN "rest" ELSE "look", todo |-> stale, late |-> {}]
        /\ UNCHANGED <<head, tree, win, hand, messages>> /\ (UNCHANGED trouble \/ trouble' = trouble + 1)
        /\ trouble < MaxTrouble
    BY <1>1, <2>2 DEF SweepAndScan
  <2>4. thread' \in [Roots -> [window : Windows \cup {None}, tree : Paths \cup {None},
                               members : SUBSET [window : Windows, tree : Paths], known : BOOLEAN]]
    BY <2>1 DEF TypeOK, Swept, NoThread
  <2>5. /\ stale \in SUBSET Paths
        /\ \A p \in stale, r \in Roots : thread'[r].tree # p
    BY <2>2, Kinds DEF Stale, Keep
  <2>6. prune' \in [pc : {"rest", "look", "remove"}, todo : SUBSET Paths, late : SUBSET Paths]
    BY <2>3, <2>5
  <2>7. trouble' \in 0..MaxTrouble
    BY <2>3, Counted DEF Fault
  <2>8. TypeOK'
    BY <2>3, <2>4, <2>6, <2>7 DEF TypeOK
  <2>9. HandIsSound' /\ TreesAreSound'
    BY <2>3 DEF HandIsSound, TreesAreSound
  <2>10. PruneIsSound'
    BY <2>3, <2>5 DEF PruneIsSound
  <2>. QED
    BY <2>8, <2>9, <2>10
<1>2. CASE LookStale
  <2>1. /\ UNCHANGED <<head, tree, win, thread, hand, messages, trouble>> /\ prune.pc = "look"
        /\ prune' = Dropped \/ prune' = [prune EXCEPT !.pc = "remove"]
    BY <1>2 DEF LookStale
  <2>2. prune' \in [pc : {"rest", "look", "remove"}, todo : SUBSET Paths, late : SUBSET Paths]
        /\ PruneIsSound'
    <3>1. CASE prune' = Dropped
      BY <2>1, <3>1, DroppedIs
    <3>2. CASE prune' = [prune EXCEPT !.pc = "remove"]
      <4>1. /\ prune' \in [pc : {"rest", "look", "remove"}, todo : SUBSET Paths, late : SUBSET Paths]
            /\ prune'.pc = "remove" /\ prune'.todo = prune.todo /\ prune'.late = prune.late
        BY <3>2 DEF TypeOK
      <4>. QED
        BY <2>1, <4>1 DEF PruneIsSound
    <3>. QED
      BY <2>1, <3>1, <3>2
  <2>3. TypeOK'
    BY <2>1, <2>2 DEF TypeOK
  <2>4. HandIsSound' /\ TreesAreSound'
    BY <2>1 DEF HandIsSound, TreesAreSound
  <2>. QED
    BY <2>2, <2>3, <2>4
<1>3. CASE Remove
  <2>1. PICK p : p = Min(prune.todo)
    OBVIOUS
  <2>2. /\ p \in Paths /\ hand' \in [Hands -> Hand] /\ HandIsSound'
        /\ UNCHANGED <<tree, hand>> \/ tree' = [tree EXCEPT ![p] = NoTree]
    BY <1>3, <2>1, RemoveIs
  <2>3. UNCHANGED <<head, win, thread, messages, trouble>> /\ prune' = Dropped /\ prune.pc # "rest"
    BY <1>3 DEF Remove
  <2>4. /\ prune' \in [pc : {"rest", "look", "remove"}, todo : SUBSET Paths, late : SUBSET Paths]
        /\ PruneIsSound'
    BY <2>3, DroppedIs
  <2>5. CASE UNCHANGED <<tree, hand>>
    <3>1. TypeOK'
      BY <2>3, <2>4, <2>5 DEF TypeOK
    <3>2. HandIsSound' /\ TreesAreSound'
      BY <2>5 DEF HandIsSound, TreesAreSound
    <3>. QED
      BY <2>4, <3>1, <3>2
  <2>6. CASE tree' = [tree EXCEPT ![p] = NoTree]
    <3>1. NoTree \in [there : BOOLEAN, sha : Heads, dirty : BOOLEAN, old : BOOLEAN] /\ ~NoTree.dirty
      BY Kinds DEF NoTree, Heads
    <3>2. trouble' \in 0..MaxTrouble
      BY <2>3 DEF TypeOK
    <3>. QED
      BY <2>2, <2>3, <2>4, <2>6, <3>1, <3>2, TreeBecomes
  <2>. QED
    BY <2>2, <2>5, <2>6
<1>. QED
  BY <1>1, <1>2, <1>3 DEF Housekeeping

LEMMA WorksIs ==
  ASSUME TypeOK, HandIsSound, NEW w \in Windows, Works(w)
  PROVE  /\ hand' \in [Hands -> Hand] /\ HandIsSound' /\ win[w].state = "idle"
         /\ win' = [win EXCEPT ![w].state = "working"]
         /\ \A k \in Hands :
               /\ Like(hand[k], hand'[k])
               /\ hand'[k].sure = hand[k].sure /\ hand'[k].touched = hand[k].touched
               /\ hand'[k].fresh = hand[k].fresh \/ hand'[k].fresh = hand[k].fresh \cup {w}
               /\ hand[k].who = "sync" /\ hand[k].pc # "rest" => w \in hand'[k].fresh
<1>. DEFINE told(k) == [hand[k] EXCEPT !.fresh = @ \cup {w}]
<1>1. \A k \in Hands : hand[k] \in Hand
  BY DEF TypeOK
<1>2. \A k \in Hands : told(k) \in Hand /\ Like(hand[k], told(k))
                       /\ told(k).sure = hand[k].sure /\ told(k).touched = hand[k].touched
                       /\ told(k).fresh = hand[k].fresh \cup {w}
  BY <1>1, ToldOfWindow
<1>3. \A k \in Hands : Like(hand[k], hand[k])
  BY DEF Like
<1>4. \A k \in Hands : \/ hand'[k] = hand[k] /\ ~(hand[k].who = "sync" /\ hand[k].pc # "rest")
                       \/ hand'[k] = told(k)
  BY DEF Works
<1>5. hand' = [k \in Hands |-> hand'[k]]
  BY DEF Works
<1>. HIDE DEF told
<1>6. hand' \in [Hands -> Hand] /\ \A k \in Hands : Like(hand[k], hand'[k])
  BY <1>1, <1>2, <1>3, <1>4, <1>5
<1>7. HandIsSound'
  BY <1>6, SoundForAll
<1>. QED
  BY <1>2, <1>4, <1>6, <1>7 DEF Works

LEMMA AgentsBase == ASSUME Base, Agents PROVE Base'
<1>. USE DEF Base
<1>1. ASSUME NEW w \in Windows, Works(w) PROVE Base'
  <2>1. /\ hand' \in [Hands -> Hand] /\ HandIsSound' /\ win' = [win EXCEPT ![w].state = "working"]
        /\ UNCHANGED <<head, tree, thread, prune, messages, trouble>>
    BY <1>1, WorksIs DEF Works
  <2>2. win' \in [Windows -> [state : {"unopened", "idle", "working", "closed"},
                              tree : Paths \cup {None}, sure : BOOLEAN]]
    BY <2>1 DEF TypeOK
  <2>3. TypeOK'
    BY <2>1, <2>2 DEF TypeOK
  <2>4. TreesAreSound' /\ PruneIsSound'
    BY <2>1 DEF TreesAreSound, PruneIsSound
  <2>. QED
    BY <2>1, <2>3, <2>4
<1>2. ASSUME NEW w \in Windows, Rests(w) \/ Close(w) PROVE Base'
  <2>1. /\ win' = [win EXCEPT ![w].state = "idle"]
           \/ win' = [win EXCEPT ![w] = [state |-> "closed", tree |-> None, sure |-> FALSE]]
        /\ UNCHANGED <<head, tree, thread, hand, prune, messages, trouble>>
    BY <1>2 DEF Rests, Close
  <2>2. win' \in [Windows -> [state : {"unopened", "idle", "working", "closed"},
                              tree : Paths \cup {None}, sure : BOOLEAN]]
    <3>1. CASE win' = [win EXCEPT ![w].state = "idle"]
      <4>1. win[w] \in [state : {"unopened", "idle", "working", "closed"},
                        tree : Paths \cup {None}, sure : BOOLEAN]
        BY DEF TypeOK
      <4>. QED
        BY <3>1, <4>1 DEF TypeOK
    <3>2. CASE win' = [win EXCEPT ![w] = [state |-> "closed", tree |-> None, sure |-> FALSE]]
      BY <3>2 DEF TypeOK
    <3>. QED
      BY <2>1, <3>1, <3>2
  <2>3. TypeOK'
    BY <2>1, <2>2 DEF TypeOK
  <2>4. TreesAreSound' /\ PruneIsSound' /\ HandIsSound'
    BY <2>1 DEF TreesAreSound, PruneIsSound, HandIsSound
  <2>. QED
    BY <2>3, <2>4
<1>3. ASSUME NEW w \in Windows, NEW p \in Paths, Edit(w, p) PROVE Base'
  <2>1. PICK d \in BOOLEAN : tree' = [tree EXCEPT ![p].dirty = d]
    BY <1>3 DEF Edit
  <2>2. UNCHANGED <<head, win, thread, hand, prune, messages, trouble>> /\ tree[p].there
    BY <1>3 DEF Edit, At
  <2>3. TypeOK'
    BY <2>1, <2>2 DEF TypeOK
  <2>4. TreesAreSound'
    BY <2>1, <2>2 DEF TreesAreSound, TypeOK
  <2>5. PruneIsSound' /\ HandIsSound'
    BY <2>2 DEF PruneIsSound, HandIsSound
  <2>. QED
    BY <2>3, <2>4, <2>5
<1>4. CASE Push
  <2>1. head' \in Heads /\ UNCHANGED <<tree, win, thread, hand, prune, messages, trouble>>
    BY <1>4, Kinds DEF Push, Heads, TypeOK
  <2>2. TypeOK'
    BY <2>1 DEF TypeOK
  <2>3. TreesAreSound' /\ PruneIsSound' /\ HandIsSound'
    BY <2>1 DEF TreesAreSound, PruneIsSound, HandIsSound
  <2>. QED
    BY <2>2, <2>3
<1>5. CASE Age
  <2>1. /\ tree' = [p \in Paths |-> [tree[p] EXCEPT !.old = tree[p].there]]
        /\ UNCHANGED <<head, win, thread, hand, prune, messages, trouble>>
    BY <1>5 DEF Age
  <2>2. TypeOK'
    BY <2>1 DEF TypeOK
  <2>3. TreesAreSound'
    BY <2>1 DEF TreesAreSound, TypeOK
  <2>4. PruneIsSound' /\ HandIsSound'
    BY <2>1 DEF PruneIsSound, HandIsSound
  <2>. QED
    BY <2>2, <2>3, <2>4
<1>. QED
  BY <1>1, <1>2, <1>3, <1>4, <1>5 DEF Agents

LEMMA BaseStep == ASSUME Base, [Next]_vars PROVE Base'
<1>1. CASE UNCHANGED vars
  BY <1>1 DEF vars, Base, TypeOK, HandIsSound, TreesAreSound, PruneIsSound
<1>. QED
  BY <1>1, HandleBase, HousekeepingBase, AgentsBase DEF Next

LEMMA Based == Spec => []Base
<1>. QED
  BY InitBase, BaseStep, PTL DEF Spec

\* Every variable keeps its type.
THEOREM TypeCorrect == Spec => []TypeOK
<1>1. Base => TypeOK
  BY DEF Base
<1>. QED
  BY <1>1, Based, PTL

-----------------------------------------------------------------------------
(* What happens to the trees *)

\* Who changes trees.
LEMMA TreeChanges ==
  ASSUME Next
  PROVE  \/ UNCHANGED tree
         \/ \E h \in Hands : Checkout(h) \/ AddTree(h)
         \/ Remove
         \/ \E w \in Windows, p \in Paths : Edit(w, p)
         \/ Age
<1>1. ASSUME NEW h \in Hands, Handle(h) PROVE UNCHANGED tree \/ Checkout(h) \/ AddTree(h)
  BY <1>1 DEF Handle, Start, Sync, ListForMember, Choose, LookFails, LookAt, LookForRoom,
              CheckoutFails, AddTreeFails, OpenMember, Open, Record, Attach
<1>2. CASE Housekeeping
  BY <1>2 DEF Housekeeping, SweepAndScan, LookStale
<1>3. CASE Agents
  BY <1>3 DEF Agents, Works, Rests, Close, Push
<1>. QED
  BY <1>1, <1>2, <1>3 DEF Next

LEMMA CheckoutTree ==
  ASSUME Base, NEW h \in Hands, Checkout(h)
  PROVE  /\ hand[h].path \in Paths /\ tree[hand[h].path].there
         /\ tree'[hand[h].path].there /\ tree'[hand[h].path].sha = hand[h].rev
         /\ tree'[hand[h].path].dirty = tree[hand[h].path].dirty
         /\ \A p \in Paths : p # hand[h].path => tree'[p] = tree[p]
<1>1. PICK p : p = hand[h].path
  OBVIOUS
<1>2. p \in Paths
  BY <1>1, PathOfMove DEF Checkout
<1>3. tree' = [tree EXCEPT ![p] = [tree[p] EXCEPT !.sha = hand[h].rev]] /\ tree[p].there
  BY <1>1 DEF Checkout, Changes
<1>4. tree \in [Paths -> [there : BOOLEAN, sha : Heads, dirty : BOOLEAN, old : BOOLEAN]]
  BY DEF Base, TypeOK
<1>. QED
  BY <1>1, <1>2, <1>3, <1>4

LEMMA AddTreeTree ==
  ASSUME Base, NEW h \in Hands, AddTree(h)
  PROVE  /\ hand[h].path \in Paths /\ ~tree[hand[h].path].there
         /\ tree'[hand[h].path].there /\ tree'[hand[h].path].sha = hand[h].rev
         /\ \A p \in Paths : p # hand[h].path => tree'[p] = tree[p]
<1>1. PICK p : p = hand[h].path
  OBVIOUS
<1>2. p \in Paths
  BY <1>1, PathOfMove DEF AddTree
<1>3. tree' = [tree EXCEPT ![p] = [NoTree EXCEPT !.there = TRUE, !.sha = hand[h].rev]] /\ ~tree[p].there
  BY <1>1 DEF AddTree, Changes
<1>4. tree \in [Paths -> [there : BOOLEAN, sha : Heads, dirty : BOOLEAN, old : BOOLEAN]]
  BY DEF Base, TypeOK
<1>. QED
  BY <1>1, <1>2, <1>3, <1>4 DEF NoTree

LEMMA EditTree ==
  ASSUME Base, NEW w \in Windows, NEW q \in Paths, Edit(w, q)
  PROVE  \A p \in Paths : /\ tree'[p].there = tree[p].there /\ tree'[p].sha = tree[p].sha
                          /\ p # q => tree'[p] = tree[p]
<1>1. PICK d \in BOOLEAN : tree' = [tree EXCEPT ![q].dirty = d]
  BY DEF Edit
<1>. QED
  BY <1>1 DEF Base, TypeOK

LEMMA AgeTree ==
  ASSUME Base, Age
  PROVE  \A p \in Paths : /\ tree'[p].there = tree[p].there /\ tree'[p].sha = tree[p].sha
                          /\ tree'[p].dirty = tree[p].dirty
  BY DEF Base, TypeOK, Age

\* A tree is removed by housekeeping only, and without local changes.
LEMMA RemovedTree ==
  ASSUME Base, Next, NEW p \in Paths, tree[p].there, ~tree'[p].there
  PROVE  Remove /\ p \in prune.todo /\ ~tree[p].dirty
<1>1. CASE UNCHANGED tree
  BY <1>1
<1>2. ASSUME NEW h \in Hands, Checkout(h) PROVE FALSE
  BY <1>2, CheckoutTree
<1>3. ASSUME NEW h \in Hands, AddTree(h) PROVE FALSE
  BY <1>3, AddTreeTree
<1>4. CASE Remove
  <2>1. PICK q : q = Min(prune.todo)
    OBVIOUS
  <2>2. /\ q \in prune.todo /\ q \in Paths
        /\ UNCHANGED tree \/ (tree[q].dirty = FALSE /\ tree' = [tree EXCEPT ![q] = NoTree])
    BY <1>4, <2>1, RemoveIs DEF Base
  <2>3. p = q
    BY <2>2 DEF Base, TypeOK
  <2>. QED
    BY <1>4, <2>2, <2>3
<1>5. ASSUME NEW w \in Windows, NEW q \in Paths, Edit(w, q) PROVE FALSE
  BY <1>5, EditTree
<1>6. CASE Age
  BY <1>6, AgeTree
<1>. QED
  BY <1>1, <1>2, <1>3, <1>4, <1>5, <1>6, TreeChanges

\* The tree of a thread is not removed, if the thread was recorded when the trees to keep were
\* read: what is left to remove is in no record but those set since (PruneIsSound).
THEOREM TreeOfThreadStays == Spec => RecordedTreeStays
<1>1. ASSUME Base, [Next]_vars
      PROVE  \A p \in Paths : tree[p].there /\ ~tree'[p].there =>
                p \in prune.late \/ \A r \in Roots : thread[r].tree # p
  <2>. SUFFICES ASSUME NEW p \in Paths, tree[p].there, ~tree'[p].there, p \notin prune.late
                PROVE  \A r \in Roots : thread[r].tree # p
    OBVIOUS
  <2>1. p \in prune.todo
    BY <1>1, RemovedTree DEF vars
  <2>. QED
    BY <1>1, <2>1 DEF Base, PruneIsSound
<1>2. Base /\ [Next]_vars =>
         [\A p \in Paths : tree[p].there /\ ~tree'[p].there =>
             p \in prune.late \/ \A r \in Roots : thread[r].tree # p]_vars
  BY <1>1
<1>. QED
  BY <1>2, Based, PTL DEF Spec, RecordedTreeStays

\* Only agents part with local changes.
THEOREM ChangesAreTheAgents == Spec => LocalChangesStay
<1>. DEFINE Kept == \A p \in Paths : tree[p].dirty =>
                       /\ tree'[p].there
                       /\ tree'[p].dirty \/ \E w \in Windows : At(w, p)
                       /\ \A h \in Hands :
                             hand[h].pc = "move" /\ hand[h].path = p /\ hand'[h].pc # "move"
                                 /\ tree'[p].sha # tree[p].sha => ~hand[h].dirty
<1>1. ASSUME Base, Next PROVE Kept
  <2>1. \A h \in Hands : ~hand[h].dirty
    BY <1>1 DEF Base, HandIsSound, Sound
  <2>. SUFFICES ASSUME NEW p \in Paths, tree[p].dirty
                PROVE  tree'[p].there /\ (tree'[p].dirty \/ \E w \in Windows : At(w, p))
    BY <2>1
  <2>2. tree[p].there /\ tree'[p].there
    <3>1. tree[p].there
      BY <1>1 DEF Base, TreesAreSound
    <3>. QED
      BY <1>1, <3>1, RemovedTree
  <2>3. ASSUME NEW h \in Hands, Checkout(h) PROVE tree'[p].dirty
    BY <1>1, <2>3, CheckoutTree
  <2>4. ASSUME NEW h \in Hands, AddTree(h) PROVE tree'[p].dirty
    BY <1>1, <2>2, <2>4, AddTreeTree
  <2>5. CASE Remove
    <3>1. PICK q : q = Min(prune.todo)
      OBVIOUS
    <3>2. /\ q \in Paths
          /\ UNCHANGED tree \/ (tree[q].dirty = FALSE /\ tree' = [tree EXCEPT ![q] = NoTree])
      BY <1>1, <2>5, <3>1, RemoveIs DEF Base
    <3>3. p # q => tree'[p] = tree[p]
      BY <1>1, <3>2 DEF Base, TypeOK
    <3>4. p # q \/ UNCHANGED tree
      BY <3>2
    <3>. QED
      BY <2>2, <3>3, <3>4
  <2>6. ASSUME NEW w \in Windows, NEW q \in Paths, Edit(w, q)
        PROVE  tree'[p].dirty \/ \E v \in Windows : At(v, p)
    <3>1. At(w, q)
      BY <2>6 DEF Edit
    <3>. QED
      BY <1>1, <2>6, <3>1, EditTree
  <2>7. CASE Age
    <3>1. tree'[p].dirty = tree[p].dirty
      BY <1>1, <2>7, AgeTree
    <3>. QED
      BY <2>2, <3>1
  <2>. QED
    BY <1>1, <2>2, <2>3, <2>4, <2>5, <2>6, <2>7, TreeChanges
<1>2. Base /\ [Next]_vars => [Kept]_vars
  BY <1>1
<1>. QED
  BY <1>2, Based, PTL DEF Spec, LocalChangesStay

-----------------------------------------------------------------------------
(* A review opens its windows in trees at the head it is told *)

\* ReviewIsExact of a hand x, when the trees are t.
ExactIn(x, t) ==
    x.exact =>
        /\ x.pc \in {"list", "choose", "look", "move", "member", "open"}
              /\ x.drv \in Paths \ (x.touched \cup {Fallback})
            => t[x.drv].there /\ t[x.drv].sha = x.base
        /\ x.pc = "member" /\ x.mem \notin x.touched => t[x.mem].there /\ t[x.mem].sha = x.rev
        /\ x.pc \in {"member", "open"} => x.drv # None

LEMMA ExactAll ==
    /\ ReviewIsExact <=> \A h \in Hands : ExactIn(hand[h], tree)
    /\ ReviewIsExact' <=> \A h \in Hands : ExactIn(hand'[h], tree')
  BY DEF ReviewIsExact, ExactIn

\* Where a tree that a hand counts on changes, the hand is told.
LEMMA StillExact ==
  ASSUME NEW x \in Hand, NEW y, Sound(x), Like(x, y), x.touched \subseteq y.touched,
         NEW t, NEW u,
         \A p \in Paths : p \in {x.drv, x.mem} =>
             p \in y.touched \/ (u[p].there = t[p].there /\ u[p].sha = t[p].sha),
         ExactIn(x, t)
  PROVE  ExactIn(y, u)
<1>1. x.pc = "member" => x.mem \in Paths
  BY DEF Hand, Sound
<1>. QED
  BY <1>1 DEF Like, ExactIn

LEMMA ReadyExact ==
  ASSUME Base, ReviewIsExact, NEW h \in Hands, hand[h].pc \in {"look", "move"},
         NEW res \in Paths \cup {None}, NEW rev \in Heads \cup {None}, NEW ok \in BOOLEAN,
         ok => res = hand[h].path /\ rev \in Heads, NEW u,
         ok => u[hand[h].path].there /\ u[hand[h].path].sha = rev,
         \A p \in Paths : p # hand[h].path => u[p].there = tree[p].there /\ u[p].sha = tree[p].sha
  PROVE  ExactIn(Ready(h, res, rev, ok), u)
<1>. DEFINE x == hand[h]
<1>1. PICK y : y = Ready(h, res, rev, ok)
  OBVIOUS
<1>2. x \in Hand /\ Sound(x) /\ x.path \in Paths /\ ExactIn(x, tree)
  BY PathOfMove, ExactAll
<1>3. /\ y \in Hand /\ Sound(y)
      /\ \/ y = Rest
         \/ /\ y.pc \in {"list", "open", "member"} /\ x.who # "sync"
            /\ y.exact = x.exact /\ y.touched = x.touched
            /\ x.who = "driver" => y.drv = res /\ y.base = rev /\ y.mem = None
            /\ x.who = "driver" /\ x.exact => ok
            /\ x.who = "member" => y.drv = x.drv /\ y.base = x.base
            /\ x.who = "member" => y.mem = IF ok THEN res ELSE None
            /\ y.pc = "member" => ok /\ x.who = "member" /\ y.rev = rev
  BY <1>1, <1>2, ReadyIs
<1>4. CASE y = Rest
  BY <1>1, <1>4 DEF ExactIn, Rest
<1>5. CASE y # Rest /\ x.who = "driver"
  <2>1. y.pc # "member" /\ y.exact = x.exact /\ (x.exact => ok) /\ y.drv = res /\ y.base = rev
    BY <1>3, <1>5
  <2>2. ok => y.drv = x.path /\ u[x.path].there /\ u[x.path].sha = y.base /\ x.path # None
    BY <1>2, <2>1, Kinds
  <2>. QED
    BY <1>1, <2>1, <2>2 DEF ExactIn
<1>6. CASE y # Rest /\ x.who = "member"
  <2>1. x.drv # None /\ (x.drv # Fallback => x.drv # x.path)
    BY <1>2, <1>6 DEF Sound
  <2>. QED
    BY <1>1, <1>2, <1>3, <1>6, <2>1 DEF ExactIn
<1>. QED
  BY <1>2, <1>3, <1>4, <1>5, <1>6 DEF Hand

\* The other hands are told, and h is exact.
LEMMA ExactAfter ==
  ASSUME Base, ReviewIsExact, NEW h \in Hands, Others(h),
         \A k \in Hands, p \in Paths : k # h /\ p \in {hand[k].drv, hand[k].mem} =>
             p \in hand'[k].touched
             \/ (tree'[p].there = tree[p].there /\ tree'[p].sha = tree[p].sha),
         ExactIn(hand'[h], tree')
  PROVE  ReviewIsExact'
<1>1. ASSUME NEW k \in Hands, k # h PROVE ExactIn(hand'[k], tree')
  <2>1. /\ hand[k] \in Hand /\ Sound(hand[k]) /\ Like(hand[k], hand'[k])
        /\ hand[k].touched \subseteq hand'[k].touched /\ ExactIn(hand[k], tree)
    BY <1>1, ExactAll DEF Base, TypeOK, HandIsSound, Others
  <2>2. \A p \in Paths : p \in {hand[k].drv, hand[k].mem} =>
            p \in hand'[k].touched
            \/ (tree'[p].there = tree[p].there /\ tree'[p].sha = tree[p].sha)
    BY <1>1
  <2>. QED
    BY <2>1, <2>2, StillExact
<1>. QED
  BY <1>1, ExactAll

\* No tree changes.
LEMMA ExactAlone ==
  ASSUME Base, ReviewIsExact, NEW h \in Hands, Others(h), UNCHANGED tree, ExactIn(hand'[h], tree)
  PROVE  ReviewIsExact'
<1>1. \A k \in Hands, p \in Paths : k # h /\ p \in {hand[k].drv, hand[k].mem} =>
          p \in hand'[k].touched \/ (tree'[p].there = tree[p].there /\ tree'[p].sha = tree[p].sha)
  OBVIOUS
<1>2. ExactIn(hand'[h], tree')
  OBVIOUS
<1>. QED
  BY <1>1, <1>2, ExactAfter

LEMMA ExactHandle == ASSUME Base, ReviewIsExact, NEW h \in Hands, Handle(h) PROVE ReviewIsExact'
<1>. USE DEF Base
<1>1. hand[h] \in Hand /\ Sound(hand[h]) /\ ExactIn(hand[h], tree)
  BY ExactAll DEF TypeOK, HandIsSound
<1>2. ASSUME NEW r \in Roots, NEW exact \in BOOLEAN, Start(h, r, exact) PROVE ReviewIsExact'
  <2>1. Others(h) /\ hand'[h].pc = "choose" /\ hand'[h].drv = None
    BY <1>2, StartIs
  <2>2. ExactIn(hand'[h], tree)
    BY <2>1, Kinds DEF ExactIn
  <2>3. UNCHANGED tree
    BY <1>2 DEF Start
  <2>. QED
    BY <2>1, <2>2, <2>3, ExactAlone
<1>3. ASSUME NEW r \in Roots, Sync(h, r) PROVE ReviewIsExact'
  <2>1. Others(h) /\ hand'[h].exact = FALSE
    BY <1>3, SyncIs, AloneIsOthers
  <2>2. UNCHANGED tree
    BY <1>3 DEF Sync
  <2>3. ExactIn(hand'[h], tree)
    BY <2>1 DEF ExactIn
  <2>. QED
    BY <2>1, <2>2, <2>3, ExactAlone
<1>4. CASE ListForMember(h)
  <2>1. /\ Others(h) /\ hand[h].pc = "list" /\ hand'[h].pc = "choose"
        /\ hand'[h].exact = hand[h].exact /\ hand'[h].drv = hand[h].drv
        /\ hand'[h].base = hand[h].base /\ hand'[h].touched = hand[h].touched
    BY <1>4, ListIs, AloneIsOthers
  <2>2. UNCHANGED tree
    BY <1>4 DEF ListForMember
  <2>3. ExactIn(hand'[h], tree)
    BY <1>1, <2>1 DEF ExactIn
  <2>. QED
    BY <2>1, <2>2, <2>3, ExactAlone
<1>5. CASE Choose(h)
  <2>1. /\ Others(h) /\ hand[h].pc = "choose" /\ hand'[h].pc = "look"
        /\ hand'[h].exact = hand[h].exact /\ hand'[h].drv = hand[h].drv
        /\ hand'[h].base = hand[h].base /\ hand'[h].touched = hand[h].touched
    BY <1>5, ChooseIs, AloneIsOthers
  <2>2. UNCHANGED tree
    BY <1>5 DEF Choose
  <2>3. ExactIn(hand'[h], tree)
    BY <1>1, <2>1 DEF ExactIn
  <2>. QED
    BY <2>1, <2>2, <2>3, ExactAlone
<1>6. ASSUME hand[h].pc \in {"look", "move"}, UNCHANGED tree,
             NEW res \in Paths \cup {None}, NEW rev \in Heads \cup {None}, NEW ok \in BOOLEAN,
             ok => res = hand[h].path /\ rev \in Heads
                   /\ tree[hand[h].path].there /\ tree[hand[h].path].sha = rev,
             Goes(h, Ready(h, res, rev, ok))
      PROVE  ReviewIsExact'
  <2>1. Others(h) /\ hand'[h] = Ready(h, res, rev, ok)
    BY <1>6, ReadyGoes, AloneIsOthers
  <2>2. ExactIn(Ready(h, res, rev, ok), tree)
    BY <1>6, ReadyExact
  <2>3. ExactIn(hand'[h], tree)
    BY <2>1, <2>2
  <2>. QED
    BY <1>6, <2>1, <2>3, ExactAlone
<1>7. ASSUME hand[h].pc = "look", UNCHANGED tree, NEW dirty, dirty = FALSE,
             \/ Goes(h, [hand[h] EXCEPT !.pc = "move", !.rev = head, !.dirty = dirty])
             \/ Goes(h, [hand[h] EXCEPT !.pc = "move", !.rev = head])
      PROVE  ReviewIsExact'
  <2>1. /\ Others(h) /\ hand'[h].pc = "move"
        /\ hand'[h].exact = hand[h].exact /\ hand'[h].drv = hand[h].drv
        /\ hand'[h].base = hand[h].base /\ hand'[h].touched = hand[h].touched
    BY <1>7, MoveIs, AloneIsOthers
  <2>2. ExactIn(hand'[h], tree)
    BY <1>1, <1>7, <2>1 DEF ExactIn
  <2>. QED
    BY <1>7, <2>1, <2>2, ExactAlone
<1>8. CASE LookFails(h)
  <2>1. PICK res : res = (IF hand[h].exists THEN hand[h].path ELSE None)
    OBVIOUS
  <2>2. /\ Goes(h, Ready(h, res, None, FALSE)) /\ res \in Paths \cup {None}
        /\ hand[h].pc \in {"look", "move"} /\ UNCHANGED tree
    BY <1>8, <2>1, PathOfMove DEF LookFails
  <2>. QED
    BY <1>6, <2>2
<1>9. CASE LookAt(h)
  <2>1. /\ hand[h].pc = "look" /\ hand[h].path \in Paths /\ UNCHANGED tree /\ head \in Heads
        /\ tree[hand[h].path].dirty \in BOOLEAN
    <3>1. hand[h].pc = "look" /\ hand[h].path \in Paths /\ UNCHANGED tree
      BY <1>9, PathOfMove DEF LookAt
    <3>. QED
      BY <3>1 DEF TypeOK
  <2>2. CASE Movable(tree[hand[h].path])
    <3>1. PICK dirty : dirty = tree[hand[h].path].dirty
      OBVIOUS
    <3>2. Goes(h, [hand[h] EXCEPT !.pc = "move", !.rev = head, !.dirty = dirty])
      BY <1>9, <2>2, <3>1 DEF LookAt
    <3>3. dirty = FALSE
      BY <2>1, <2>2, <3>1 DEF Movable
    <3>. QED
      BY <1>7, <2>1, <3>2, <3>3
  <2>3. CASE ~Movable(tree[hand[h].path])
    <3>1. PICK ok : ok = AtHead(tree[hand[h].path])
      OBVIOUS
    <3>2. ok \in BOOLEAN
      BY <3>1 DEF AtHead
    <3>3. ok => tree[hand[h].path].there /\ tree[hand[h].path].sha = head
      BY <3>1 DEF AtHead
    <3>4. Goes(h, Ready(h, hand[h].path, head, ok))
      BY <1>9, <2>3, <3>1 DEF LookAt
    <3>. QED
      BY <1>6, <2>1, <3>2, <3>3, <3>4
  <2>. QED
    BY <2>2, <2>3
<1>10. CASE LookForRoom(h)
  <2>1. /\ hand[h].pc = "look" /\ UNCHANGED tree
        /\ Goes(h, [hand[h] EXCEPT !.pc = "move", !.rev = head])
    BY <1>10 DEF LookForRoom
  <2>. QED
    BY <1>7, <2>1
<1>11. CASE CheckoutFails(h)
  <2>1. /\ Goes(h, Ready(h, hand[h].path, hand[h].rev, FALSE)) /\ hand[h].rev \in Heads
        /\ hand[h].pc \in {"look", "move"} /\ UNCHANGED tree /\ hand[h].path \in Paths
    BY <1>11, PathOfMove DEF CheckoutFails
  <2>. QED
    BY <1>6, <2>1
<1>12. CASE AddTreeFails(h)
  <2>1. /\ Goes(h, Ready(h, None, hand[h].rev, FALSE)) /\ hand[h].rev \in Heads
        /\ hand[h].pc \in {"look", "move"} /\ UNCHANGED tree
    BY <1>12, PathOfMove DEF AddTreeFails
  <2>. QED
    BY <1>6, <2>1
<1>13. ASSUME NEW ok \in BOOLEAN, NEW t, hand[h].pc = "move",
              Changes(h, hand[h].path, t, Ready(h, hand[h].path, hand[h].rev, ok)),
              tree'[hand[h].path].there, tree'[hand[h].path].sha = hand[h].rev,
              \A p \in Paths : p # hand[h].path => tree'[p] = tree[p]
       PROVE  ReviewIsExact'
  <2>1. PICK rev \in Heads : rev = hand[h].rev
    BY <1>13, PathOfMove
  <2>2. hand[h].path \in Paths
    BY <1>13, PathOfMove
  <2>3. Changes(h, hand[h].path, t, Ready(h, hand[h].path, rev, ok))
    BY <1>13, <2>1
  <2>4. /\ Others(h) /\ hand'[h] = Ready(h, hand[h].path, rev, ok)
        /\ \A k \in Hands : k # h => hand'[k].touched = IF hand[h].path \in {hand[k].drv, hand[k].mem}
                                     THEN hand[k].touched \cup {hand[h].path}
                                     ELSE hand[k].touched
    BY <1>13, <2>3, ReadyChanges
  <2>5. PICK u : u = tree'
    OBVIOUS
  <2>6. ExactIn(Ready(h, hand[h].path, rev, ok), u)
    <3>1. u[hand[h].path].there /\ u[hand[h].path].sha = rev
          /\ \A p \in Paths : p # hand[h].path => u[p].there = tree[p].there /\ u[p].sha = tree[p].sha
      BY <1>13, <2>1, <2>5
    <3>. QED
      BY <1>13, <2>2, <3>1, ReadyExact
  <2>7. \A k \in Hands, p \in Paths : k # h /\ p \in {hand[k].drv, hand[k].mem} =>
            p \in hand'[k].touched
            \/ (tree'[p].there = tree[p].there /\ tree'[p].sha = tree[p].sha)
    BY <1>13, <2>4
  <2>8. ExactIn(hand'[h], tree')
    BY <2>4, <2>5, <2>6
  <2>. QED
    BY <2>4, <2>7, <2>8, ExactAfter
<1>14. CASE Checkout(h)
  <2>1. PICK t : t = [tree[hand[h].path] EXCEPT !.sha = hand[h].rev]
    OBVIOUS
  <2>2. /\ Changes(h, hand[h].path, t, Ready(h, hand[h].path, hand[h].rev, TRUE))
        /\ hand[h].pc = "move"
    BY <1>14, <2>1 DEF Checkout
  <2>. QED
    BY <1>13, <1>14, <2>2, CheckoutTree
<1>15. CASE AddTree(h)
  <2>1. PICK t : t = [NoTree EXCEPT !.there = TRUE, !.sha = hand[h].rev]
    OBVIOUS
  <2>2. PICK ok \in BOOLEAN :
            Changes(h, hand[h].path, [NoTree EXCEPT !.there = TRUE, !.sha = hand[h].rev],
                    Ready(h, hand[h].path, hand[h].rev, ok))
    BY <1>15 DEF AddTree
  <2>3. Changes(h, hand[h].path, t, Ready(h, hand[h].path, hand[h].rev, ok)) /\ hand[h].pc = "move"
    BY <1>15, <2>1, <2>2 DEF AddTree
  <2>. QED
    BY <1>13, <1>15, <2>3, AddTreeTree
<1>16. CASE OpenMember(h)
  <2>1. /\ Others(h) /\ hand[h].pc = "member" /\ hand'[h].pc = "open"
        /\ hand'[h].exact = hand[h].exact /\ hand'[h].drv = hand[h].drv
        /\ hand'[h].base = hand[h].base /\ hand'[h].touched = hand[h].touched
    BY <1>16, OpenMemberIs
  <2>2. UNCHANGED tree
    BY <1>16 DEF OpenMember
  <2>3. ExactIn(hand'[h], tree)
    BY <1>1, <2>1 DEF ExactIn
  <2>. QED
    BY <2>1, <2>2, <2>3, ExactAlone
<1>17. CASE Open(h) \/ Record(h) \/ Attach(h)
  <2>1. Others(h) /\ hand'[h].exact = FALSE
    <3>1. Rest.exact = FALSE
      BY DEF Rest
    <3>2. CASE Open(h)
      BY <3>1, <3>2, OpenIs
    <3>3. CASE Record(h)
      BY <3>1, <3>3, RecordIs, AloneIsOthers
    <3>4. CASE Attach(h)
      BY <3>1, <3>4, AttachIs, AloneIsOthers
    <3>. QED
      BY <1>17, <3>2, <3>3, <3>4
  <2>2. UNCHANGED tree
    BY <1>17 DEF Open, Record, Attach
  <2>3. ExactIn(hand'[h], tree)
    BY <2>1 DEF ExactIn
  <2>. QED
    BY <2>1, <2>2, <2>3, ExactAlone
<1>. QED
  BY <1>2, <1>3, <1>4, <1>5, <1>8, <1>9, <1>10, <1>11, <1>12, <1>14, <1>15, <1>16, <1>17 DEF Handle

\* Where somebody else changes trees.
LEMMA ExactTold ==
  ASSUME Base, ReviewIsExact,
         \A k \in Hands : Like(hand[k], hand'[k]) /\ hand[k].touched \subseteq hand'[k].touched,
         \A k \in Hands, p \in Paths : p \in {hand[k].drv, hand[k].mem} =>
             p \in hand'[k].touched
             \/ (tree'[p].there = tree[p].there /\ tree'[p].sha = tree[p].sha)
  PROVE  ReviewIsExact'
<1>1. ASSUME NEW k \in Hands PROVE ExactIn(hand'[k], tree')
  <2>1. /\ hand[k] \in Hand /\ Sound(hand[k]) /\ Like(hand[k], hand'[k])
        /\ hand[k].touched \subseteq hand'[k].touched /\ ExactIn(hand[k], tree)
    BY <1>1, ExactAll DEF Base, TypeOK, HandIsSound
  <2>2. \A p \in Paths : p \in {hand[k].drv, hand[k].mem} =>
            p \in hand'[k].touched
            \/ (tree'[p].there = tree[p].there /\ tree'[p].sha = tree[p].sha)
    BY <1>1
  <2>. QED
    BY <2>1, <2>2, StillExact
<1>. QED
  BY <1>1, ExactAll

LEMMA ExactStep == ASSUME Base, ReviewIsExact, [Next]_vars PROVE ReviewIsExact'
<1>1. ASSUME UNCHANGED hand,
             \A p \in Paths : tree'[p].there = tree[p].there /\ tree'[p].sha = tree[p].sha
      PROVE  ReviewIsExact'
  BY <1>1, ExactTold DEF Like
<1>2. CASE UNCHANGED vars
  BY <1>1, <1>2 DEF vars
<1>3. CASE SweepAndScan \/ LookStale
  BY <1>1, <1>3 DEF SweepAndScan, LookStale
<1>4. CASE Remove
  <2>1. PICK q : q = Min(prune.todo)
    OBVIOUS
  <2>2. /\ q \in Paths
        /\ \/ UNCHANGED <<tree, hand>>
           \/ /\ tree' = [tree EXCEPT ![q] = NoTree]
              /\ \A k \in Hands :
                    /\ Like(hand[k], hand'[k])
                    /\ hand'[k].touched = hand[k].touched
                       \/ hand'[k].touched = hand[k].touched \cup {q}
                    /\ q \in {hand[k].drv, hand[k].mem} => q \in hand'[k].touched
    BY <1>4, <2>1, RemoveIs DEF Base
  <2>3. CASE UNCHANGED <<tree, hand>>
    BY <1>1, <2>3
  <2>4. CASE ~UNCHANGED <<tree, hand>>
    <3>1. \A p \in Paths : p # q => tree'[p] = tree[p]
      BY <2>2, <2>4 DEF Base, TypeOK
    <3>. QED
      BY <2>2, <2>4, <3>1, ExactTold
  <2>. QED
    BY <2>3, <2>4
<1>5. ASSUME NEW w \in Windows, Works(w) PROVE ReviewIsExact'
  <2>1. \A k \in Hands : Like(hand[k], hand'[k]) /\ hand'[k].touched = hand[k].touched
    BY <1>5, WorksIs DEF Base
  <2>2. UNCHANGED tree
    BY <1>5 DEF Works
  <2>. QED
    BY <2>1, <2>2, ExactTold
<1>6. ASSUME NEW w \in Windows, Rests(w) \/ Close(w) PROVE ReviewIsExact'
  BY <1>1, <1>6 DEF Rests, Close
<1>7. ASSUME NEW w \in Windows, NEW p \in Paths, Edit(w, p) PROVE ReviewIsExact'
  <2>1. UNCHANGED hand
    BY <1>7 DEF Edit
  <2>. QED
    BY <1>1, <1>7, <2>1, EditTree
<1>8. CASE Push
  BY <1>1, <1>8 DEF Push
<1>9. CASE Age
  <2>1. UNCHANGED hand
    BY <1>9 DEF Age
  <2>. QED
    BY <1>1, <1>9, <2>1, AgeTree
<1>. QED
  BY <1>2, <1>3, <1>4, <1>5, <1>6, <1>7, <1>8, <1>9, ExactHandle DEF Next, Housekeeping, Agents

\* A review opens its windows in trees at the head it is told to review, unless somebody has
\* changed the tree since the review prepared it.
THEOREM ReviewsAreExact == Spec => []ReviewIsExact
<1>1. ASSUME Init PROVE ReviewIsExact
  <2>1. Rest.exact = FALSE
    BY DEF Rest
  <2>. QED
    BY <1>1, <2>1 DEF Init, ReviewIsExact
<1>2. Base /\ ReviewIsExact /\ [Next]_vars => ReviewIsExact'
  BY ExactStep
<1>. QED
  BY <1>1, <1>2, Based, PTL DEF Spec

-----------------------------------------------------------------------------
(* The agents' trees *)

Places == Paths \cup {None}

\* What the trees of two agents rest on.
Claims ==
    /\ RecordsAreTrue /\ WindowsAreApart
    /\ \A h \in Hands : SureIsAlone(h) /\ SyncKnows(h)

\* No window is opened, nor gets another tree.
WinKept ==
    \A w \in Windows :
        /\ w \in Live' => w \in Live /\ win'[w].tree = win[w].tree /\ win'[w].sure = win[w].sure
        /\ win'[w].state = "unopened" => win[w].state = "unopened"

\* No window is recorded.
RecKept == \A w \in Windows, p \in Places : Recorded(thread', w, p) => Recorded(thread, w, p)

\* The hand h has opened no other window.
OpenKept(h) == \A w \in Windows, p \in Places : Opens(hand'[h], w, p) => Opens(hand[h], w, p)

LEMMA LikeOpens ==
  ASSUME NEW x, NEW y, Like(x, y), NEW w, NEW p, Opens(y, w, p)
  PROVE  Opens(x, w, p)
  BY DEF Like, Opens

\* Only a launch opens windows.
LEMMA OpenerLaunches ==
  ASSUME NEW x \in Hand, Sound(x), NEW w \in Windows, NEW p, Opens(x, w, p)
  PROVE  x.pc # "rest" /\ x.who # "sync"
<1>1. x.opened # None \/ x.peer # None
  BY Kinds DEF Opens
<1>. QED
  BY <1>1 DEF Sound

LEMMA Kept ==
  ASSUME RecordsAreTrue, WindowsAreApart, WinKept, RecKept, \A k \in Hands : OpenKept(k)
  PROVE  RecordsAreTrue' /\ WindowsAreApart'
<1>. USE DEF Places
<1>1. RecordsAreTrue'
  BY DEF RecordsAreTrue, WinKept, RecKept, OpenKept
<1>2. \A v, w \in Windows : BothSure(v, w)' => BothSure(v, w)
  BY DEF BothSure, WinKept
<1>3. ASSUME NEW v \in Windows, NEW w \in Windows, NEW p \in Paths \ {Fallback},
             v # w, Recorded(thread', v, p), Recorded(thread', w, p), BothSure(v, w)'
      PROVE  FALSE
  BY <1>2, <1>3 DEF WindowsAreApart, RecKept
<1>4. ASSUME NEW h \in Hands, NEW v \in Windows, NEW w \in Windows, NEW p \in Paths \ {Fallback},
             Opens(hand'[h], v, p), Recorded(thread', w, p), BothSure(v, w)'
      PROVE  FALSE
  BY <1>2, <1>4 DEF WindowsAreApart, RecKept, OpenKept
<1>5. ASSUME NEW h \in Hands, NEW k \in Hands, NEW v \in Windows, NEW w \in Windows,
             NEW p \in Places, NEW q \in Places,
             h # k, Opens(hand'[h], v, p), Opens(hand'[k], w, q), BothSure(v, w)'
      PROVE  FALSE
  <2>1. Opens(hand[h], v, p) /\ Opens(hand[k], w, q) /\ BothSure(v, w)
    BY <1>2, <1>5 DEF OpenKept
  <2>. QED
    BY <1>5, <2>1 DEF WindowsAreApart
<1>. QED
  BY <1>1, <1>3, <1>4, <1>5 DEF WindowsAreApart

\* The claims of a hand k that does nothing, when no window is opened or recorded.
LEMMA SureStill ==
  ASSUME NEW k \in Hands, SureIsAlone(k), hand[k] \in Hand, WinKept, RecKept,
         Like(hand[k], hand'[k]), hand'[k].sure => hand[k].sure,
         Launching(k) /\ hand'[k].sure => \A j \in Hands \ {k} : Launching(j)' => Launching(j)
  PROVE  SureIsAlone(k)'
<1>. SUFFICES ASSUME Launching(k)', hand'[k].sure
              PROVE  /\ \A j \in Hands \ {k} : ~Launching(j)'
                     /\ hand'[k].pc = "choose" => Live' \subseteq hand'[k].list
                     /\ \A w \in Live', p \in {hand'[k].path, hand'[k].drv, hand'[k].mem} \ {None, Fallback} :
                           Recorded(thread', w, p) => ~win'[w].sure
  BY DEF SureIsAlone
<1>1. Launching(k) /\ hand[k].sure
  BY DEF Launching, Like
<1>2. \A j \in Hands \ {k} : ~Launching(j)'
  BY <1>1 DEF SureIsAlone
<1>3. \A w \in Live' : w \in Windows /\ w \in Live /\ win'[w].sure = win[w].sure
  BY DEF WinKept, Live
<1>4. hand'[k].pc = "choose" => Live' \subseteq hand'[k].list
  BY <1>1, <1>3 DEF SureIsAlone, Like
<1>5. ASSUME NEW w \in Live', NEW p \in {hand'[k].path, hand'[k].drv, hand'[k].mem} \ {None, Fallback},
             Recorded(thread', w, p)
      PROVE  ~win'[w].sure
  <2>1. p \in {hand[k].path, hand[k].drv, hand[k].mem} \ {None, Fallback}
    BY DEF Like
  <2>2. p \in Places
    BY <2>1 DEF Hand, Places
  <2>3. Recorded(thread, w, p)
    BY <1>3, <1>5, <2>2 DEF RecKept
  <2>4. ~win[w].sure
    BY <1>1, <1>3, <2>1, <2>3 DEF SureIsAlone
  <2>. QED
    BY <1>3, <2>4
<1>. QED
  BY <1>2, <1>4, <1>5

\* Whoever goes to work at the path of a continuation k is news to it.
LEMMA SyncStill ==
  ASSUME NEW k \in Hands, SyncKnows(k), Like(hand[k], hand'[k]), hand'[k].sure => hand[k].sure,
         hand[k].fresh \subseteq hand'[k].fresh,
         \A w \in Windows :
            /\ hand[k].who = "sync"
            /\ \/ Recorded(thread', w, hand[k].path)
               \/ \E j \in Hands : Opens(hand'[j], w, hand[k].path)
            /\ win'[w].state = "working" /\ win'[w].sure
            => \/ w \in hand'[k].fresh
               \/ /\ \/ Recorded(thread, w, hand[k].path)
                     \/ \E j \in Hands : Opens(hand[j], w, hand[k].path)
                  /\ win[w].state = "working" /\ win[w].sure
  PROVE  SyncKnows(k)'
<1>1. hand'[k].path = hand[k].path /\ hand'[k].who = hand[k].who
  BY DEF Like
<1>. QED
  BY <1>1 DEF SyncKnows

\* The agents and housekeeping: no window is opened or recorded.
LEMMA WorldStep ==
  ASSUME Base, Claims, WinKept, RecKept,
         \A k \in Hands : /\ Like(hand[k], hand'[k]) /\ hand'[k].sure = hand[k].sure
                          /\ hand[k].fresh \subseteq hand'[k].fresh,
         \A k \in Hands, w \in Windows :
            hand[k].who = "sync" /\ hand[k].pc # "rest"
                /\ win'[w].state = "working" /\ win[w].state # "working" => w \in hand'[k].fresh
  PROVE  Claims'
<1>1. \A k \in Hands : OpenKept(k)
  BY LikeOpens DEF OpenKept
<1>2. RecordsAreTrue' /\ WindowsAreApart'
  BY <1>1, Kept DEF Claims
<1>3. \A j \in Hands : Launching(j)' => Launching(j)
  BY DEF Launching, Like
<1>4. ASSUME NEW k \in Hands PROVE SureIsAlone(k)'
  <2>1. SureIsAlone(k) /\ hand[k] \in Hand
    BY DEF Claims, Base, TypeOK
  <2>. QED
    BY <1>3, <2>1, SureStill
<1>5. ASSUME NEW k \in Hands PROVE SyncKnows(k)'
  <2>1. SyncKnows(k) /\ hand[k] \in Hand /\ Sound(hand[k])
    BY DEF Claims, Base, TypeOK, HandIsSound
  <2>2. hand[k].path \in Places
    BY <2>1 DEF Hand, Places
  <2>3. ASSUME NEW w \in Windows, hand[k].who = "sync", win'[w].state = "working", win'[w].sure
        PROVE  w \in hand'[k].fresh \/ (win[w].state = "working" /\ win[w].sure)
    <3>1. hand[k].pc # "rest"
      BY <2>1, <2>3 DEF Sound
    <3>2. w \in Live'
      BY <2>3 DEF Live
    <3>. QED
      BY <2>3, <3>1, <3>2 DEF WinKept
  <2>4. ASSUME NEW w \in Windows,
               Recorded(thread', w, hand[k].path)
               \/ \E j \in Hands : Opens(hand'[j], w, hand[k].path)
        PROVE  Recorded(thread, w, hand[k].path)
               \/ \E j \in Hands : Opens(hand[j], w, hand[k].path)
    BY <1>1, <2>2, <2>4 DEF RecKept, OpenKept
  <2>. QED
    BY <2>1, <2>3, <2>4, SyncStill
<1>. QED
  BY <1>2, <1>4, <1>5 DEF Claims

\* A hand h takes a step, and opens or records no window.
LEMMA QuietStep ==
  ASSUME Base, Claims, NEW h \in Hands, Others(h), UNCHANGED win, RecKept, OpenKept(h),
         \/ Launching(h)' => Launching(h)
         \/ \A k \in Hands : k # h /\ Launching(k) => ~hand'[k].sure,
         SureIsAlone(h)', SyncKnows(h)'
  PROVE  Claims'
<1>1. \A k \in Hands : OpenKept(k)
  BY LikeOpens DEF OpenKept, Others
<1>2. WinKept
  BY DEF WinKept, Live
<1>3. RecordsAreTrue' /\ WindowsAreApart'
  BY <1>1, <1>2, Kept DEF Claims
<1>4. ASSUME NEW k \in Hands, k # h PROVE SureIsAlone(k)'
  <2>1. SureIsAlone(k) /\ hand[k] \in Hand
    BY DEF Claims, Base, TypeOK
  <2>2. Like(hand[k], hand'[k]) /\ (hand'[k].sure => hand[k].sure)
    BY <1>4 DEF Others
  <2>3. \A j \in Hands : j # h => (Launching(j)' => Launching(j))
    BY DEF Launching, Others, Like
  <2>4. Launching(k) /\ hand'[k].sure => \A j \in Hands \ {k} : Launching(j)' => Launching(j)
    BY <1>4, <2>3
  <2>. QED
    BY <1>2, <2>1, <2>2, <2>4, SureStill
<1>5. ASSUME NEW k \in Hands, k # h PROVE SyncKnows(k)'
  <2>1. SyncKnows(k) /\ hand[k] \in Hand
    BY DEF Claims, Base, TypeOK
  <2>2. Like(hand[k], hand'[k]) /\ (hand'[k].sure => hand[k].sure)
        /\ hand[k].fresh \subseteq hand'[k].fresh
    BY <1>5 DEF Others
  <2>3. hand[k].path \in Places
    BY <2>1 DEF Hand, Places
  <2>4. ASSUME NEW w \in Windows,
               Recorded(thread', w, hand[k].path)
               \/ \E j \in Hands : Opens(hand'[j], w, hand[k].path)
        PROVE  Recorded(thread, w, hand[k].path)
               \/ \E j \in Hands : Opens(hand[j], w, hand[k].path)
    BY <1>1, <2>3, <2>4 DEF RecKept, OpenKept
  <2>. QED
    BY <2>1, <2>2, <2>4, SyncStill
<1>. QED
  BY <1>3, <1>4, <1>5 DEF Claims

\* A launch h opens a window in a tree it has chosen.
LEMMA OpenStep ==
  ASSUME Base, Claims, NEW h \in Hands, Others(h), UNCHANGED thread, Launching(h),
         NEW n \in Windows, NEW d \in {hand[h].drv, hand[h].mem}, Opened(h, n, d),
         hand'[h].sure = hand[h].sure, hand'[h].who # "sync", hand'[h].pc # "choose",
         hand'[h].path = None, hand'[h].mem = None, hand'[h].drv = hand[h].drv,
         \A w \in Windows, p \in Places :
            Opens(hand'[h], w, p) => Opens(hand[h], w, p) \/ (w = n /\ p = d)
  PROVE  Claims'
<1>. DEFINE x == hand[h]
<1>1. x \in Hand /\ x.drv \in Places /\ x.mem \in Places /\ d \in Places
  <2>1. x \in Hand
    BY DEF Base, TypeOK
  <2>. QED
    BY <2>1 DEF Hand, Places
<1>2. /\ win[n].state = "unopened"
      /\ win'[n] = [state |-> "working", tree |-> d, sure |-> hand[h].sure]
      /\ \A w \in Windows : w # n => win'[w] = win[w]
  BY DEF Opened, Base, TypeOK
<1>3. /\ \A p \in Places : ~Recorded(thread, n, p) /\ \A k \in Hands : ~Opens(hand[k], n, p)
      /\ n \notin Live
  BY <1>2 DEF Claims, RecordsAreTrue, Places, Live
<1>4. \A k \in Hands, w \in Windows, p \in Places :
         Opens(hand'[k], w, p) => Opens(hand[k], w, p) \/ (k = h /\ w = n /\ p = d)
  BY LikeOpens DEF Others
<1>5. \A w \in Windows : w # n => (w \in Live' <=> w \in Live)
  BY <1>2 DEF Live
<1>6. RecordsAreTrue'
  <2>. SUFFICES ASSUME NEW w \in Windows, NEW p \in Places,
                       Recorded(thread, w, p) \/ \E k \in Hands : Opens(hand'[k], w, p)
                PROVE  win'[w].state # "unopened" /\ (w \in Live' => win'[w].tree = p)
    BY DEF RecordsAreTrue, Places
  <2>1. CASE w = n
    <3>1. p = d
      BY <1>3, <1>4, <2>1
    <3>. QED
      BY <1>2, <2>1, <3>1
  <2>2. CASE w # n
    <3>1. Recorded(thread, w, p) \/ \E k \in Hands : Opens(hand[k], w, p)
      BY <1>4, <2>2
    <3>. QED
      BY <1>2, <1>5, <2>2, <3>1 DEF Claims, RecordsAreTrue, Places
  <2>. QED
    BY <2>1, <2>2
<1>7. \A v, w \in Windows : v # n /\ w # n /\ BothSure(v, w)' => BothSure(v, w)
  BY <1>2, <1>5 DEF BothSure
<1>8. x.sure => \A k \in Hands, w \in Windows, p \in Places : k # h => ~Opens(hand[k], w, p)
  <2>. SUFFICES ASSUME x.sure, NEW k \in Hands, k # h, NEW w \in Windows, NEW p \in Places,
                       Opens(hand[k], w, p)
                PROVE  FALSE
    OBVIOUS
  <2>1. Launching(k)
    BY OpenerLaunches DEF Base, TypeOK, HandIsSound, Launching
  <2>. QED
    BY <2>1 DEF Claims, SureIsAlone
<1>9. ASSUME NEW v \in Windows, NEW w \in Windows, NEW p \in Paths \ {Fallback},
             v # w, Recorded(thread', v, p), Recorded(thread', w, p), BothSure(v, w)'
      PROVE  FALSE
  <2>1. v # n /\ w # n /\ Recorded(thread, v, p) /\ Recorded(thread, w, p)
    BY <1>3, <1>9 DEF Places
  <2>. QED
    BY <1>7, <1>9, <2>1 DEF Claims, WindowsAreApart
<1>10. ASSUME NEW k \in Hands, NEW v \in Windows, NEW w \in Windows, NEW p \in Paths \ {Fallback},
              Opens(hand'[k], v, p), Recorded(thread', w, p), BothSure(v, w)'
       PROVE  FALSE
  <2>1. w # n /\ Recorded(thread, w, p)
    BY <1>3, <1>10 DEF Places
  <2>2. CASE v = n
    <3>1. k = h /\ p = d
      BY <1>3, <1>4, <1>10, <2>2 DEF Places
    <3>2. x.sure /\ w \in Live /\ win[w].sure
      BY <1>2, <1>5, <1>10, <2>1, <2>2 DEF BothSure
    <3>3. p \in {x.path, x.drv, x.mem} \ {None, Fallback}
      BY <3>1, Kinds
    <3>. QED
      BY <2>1, <3>2, <3>3 DEF Claims, SureIsAlone
  <2>3. CASE v # n
    <3>1. Opens(hand[k], v, p) /\ BothSure(v, w)
      BY <1>4, <1>7, <1>10, <2>1, <2>3 DEF Places
    <3>. QED
      BY <2>1, <3>1 DEF Claims, WindowsAreApart
  <2>. QED
    BY <2>2, <2>3
<1>11. ASSUME NEW i \in Hands, NEW k \in Hands, NEW v \in Windows, NEW w \in Windows,
              NEW p \in Places, NEW q \in Places,
              i # k, Opens(hand'[i], v, p), Opens(hand'[k], w, q), BothSure(v, w)'
       PROVE  FALSE
  <2>1. CASE v # n /\ w # n
    <3>1. Opens(hand[i], v, p) /\ Opens(hand[k], w, q) /\ BothSure(v, w)
      BY <1>4, <1>7, <1>11, <2>1
    <3>. QED
      BY <1>11, <3>1 DEF Claims, WindowsAreApart, Places
  <2>2. CASE v = n
    <3>1. i = h /\ x.sure
      BY <1>2, <1>3, <1>4, <1>11, <2>2 DEF BothSure
    <3>2. Opens(hand[k], w, q)
      BY <1>4, <1>11, <3>1
    <3>. QED
      BY <1>8, <1>11, <3>1, <3>2
  <2>3. CASE w = n
    <3>1. k = h /\ x.sure
      BY <1>2, <1>3, <1>4, <1>11, <2>3 DEF BothSure
    <3>2. Opens(hand[i], v, p)
      BY <1>4, <1>11, <3>1
    <3>. QED
      BY <1>8, <1>11, <3>1, <3>2
  <2>. QED
    BY <2>1, <2>2, <2>3
<1>12. WindowsAreApart'
  BY <1>9, <1>10, <1>11 DEF WindowsAreApart, Places
<1>13. SureIsAlone(h)'
  <2>. SUFFICES ASSUME Launching(h)', hand'[h].sure
                PROVE  /\ \A k \in Hands \ {h} : ~Launching(k)'
                       /\ \A w \in Live', p \in {None, x.drv} \ {None, Fallback} :
                             Recorded(thread, w, p) => ~win'[w].sure
    BY DEF SureIsAlone
  <2>1. x.sure
    OBVIOUS
  <2>2. \A k \in Hands \ {h} : ~Launching(k)'
    BY <2>1 DEF Claims, SureIsAlone, Launching, Others, Like
  <2>3. ASSUME NEW w \in Live', NEW p \in {None, x.drv} \ {None, Fallback}, Recorded(thread, w, p)
        PROVE  ~win'[w].sure
    <3>1. w \in Windows /\ p \in Places /\ p = x.drv
      BY <1>1 DEF Live
    <3>2. w # n
      BY <1>3, <2>3, <3>1
    <3>3. w \in Live /\ win'[w] = win[w]
      BY <1>2, <1>5, <3>1, <3>2
    <3>. QED
      BY <2>1, <2>3, <3>1, <3>3 DEF Claims, SureIsAlone
  <2>. QED
    BY <2>2, <2>3
<1>14. ASSUME NEW k \in Hands, k # h PROVE SureIsAlone(k)'
  <2>1. SureIsAlone(k) /\ Like(hand[k], hand'[k]) /\ (hand'[k].sure => hand[k].sure)
    BY <1>14 DEF Claims, Others
  <2>2. ~(Launching(k)' /\ hand'[k].sure)
    BY <1>14, <2>1 DEF SureIsAlone, Launching, Like
  <2>. QED
    BY <2>2 DEF SureIsAlone
<1>15. ASSUME NEW k \in Hands, k # h PROVE SyncKnows(k)'
  <2>1. SyncKnows(k) /\ hand[k] \in Hand /\ Sound(hand[k])
    BY DEF Claims, Base, TypeOK, HandIsSound
  <2>2. Like(hand[k], hand'[k]) /\ (hand'[k].sure => hand[k].sure)
        /\ hand[k].fresh \subseteq hand'[k].fresh
    BY <1>15 DEF Others
  <2>3. hand[k].path \in Places
    BY <2>1 DEF Hand, Places
  <2>4. hand[k].who = "sync" => n \in hand'[k].fresh
    <3>1. hand[k].who = "sync" => hand[k].pc \in {"look", "move"}
      BY <2>1 DEF Sound
    <3>. QED
      BY <1>15, <3>1 DEF Opened
  <2>5. ASSUME NEW w \in Windows, w # n,
               Recorded(thread', w, hand[k].path)
               \/ \E j \in Hands : Opens(hand'[j], w, hand[k].path)
        PROVE  Recorded(thread, w, hand[k].path)
               \/ \E j \in Hands : Opens(hand[j], w, hand[k].path)
    BY <1>4, <2>3, <2>5
  <2>. QED
    BY <1>2, <2>1, <2>2, <2>4, <2>5, SyncStill
<1>16. SyncKnows(h)'
  BY DEF SyncKnows
<1>. QED
  BY <1>6, <1>12, <1>13, <1>14, <1>15, <1>16 DEF Claims

\* A launch h records the window n that it has opened in the tree at d.
LEMMA RecordStep ==
  ASSUME Base, Claims, NEW h \in Hands, Alone(h), UNCHANGED win, Launching(h),
         NEW n \in Windows, NEW d \in Places, Opens(hand[h], n, d),
         \A w \in Windows, p \in Places :
            Recorded(thread', w, p) => Recorded(thread, w, p) \/ (w = n /\ p = d),
         \A w \in Windows, p \in Places :
            Opens(hand'[h], w, p) => Opens(hand[h], w, p) /\ (p = d => d \in {Fallback, None}),
         hand'[h].sure => hand[h].sure, hand'[h].who = "driver", hand'[h].pc # "choose",
         hand'[h].path = None, hand'[h].mem = None, hand'[h].drv = None
  PROVE  Claims'
<1>1. \A k \in Hands, w \in Windows, p \in Places : Opens(hand'[k], w, p) => Opens(hand[k], w, p)
  BY DEF Alone
<1>2. Live' = Live
  BY DEF Live
<1>3. RecordsAreTrue'
  BY <1>1, <1>2 DEF Claims, RecordsAreTrue, Places
<1>4. \A v, w \in Windows : BothSure(v, w)' => BothSure(v, w) /\ BothSure(w, v)
  BY <1>2 DEF BothSure
<1>5. ASSUME NEW v \in Windows, NEW w \in Windows, NEW p \in Paths \ {Fallback},
             v # w, Recorded(thread', v, p), Recorded(thread', w, p), BothSure(v, w)'
      PROVE  FALSE
  <2>1. /\ Recorded(thread, v, p) \/ (v = n /\ p = d)
        /\ Recorded(thread, w, p) \/ (w = n /\ p = d)
        /\ BothSure(v, w) /\ BothSure(w, v)
    BY <1>4, <1>5 DEF Places
  <2>. QED
    BY <1>5, <2>1 DEF Claims, WindowsAreApart
<1>6. ASSUME NEW k \in Hands, NEW v \in Windows, NEW w \in Windows, NEW p \in Paths \ {Fallback},
             Opens(hand'[k], v, p), Recorded(thread', w, p), BothSure(v, w)'
      PROVE  FALSE
  <2>1. /\ Recorded(thread, w, p) \/ (w = n /\ p = d)
        /\ BothSure(v, w) /\ Opens(hand[k], v, p)
        /\ k = h => p # d
    BY <1>1, <1>4, <1>6, Kinds DEF Places
  <2>. QED
    BY <1>6, <2>1 DEF Claims, WindowsAreApart, Places
<1>7. ASSUME NEW i \in Hands, NEW k \in Hands, NEW v \in Windows, NEW w \in Windows,
             NEW p \in Places, NEW q \in Places,
             i # k, Opens(hand'[i], v, p), Opens(hand'[k], w, q), BothSure(v, w)'
      PROVE  FALSE
  <2>1. Opens(hand[i], v, p) /\ Opens(hand[k], w, q) /\ BothSure(v, w)
    BY <1>1, <1>4, <1>7
  <2>. QED
    BY <1>7, <2>1 DEF Claims, WindowsAreApart, Places
<1>8. WindowsAreApart'
  BY <1>5, <1>6, <1>7 DEF WindowsAreApart, Places
<1>9. SureIsAlone(h)'
  BY DEF Claims, SureIsAlone, Launching, Alone
<1>10. ASSUME NEW k \in Hands, k # h PROVE SureIsAlone(k)'
  <2>1. ~(Launching(k)' /\ hand'[k].sure)
    BY <1>10 DEF Claims, SureIsAlone, Launching, Alone
  <2>. QED
    BY <2>1 DEF SureIsAlone
<1>11. ASSUME NEW k \in Hands, k # h PROVE SyncKnows(k)'
  <2>1. SyncKnows(k) /\ hand[k] \in Hand /\ hand'[k] = hand[k]
    BY <1>11 DEF Claims, Base, TypeOK, Alone
  <2>2. hand[k].path \in Places
    BY <2>1 DEF Hand, Places
  <2>3. ASSUME NEW w \in Windows,
               Recorded(thread', w, hand[k].path)
               \/ \E j \in Hands : Opens(hand'[j], w, hand[k].path)
        PROVE  Recorded(thread, w, hand[k].path)
               \/ \E j \in Hands : Opens(hand[j], w, hand[k].path)
    BY <1>1, <2>2, <2>3
  <2>4. Like(hand[k], hand'[k])
    BY <2>1 DEF Like
  <2>. QED
    BY <2>1, <2>3, <2>4, SyncStill
<1>12. SyncKnows(h)'
  BY DEF SyncKnows
<1>. QED
  BY <1>3, <1>8, <1>9, <1>10, <1>11, <1>12 DEF Claims

LEMMA SameRecords == ASSUME UNCHANGED thread PROVE RecKept
  BY DEF RecKept

\* A hand's claims after a step that chooses no path.
LEMMA SureOwn ==
  ASSUME Base, Claims, NEW h \in Hands, Others(h), UNCHANGED win, RecKept,
         Launching(h)' /\ hand'[h].sure => Launching(h) /\ hand[h].sure,
         hand'[h].pc = "choose" /\ hand'[h].sure => hand'[h].list = Live,
         {hand'[h].path, hand'[h].drv, hand'[h].mem}
            \subseteq {hand[h].path, hand[h].drv, hand[h].mem, None}
  PROVE  SureIsAlone(h)'
<1>. SUFFICES ASSUME Launching(h)', hand'[h].sure
              PROVE  /\ \A k \in Hands \ {h} : ~Launching(k)'
                     /\ hand'[h].pc = "choose" => Live' \subseteq hand'[h].list
                     /\ \A w \in Live', p \in {hand'[h].path, hand'[h].drv, hand'[h].mem} \ {None, Fallback} :
                           Recorded(thread', w, p) => ~win'[w].sure
  BY DEF SureIsAlone
<1>1. Launching(h) /\ hand[h].sure /\ SureIsAlone(h) /\ hand[h] \in Hand
  BY DEF Claims, Base, TypeOK
<1>2. \A k \in Hands \ {h} : ~Launching(k)'
  BY <1>1 DEF SureIsAlone, Launching, Others, Like
<1>3. Live' = Live /\ Live \subseteq Windows
  BY DEF Live
<1>4. ASSUME NEW w \in Live, NEW p \in {hand'[h].path, hand'[h].drv, hand'[h].mem} \ {None, Fallback},
             Recorded(thread', w, p)
      PROVE  ~win[w].sure
  <2>1. p \in {hand[h].path, hand[h].drv, hand[h].mem} \ {None, Fallback}
    OBVIOUS
  <2>2. p \in Places
    BY <1>1, <2>1 DEF Hand, Places
  <2>3. Recorded(thread, w, p)
    BY <1>3, <1>4, <2>2 DEF RecKept
  <2>. QED
    BY <1>1, <2>1, <2>3 DEF SureIsAlone
<1>. QED
  BY <1>2, <1>3, <1>4

LEMMA OpensRest == ASSUME NEW w \in Windows, NEW p PROVE ~Opens(Rest, w, p)
  BY Kinds DEF Opens, Rest

\* The hand is done.
LEMMA RestClaims ==
  ASSUME Base, Claims, NEW h \in Hands, Others(h), UNCHANGED win, RecKept, hand'[h] = Rest
  PROVE  Claims'
<1>1. OpenKept(h)
  BY OpensRest DEF OpenKept
<1>2. ~Launching(h)' /\ hand'[h].who # "sync"
  BY DEF Launching, Rest
<1>3. SureIsAlone(h)' /\ SyncKnows(h)'
  BY <1>2 DEF SureIsAlone, SyncKnows
<1>. QED
  BY <1>1, <1>2, <1>3, QuietStep

LEMMA StartClaims ==
  ASSUME Base, Claims, NEW h \in Hands, NEW r \in Roots, NEW exact \in BOOLEAN, Start(h, r, exact)
  PROVE  Claims'
<1>1. /\ Others(h) /\ hand[h].pc = "rest"
      /\ \A k \in Hands : k # h /\ Launching(k) => ~hand'[k].sure
      /\ hand'[h].pc = "choose" /\ hand'[h].who = "driver" /\ hand'[h].path = None
      /\ hand'[h].drv = None /\ hand'[h].mem = None /\ hand'[h].peer = None
      /\ hand'[h].opened = None
      /\ hand'[h].sure => hand'[h].list = Live /\ \A k \in Hands : ~Launching(k)
  BY StartIs DEF Base
<1>2. UNCHANGED win
  BY DEF Start
<1>3. RecKept
  <2>1. thread' = IF exact THEN [thread EXCEPT ![r].window = None] ELSE thread
    BY DEF Start
  <2>2. \A k \in Roots : /\ thread'[k].window = thread[k].window \/ thread'[k].window = None
                         /\ thread'[k].tree = thread[k].tree
                         /\ thread'[k].members = thread[k].members
    BY <2>1 DEF Base, TypeOK
  <2>. QED
    BY <2>2, Kinds DEF RecKept, Recorded
<1>4. OpenKept(h)
  BY <1>1, Kinds DEF OpenKept, Opens
<1>5. SureIsAlone(h)'
  <2>1. hand'[h].sure => \A k \in Hands \ {h} : ~Launching(k)'
    BY <1>1 DEF Launching, Others, Like
  <2>2. Live' = Live
    BY <1>2 DEF Live
  <2>. QED
    BY <1>1, <2>1, <2>2 DEF SureIsAlone
<1>6. SyncKnows(h)'
  BY <1>1 DEF SyncKnows
<1>. QED
  BY <1>1, <1>2, <1>3, <1>4, <1>5, <1>6, QuietStep

LEMMA SyncClaims ==
  ASSUME Base, Claims, NEW h \in Hands, NEW r \in Roots, Sync(h, r)
  PROVE  Claims'
<1>1. /\ Others(h) /\ hand[h].pc = "rest" /\ hand'[h].pc = "look" /\ hand'[h].who = "sync"
      /\ hand'[h].path = thread[r].tree /\ hand'[h].peer = None /\ hand'[h].opened = None
      /\ hand'[h].sure = win[thread[r].window].sure
  BY SyncIs, AloneIsOthers DEF Base
<1>2. UNCHANGED win /\ UNCHANGED thread
  BY DEF Sync
<1>3. RecKept
  BY <1>2, SameRecords
<1>4. OpenKept(h)
  BY <1>1, Kinds DEF OpenKept, Opens
<1>5. ~Launching(h)'
  BY <1>1 DEF Launching
<1>6. SureIsAlone(h)'
  BY <1>5 DEF SureIsAlone
<1>7. SyncKnows(h)'
  <2>. DEFINE v == thread[r].window
              p == thread[r].tree
  <2>1. v \in Live /\ v \in Windows /\ p \in Paths /\ win[v].state = "idle"
    BY DEF Sync, Live, Base, TypeOK
  <2>2. Recorded(thread, v, p)
    BY DEF Recorded
  <2>. SUFFICES ASSUME win[v].sure, p # Fallback, NEW w \in Windows,
                       Recorded(thread, w, p) \/ \E k \in Hands : Opens(hand'[k], w, p),
                       win[w].state = "working", win[w].sure
                PROVE  FALSE
    BY <1>1, <1>2 DEF SyncKnows
  <2>3. v # w /\ BothSure(v, w) /\ BothSure(w, v)
    BY <2>1 DEF BothSure, Live
  <2>4. ~Recorded(thread, w, p)
    BY <2>1, <2>2, <2>3 DEF Claims, WindowsAreApart
  <2>5. PICK k \in Hands : Opens(hand'[k], w, p)
    BY <2>4
  <2>6. Opens(hand[k], w, p)
    <3>1. CASE k = h
      BY <1>4, <2>1, <2>5, <3>1 DEF OpenKept, Places
    <3>2. CASE k # h
      BY <1>1, <2>5, <3>2, LikeOpens DEF Others
    <3>. QED
      BY <3>1, <3>2
  <2>. QED
    BY <2>1, <2>2, <2>3, <2>6 DEF Claims, WindowsAreApart
<1>. QED
  BY <1>1, <1>2, <1>3, <1>4, <1>5, <1>6, <1>7, QuietStep

LEMMA ListClaims == ASSUME Base, Claims, NEW h \in Hands, ListForMember(h) PROVE Claims'
<1>1. /\ Others(h) /\ hand[h].pc = "list" /\ hand'[h].pc = "choose" /\ hand'[h].who = hand[h].who
      /\ hand'[h].path = None /\ hand'[h].drv = hand[h].drv /\ hand'[h].mem = None
      /\ hand'[h].peer = None /\ hand'[h].opened = None
      /\ hand'[h].sure => hand[h].sure /\ hand'[h].list = Live
  BY ListIs, AloneIsOthers DEF Base
<1>2. UNCHANGED win /\ RecKept
  BY SameRecords DEF ListForMember
<1>3. Sound(hand[h])
  BY DEF Base, HandIsSound
<1>4. hand[h].who # "sync"
  BY <1>1, <1>3 DEF Sound
<1>5. OpenKept(h)
  BY <1>1, Kinds DEF OpenKept, Opens
<1>6. Launching(h)' => Launching(h)
  BY <1>1, <1>4 DEF Launching
<1>7. SureIsAlone(h)'
  BY <1>1, <1>2, <1>6, SureOwn
<1>8. SyncKnows(h)'
  BY <1>1, <1>4 DEF SyncKnows
<1>. QED
  BY <1>1, <1>2, <1>5, <1>6, <1>7, <1>8, QuietStep

\* Who chooses a path with the list of all windows chooses one that no recorded window has.
LEMMA ChooseClaims == ASSUME Base, Claims, NEW h \in Hands, Choose(h) PROVE Claims'
<1>. DEFINE x == hand[h]
<1>1. /\ Others(h) /\ x.pc = "choose" /\ hand'[h].pc = "look" /\ hand'[h].who = x.who
      /\ hand'[h].path \in Paths
      /\ hand'[h].path # Fallback => hand'[h].path \notin BusyWorktrees(x.list)
      /\ hand'[h].drv = x.drv /\ hand'[h].mem = None /\ hand'[h].peer = None
      /\ hand'[h].opened = None /\ hand'[h].sure = x.sure
  BY ChooseIs, AloneIsOthers DEF Base
<1>2. UNCHANGED win /\ UNCHANGED thread /\ RecKept
  BY SameRecords DEF Choose
<1>3. Sound(x) /\ x \in Hand
  BY DEF Base, HandIsSound, TypeOK
<1>4. x.who # "sync"
  BY <1>1, <1>3 DEF Sound
<1>5. OpenKept(h)
  BY <1>1, Kinds DEF OpenKept, Opens
<1>6. Launching(h)
  BY <1>1, <1>4 DEF Launching
<1>7. SureIsAlone(h)'
  <2>. SUFFICES ASSUME x.sure
                PROVE  /\ \A k \in Hands \ {h} : ~Launching(k)'
                       /\ \A w \in Live, p \in {hand'[h].path, x.drv} \ {None, Fallback} :
                             Recorded(thread, w, p) => ~win[w].sure
    <3>1. Live' = Live
      BY <1>2 DEF Live
    <3>. QED
      BY <1>1, <1>2, <3>1 DEF SureIsAlone
  <2>1. SureIsAlone(h) /\ Live \subseteq x.list
    BY <1>1, <1>6 DEF Claims, SureIsAlone
  <2>2. \A k \in Hands \ {h} : ~Launching(k)'
    BY <1>1, <1>6, <2>1 DEF SureIsAlone, Launching, Others, Like
  <2>3. ASSUME NEW w \in Live, NEW p \in {hand'[h].path, x.drv} \ {None, Fallback},
               Recorded(thread, w, p)
        PROVE  ~win[w].sure
    <3>1. CASE p = x.drv
      BY <1>6, <2>1, <2>3, <3>1 DEF SureIsAlone
    <3>2. CASE p = hand'[h].path
      <4>1. p \in Paths /\ p # None /\ w \in x.list /\ p \notin BusyWorktrees(x.list)
        BY <1>1, <2>1, <2>3, <3>2, Kinds
      <4>2. PICK r \in Roots : \/ thread[r].window = w /\ thread[r].tree = p
                               \/ \E m \in thread[r].members : m.window = w /\ m.tree = p
        BY <2>3 DEF Recorded
      <4>3. CASE thread[r].window = w /\ thread[r].tree = p
        BY <4>1, <4>2, <4>3 DEF BusyWorktrees, BusyDrivers
      <4>4. CASE \E m \in thread[r].members : m.window = w /\ m.tree = p
        <5>1. PICK m \in thread[r].members : m.window = w /\ m.tree = p
          BY <4>4
        <5>2. m \in {k \in UNION {thread[s].members : s \in Roots} : k.window \in x.list}
          BY <4>1, <5>1
        <5>. QED
          BY <4>1, <5>1, <5>2 DEF BusyWorktrees
      <4>. QED
        BY <4>2, <4>3, <4>4
    <3>. QED
      BY <3>1, <3>2
  <2>. QED
    BY <2>2, <2>3
<1>8. SyncKnows(h)'
  BY <1>1, <1>4 DEF SyncKnows
<1>. QED
  BY <1>1, <1>2, <1>5, <1>6, <1>7, <1>8, QuietStep

\* A hand goes on to move or add the tree.
LEMMA MoveClaims ==
  ASSUME Base, Claims, NEW h \in Hands, hand[h].pc = "look", NEW dirty, dirty = FALSE,
         \/ Goes(h, [hand[h] EXCEPT !.pc = "move", !.rev = head, !.dirty = dirty])
         \/ Goes(h, [hand[h] EXCEPT !.pc = "move", !.rev = head]),
         UNCHANGED <<thread, win>>
  PROVE  Claims'
<1>. DEFINE x == hand[h]
<1>1. /\ Others(h) /\ Alone(h) /\ hand'[h].pc = "move" /\ hand'[h].who = x.who
      /\ hand'[h].path = x.path /\ hand'[h].drv = x.drv /\ hand'[h].mem = None
      /\ hand'[h].peer = x.peer /\ hand'[h].opened = x.opened /\ hand'[h].sure = x.sure
      /\ hand'[h].fresh = x.fresh
  BY MoveIs, AloneIsOthers DEF Base
<1>2. UNCHANGED win /\ UNCHANGED thread /\ RecKept
  BY SameRecords
<1>3. \A w, p : Opens(hand'[h], w, p) => Opens(hand[h], w, p)
  BY <1>1 DEF Opens
<1>4. OpenKept(h) /\ (Launching(h)' <=> Launching(h))
  BY <1>1, <1>3 DEF OpenKept, Launching
<1>5. SureIsAlone(h)'
  BY <1>1, <1>2, <1>4, SureOwn
<1>6. SyncKnows(h)'
  <2>1. \A k \in Hands : \A w, p : Opens(hand'[k], w, p) => Opens(hand[k], w, p)
    BY <1>1, <1>3 DEF Alone
  <2>2. SyncKnows(h)
    BY DEF Claims
  <2>. QED
    BY <1>1, <1>2, <2>1, <2>2 DEF SyncKnows
<1>. QED
  BY <1>1, <1>2, <1>4, <1>5, <1>6, QuietStep

\* A hand is done with its tree.
LEMMA ReadyClaims ==
  ASSUME Base, Claims, NEW h \in Hands, hand[h].pc \in {"look", "move"}, Others(h),
         NEW res \in Paths \cup {None}, NEW rev \in Heads \cup {None}, NEW ok \in BOOLEAN,
         ok => res = hand[h].path /\ rev \in Heads, res \in {hand[h].path, None},
         hand'[h] = Ready(h, res, rev, ok), UNCHANGED <<thread, win>>
  PROVE  Claims'
<1>. DEFINE x == hand[h]
            y == hand'[h]
<1>1. x \in Hand /\ Sound(x)
  BY DEF Base, TypeOK, HandIsSound
<1>2. UNCHANGED win /\ UNCHANGED thread /\ RecKept
  BY SameRecords
<1>3. CASE y = Rest
  BY <1>2, <1>3, RestClaims
<1>4. CASE y # Rest
  <2>1. PICK z : z = Ready(h, res, rev, ok)
    OBVIOUS
  <2>2. /\ z \in Hand /\ Sound(z)
        /\ z.pc \in {"list", "open", "member"} /\ x.who # "sync"
        /\ z.opened = x.opened /\ z.peer = x.peer /\ z.sure = x.sure /\ z.path = None
        /\ x.who = "driver" => z.drv = res /\ z.mem = None
        /\ x.who = "member" => z.drv = x.drv /\ z.mem = IF ok THEN res ELSE None
    BY <1>1, <1>4, <2>1, ReadyIs
  <2>3. y = z
    BY <2>1
  <2>4. x.opened = None /\ x.peer = None
    BY <1>1 DEF Sound
  <2>5. OpenKept(h)
    BY <2>2, <2>3, <2>4, Kinds DEF OpenKept, Opens
  <2>6. Launching(h) /\ y.who # "sync"
    BY <1>1, <2>2, <2>3 DEF Launching, Sound
  <2>7. x.who \in {"driver", "member"}
    BY <1>1, <2>2 DEF Hand
  <2>8. {y.path, y.drv, y.mem} \subseteq {x.path, x.drv, x.mem, None}
    BY <2>2, <2>3, <2>7
  <2>9. SureIsAlone(h)'
    BY <1>2, <2>2, <2>3, <2>6, <2>8, SureOwn
  <2>10. SyncKnows(h)'
    BY <2>6 DEF SyncKnows
  <2>. QED
    BY <1>2, <2>5, <2>6, <2>9, <2>10, QuietStep
<1>. QED
  BY <1>3, <1>4

LEMMA LookClaims ==
  ASSUME Base, Claims, NEW h \in Hands,
         \/ LookFails(h) \/ LookAt(h) \/ LookForRoom(h) \/ CheckoutFails(h) \/ AddTreeFails(h)
  PROVE  Claims'
<1>1. /\ hand[h].pc \in {"look", "move"} /\ UNCHANGED <<thread, win>>
      /\ TypeOK /\ HandIsSound /\ head \in Heads
  BY DEF LookFails, LookAt, LookForRoom, CheckoutFails, AddTreeFails, Base, TypeOK
<1>2. hand[h].path \in Paths /\ (hand[h].pc = "move" => hand[h].rev \in Heads)
  BY <1>1, PathOfMove
<1>3. ASSUME NEW res \in Paths \cup {None}, NEW rev \in Heads \cup {None}, NEW ok \in BOOLEAN,
             ok => res = hand[h].path /\ rev \in Heads, res \in {hand[h].path, None},
             Goes(h, Ready(h, res, rev, ok))
      PROVE  Claims'
  <2>1. Others(h) /\ hand'[h] = Ready(h, res, rev, ok)
    BY <1>1, <1>3, ReadyGoes, AloneIsOthers
  <2>. QED
    BY <1>1, <1>3, <2>1, ReadyClaims
<1>4. CASE LookFails(h)
  <2>1. PICK res : res = (IF hand[h].exists THEN hand[h].path ELSE None)
    OBVIOUS
  <2>2. Goes(h, Ready(h, res, None, FALSE)) /\ res \in Paths \cup {None} /\ res \in {hand[h].path, None}
    BY <1>2, <1>4, <2>1 DEF LookFails
  <2>. QED
    BY <1>3, <2>2
<1>5. CASE LookAt(h)
  <2>1. CASE Movable(tree[hand[h].path])
    <3>1. PICK dirty : dirty = tree[hand[h].path].dirty
      OBVIOUS
    <3>2. Goes(h, [hand[h] EXCEPT !.pc = "move", !.rev = head, !.dirty = dirty])
          /\ hand[h].pc = "look"
      BY <1>5, <2>1, <3>1 DEF LookAt
    <3>3. dirty = FALSE
      BY <1>1, <1>2, <2>1, <3>1 DEF Movable, TypeOK
    <3>. QED
      BY <1>1, <3>2, <3>3, MoveClaims
  <2>2. CASE ~Movable(tree[hand[h].path])
    <3>1. PICK ok : ok = AtHead(tree[hand[h].path])
      OBVIOUS
    <3>2. ok \in BOOLEAN
      BY <3>1 DEF AtHead
    <3>3. Goes(h, Ready(h, hand[h].path, head, ok))
      BY <1>5, <2>2, <3>1 DEF LookAt
    <3>. QED
      BY <1>1, <1>2, <1>3, <3>2, <3>3
  <2>. QED
    BY <2>1, <2>2
<1>6. CASE LookForRoom(h)
  BY <1>1, <1>6, MoveClaims DEF LookForRoom
<1>7. CASE CheckoutFails(h)
  <2>1. Goes(h, Ready(h, hand[h].path, hand[h].rev, FALSE)) /\ hand[h].rev \in Heads
    BY <1>2, <1>7 DEF CheckoutFails
  <2>. QED
    BY <1>2, <1>3, <2>1
<1>8. CASE AddTreeFails(h)
  <2>1. Goes(h, Ready(h, None, hand[h].rev, FALSE)) /\ hand[h].rev \in Heads
    BY <1>2, <1>8 DEF AddTreeFails
  <2>. QED
    BY <1>2, <1>3, <2>1
<1>. QED
  BY <1>4, <1>5, <1>6, <1>7, <1>8

LEMMA ChangeClaims ==
  ASSUME Base, Claims, NEW h \in Hands, Checkout(h) \/ AddTree(h)
  PROVE  Claims'
<1>1. hand[h].pc = "move" /\ UNCHANGED <<thread, win>> /\ TypeOK /\ HandIsSound
  BY DEF Checkout, AddTree, Base
<1>2. PICK rev \in Heads : rev = hand[h].rev
  BY <1>1, PathOfMove
<1>3. hand[h].path \in Paths
  BY <1>1, PathOfMove
<1>4. ASSUME NEW ok \in BOOLEAN, NEW t,
             Changes(h, hand[h].path, t, Ready(h, hand[h].path, hand[h].rev, ok))
      PROVE  Claims'
  <2>1. Changes(h, hand[h].path, t, Ready(h, hand[h].path, rev, ok))
    BY <1>2, <1>4
  <2>2. Others(h) /\ hand'[h] = Ready(h, hand[h].path, rev, ok)
    BY <1>1, <2>1, ReadyChanges
  <2>. QED
    BY <1>1, <1>3, <2>2, ReadyClaims
<1>5. CASE Checkout(h)
  BY <1>4, <1>5 DEF Checkout
<1>6. CASE AddTree(h)
  <2>1. PICK ok \in BOOLEAN :
            Changes(h, hand[h].path, [NoTree EXCEPT !.there = TRUE, !.sha = hand[h].rev],
                    Ready(h, hand[h].path, hand[h].rev, ok))
    BY <1>6 DEF AddTree
  <2>. QED
    BY <1>4, <2>1
<1>. QED
  BY <1>5, <1>6

LEMMA OpenMemberClaims == ASSUME Base, Claims, NEW h \in Hands, OpenMember(h) PROVE Claims'
<1>. DEFINE x == hand[h]
            y == hand'[h]
<1>1. /\ Others(h) /\ x.pc = "member" /\ x.who = "member" /\ y.pc = "open" /\ y.who = "member"
      /\ x.mem \in Paths /\ y.path = None /\ y.drv = x.drv /\ y.mem = None /\ y.opened = None
      /\ y.sure = x.sure
      /\ \/ UNCHANGED win /\ y.peer = None
         \/ \E w \in Windows : Opened(h, w, x.mem) /\ y.peer = [window |-> w, tree |-> x.mem]
  BY OpenMemberIs DEF Base
<1>2. UNCHANGED thread /\ RecKept /\ Launching(h)
  BY <1>1, SameRecords DEF OpenMember, Launching
<1>3. CASE UNCHANGED win /\ y.peer = None
  <2>1. OpenKept(h)
    BY <1>1, <1>3, Kinds DEF OpenKept, Opens
  <2>2. SureIsAlone(h)'
    BY <1>1, <1>2, <1>3, SureOwn
  <2>3. SyncKnows(h)'
    BY <1>1 DEF SyncKnows
  <2>. QED
    BY <1>1, <1>2, <1>3, <2>1, <2>2, <2>3, QuietStep
<1>4. ASSUME NEW n \in Windows, Opened(h, n, x.mem), y.peer = [window |-> n, tree |-> x.mem]
      PROVE  Claims'
  <2>1. \A w \in Windows, p \in Places : Opens(y, w, p) => w = n /\ p = x.mem
    BY <1>1, <1>4, Kinds DEF Opens
  <2>2. PICK d \in {hand[h].drv, hand[h].mem} : d = x.mem
    OBVIOUS
  <2>. QED
    BY <1>1, <1>2, <1>4, <2>1, <2>2, OpenStep
<1>. QED
  BY <1>1, <1>3, <1>4

LEMMA OpenClaims == ASSUME Base, Claims, NEW h \in Hands, Open(h) PROVE Claims'
<1>. DEFINE x == hand[h]
            y == hand'[h]
<1>1. /\ Others(h) /\ x.pc = "open"
      /\ \/ UNCHANGED win /\ y = Rest
         \/ /\ y.pc = "record" /\ y.who = x.who /\ y.path = None
            /\ y.drv = x.drv /\ y.mem = None /\ y.peer = x.peer /\ y.sure = x.sure
            /\ \E w \in Windows : Opened(h, w, x.drv) /\ y.opened = w
  BY OpenIs DEF Base
<1>2. UNCHANGED thread /\ RecKept
  BY SameRecords DEF Open
<1>3. Sound(x)
  BY DEF Base, HandIsSound
<1>4. x.who # "sync" /\ Launching(h)
  BY <1>1, <1>3 DEF Sound, Launching
<1>5. CASE UNCHANGED win /\ y = Rest
  BY <1>1, <1>2, <1>5, RestClaims
<1>6. ASSUME y.pc = "record", y.who = x.who, y.path = None, y.drv = x.drv, y.mem = None,
             y.peer = x.peer, y.sure = x.sure,
             NEW n \in Windows, Opened(h, n, x.drv), y.opened = n
      PROVE  Claims'
  <2>1. \A w \in Windows, p \in Places : Opens(y, w, p) => Opens(x, w, p) \/ (w = n /\ p = x.drv)
    BY <1>6 DEF Opens
  <2>2. PICK d \in {hand[h].drv, hand[h].mem} : d = x.drv
    OBVIOUS
  <2>. QED
    BY <1>1, <1>2, <1>4, <1>6, <2>1, <2>2, OpenStep
<1>. QED
  BY <1>1, <1>5, <1>6

LEMMA RecordClaims == ASSUME Base, Claims, NEW h \in Hands, Record(h) PROVE Claims'
<1>. DEFINE x == hand[h]
            y == hand'[h]
<1>1. /\ Alone(h) /\ x.pc = "record" /\ x.root \in Roots /\ x.opened \in Windows
      /\ \/ y = Rest
         \/ /\ y.pc = "attach" /\ y.who = "driver" /\ y.path = None
            /\ y.drv = None /\ y.mem = None /\ y.opened = None /\ y.peer = x.peer
            /\ y.sure = x.sure
  BY RecordIs DEF Base
<1>2. Sound(x) /\ x \in Hand
  BY DEF Base, HandIsSound, TypeOK
<1>3. x.who \in {"driver", "member"} /\ Launching(h) /\ x.drv \in Places
  BY <1>1, <1>2 DEF Sound, Hand, Launching, Places
<1>4. /\ thread' = [thread EXCEPT ![x.root] = [window |-> x.opened, tree |-> x.drv,
                                               members |-> {}, known |-> TRUE]]
      /\ UNCHANGED win
  BY DEF Record
<1>5. \A w \in Windows, p \in Places :
         Recorded(thread', w, p) => Recorded(thread, w, p) \/ (w = x.opened /\ p = x.drv)
  <2>. SUFFICES ASSUME NEW w \in Windows, NEW p \in Places, Recorded(thread', w, p)
                PROVE  Recorded(thread, w, p) \/ (w = x.opened /\ p = x.drv)
    OBVIOUS
  <2>1. PICK r \in Roots : \/ thread'[r].window = w /\ thread'[r].tree = p
                           \/ \E m \in thread'[r].members : m.window = w /\ m.tree = p
    BY DEF Recorded
  <2>2. CASE r = x.root
    <3>1. thread'[r].window = x.opened /\ thread'[r].tree = x.drv /\ thread'[r].members = {}
      BY <1>1, <1>4, <2>2 DEF Base, TypeOK
    <3>. QED
      BY <2>1, <3>1
  <2>3. CASE r # x.root
    <3>1. thread'[r] = thread[r]
      BY <1>4, <2>3 DEF Base, TypeOK
    <3>. QED
      BY <2>1, <3>1 DEF Recorded
  <2>. QED
    BY <2>2, <2>3
<1>6. Opens(x, x.opened, x.drv)
  BY DEF Opens
<1>7. y.who = "driver" /\ y.path = None /\ y.drv = None /\ y.mem = None /\ y.pc # "choose"
      /\ (y.sure => x.sure)
  BY <1>1 DEF Rest
<1>8. \A w \in Windows, p \in Places : Opens(y, w, p) => Opens(x, w, p) /\ (p = x.drv => x.drv \in {Fallback, None})
  <2>. SUFFICES ASSUME NEW w \in Windows, NEW p \in Places, Opens(y, w, p)
                PROVE  Opens(x, w, p) /\ (p = x.drv => x.drv \in {Fallback, None})
    OBVIOUS
  <2>1. y # Rest
    BY OpensRest
  <2>2. x.peer # None /\ x.peer.window = w /\ x.peer.tree = p
    BY <1>1, <2>1, Kinds DEF Opens
  <2>3. x.who = "member"
    BY <1>1, <1>2, <1>3, <2>2 DEF Sound
  <2>4. x.drv # Fallback => x.peer.tree # x.drv
    BY <1>2, <2>2, <2>3 DEF Sound
  <2>. QED
    BY <2>2, <2>4 DEF Opens
<1>9. PICK n \in Windows, d \in Places : n = x.opened /\ d = x.drv
  BY <1>1, <1>3
<1>. QED
  BY <1>1, <1>3, <1>4, <1>5, <1>6, <1>7, <1>8, <1>9, RecordStep

LEMMA AttachClaims == ASSUME Base, Claims, NEW h \in Hands, Attach(h) PROVE Claims'
<1>. DEFINE x == hand[h]
<1>1. /\ Alone(h) /\ hand'[h] = Rest /\ x.pc = "attach" /\ x.root \in Roots
      /\ x.peer \in [window : Windows, tree : Paths]
  BY AttachIs DEF Base
<1>2. Sound(x)
  BY DEF Base, HandIsSound
<1>3. x.peer # None /\ Launching(h)
  BY <1>1, <1>2 DEF Sound, Launching
<1>4. PICK n \in Windows, d \in Places : n = x.peer.window /\ d = x.peer.tree
  BY <1>1 DEF Places
<1>5. Opens(x, n, d)
  BY <1>3, <1>4 DEF Opens
<1>6. /\ UNCHANGED thread \/ thread' = [thread EXCEPT ![x.root].members = {x.peer}]
      /\ UNCHANGED win
  BY DEF Attach
<1>7. \A w \in Windows, p \in Places :
         Recorded(thread', w, p) => Recorded(thread, w, p) \/ (w = n /\ p = d)
  <2>. SUFFICES ASSUME NEW w \in Windows, NEW p \in Places, Recorded(thread', w, p)
                PROVE  Recorded(thread, w, p) \/ (w = n /\ p = d)
    OBVIOUS
  <2>1. PICK r \in Roots : \/ thread'[r].window = w /\ thread'[r].tree = p
                           \/ \E m \in thread'[r].members : m.window = w /\ m.tree = p
    BY DEF Recorded
  <2>2. /\ thread'[r].window = thread[r].window /\ thread'[r].tree = thread[r].tree
        /\ thread'[r].members = thread[r].members \/ thread'[r].members = {x.peer}
    <3>1. CASE UNCHANGED thread
      BY <3>1
    <3>2. CASE thread' = [thread EXCEPT ![x.root].members = {x.peer}]
      <4>1. thread[r] \in [window : Windows \cup {None}, tree : Places,
                           members : SUBSET [window : Windows, tree : Paths], known : BOOLEAN]
        BY DEF Base, TypeOK, Places
      <4>2. thread'[r] = thread[r] \/ thread'[r] = [thread[r] EXCEPT !.members = {x.peer}]
        BY <3>2 DEF Base, TypeOK
      <4>. QED
        BY <4>1, <4>2
    <3>. QED
      BY <1>6, <3>1, <3>2
  <2>3. CASE thread'[r].members = thread[r].members
    BY <2>1, <2>2, <2>3 DEF Recorded
  <2>4. CASE thread'[r].members = {x.peer}
    BY <1>4, <2>1, <2>2, <2>4 DEF Recorded
  <2>. QED
    BY <2>2, <2>3, <2>4
<1>8. \A w \in Windows, p \in Places : ~Opens(Rest, w, p)
  BY OpensRest
<1>9. Rest.who = "driver" /\ Rest.path = None /\ Rest.drv = None /\ Rest.mem = None
      /\ Rest.pc # "choose" /\ ~Rest.sure
  BY DEF Rest
<1>. QED
  BY <1>1, <1>3, <1>5, <1>6, <1>7, <1>8, <1>9, RecordStep

LEMMA HandleClaims == ASSUME Base, Claims, NEW h \in Hands, Handle(h) PROVE Claims'
  BY StartClaims, SyncClaims, ListClaims, ChooseClaims, LookClaims, ChangeClaims,
     OpenMemberClaims, OpenClaims, RecordClaims, AttachClaims DEF Handle

LEMMA ClaimsStep == ASSUME Base, Claims, [Next]_vars PROVE Claims'
<1>1. ASSUME UNCHANGED hand, RecKept, WinKept,
             \A w \in Windows : win'[w].state = "working" => win[w].state = "working"
      PROVE  Claims'
  <2>1. \A k \in Hands : Like(hand[k], hand'[k])
    BY <1>1 DEF Like
  <2>. QED
    BY <1>1, <2>1, WorldStep
<1>2. ASSUME UNCHANGED win PROVE WinKept
  BY <1>2 DEF WinKept, Live
<1>3. CASE UNCHANGED vars
  BY <1>1, <1>2, <1>3, SameRecords DEF vars
<1>4. CASE SweepAndScan
  <2>1. PICK dropped : thread' = Swept(dropped)
    BY <1>4 DEF SweepAndScan
  <2>2. \A r \in Roots : thread'[r] = thread[r] \/ thread'[r] = NoThread
    BY <2>1 DEF Swept
  <2>3. RecKept
    BY <2>2, Kinds DEF RecKept, Recorded, NoThread
  <2>4. UNCHANGED hand /\ UNCHANGED win
    BY <1>4 DEF SweepAndScan
  <2>. QED
    BY <1>1, <1>2, <2>3, <2>4
<1>5. CASE LookStale
  BY <1>1, <1>2, <1>5, SameRecords DEF LookStale
<1>6. CASE Remove
  <2>1. UNCHANGED win /\ UNCHANGED thread
    BY <1>6 DEF Remove
  <2>2. \A k \in Hands : /\ Like(hand[k], hand'[k])
                         /\ hand'[k].sure = hand[k].sure /\ hand'[k].fresh = hand[k].fresh
    BY <1>6, RemoveIs DEF Base, Like
  <2>. QED
    BY <1>2, <2>1, <2>2, SameRecords, WorldStep
<1>7. ASSUME NEW w \in Windows, Works(w) PROVE Claims'
  <2>1. /\ win[w].state = "idle" /\ win' = [win EXCEPT ![w].state = "working"]
        /\ \A k \in Hands :
              /\ Like(hand[k], hand'[k]) /\ hand'[k].sure = hand[k].sure
              /\ hand[k].fresh \subseteq hand'[k].fresh
              /\ hand[k].who = "sync" /\ hand[k].pc # "rest" => w \in hand'[k].fresh
    BY <1>7, WorksIs DEF Base
  <2>2. UNCHANGED thread
    BY <1>7 DEF Works
  <2>3. /\ win'[w].state = "working" /\ win'[w].tree = win[w].tree /\ win'[w].sure = win[w].sure
        /\ \A v \in Windows : v # w => win'[v] = win[v]
    BY <2>1 DEF Base, TypeOK
  <2>4. WinKept
    BY <2>1, <2>3 DEF WinKept, Live
  <2>5. RecKept
    BY <2>2, SameRecords
  <2>. QED
    BY <2>1, <2>3, <2>4, <2>5, WorldStep
<1>8. ASSUME NEW w \in Windows, Rests(w) PROVE Claims'
  <2>1. win[w].state = "working" /\ win' = [win EXCEPT ![w].state = "idle"] /\ UNCHANGED <<thread, hand>>
    BY <1>8 DEF Rests
  <2>2. /\ win'[w].state = "idle" /\ win'[w].tree = win[w].tree /\ win'[w].sure = win[w].sure
        /\ \A v \in Windows : v # w => win'[v] = win[v]
    BY <2>1 DEF Base, TypeOK
  <2>3. WinKept
    BY <2>1, <2>2 DEF WinKept, Live
  <2>. QED
    BY <1>1, <2>1, <2>2, <2>3, SameRecords
<1>9. ASSUME NEW w \in Windows, Close(w) PROVE Claims'
  <2>1. /\ win' = [win EXCEPT ![w] = [state |-> "closed", tree |-> None, sure |-> FALSE]]
        /\ UNCHANGED <<thread, hand>>
    BY <1>9 DEF Close
  <2>2. win'[w].state = "closed" /\ \A v \in Windows : v # w => win'[v] = win[v]
    BY <2>1 DEF Base, TypeOK
  <2>3. WinKept
    BY <2>2 DEF WinKept, Live
  <2>. QED
    BY <1>1, <2>1, <2>2, <2>3, SameRecords
<1>10. ASSUME NEW w \in Windows, NEW p \in Paths, Edit(w, p) PROVE Claims'
  BY <1>1, <1>2, <1>10, SameRecords DEF Edit
<1>11. CASE Push \/ Age
  BY <1>1, <1>2, <1>11, SameRecords DEF Push, Age
<1>. QED
  BY <1>3, <1>4, <1>5, <1>6, <1>7, <1>8, <1>9, <1>10, <1>11, HandleClaims
     DEF Next, Housekeeping, Agents

LEMMA InitClaims == ASSUME Init PROVE Claims
<1>1. \A h \in Hands : hand[h] = Rest
  BY DEF Init
<1>2. \A w \in Windows : \A p : ~Recorded(thread, w, p)
  BY Kinds DEF Init, Recorded, NoThread
<1>3. \A h \in Hands : \A w \in Windows : \A p : ~Opens(hand[h], w, p)
  BY <1>1, OpensRest
<1>4. RecordsAreTrue /\ WindowsAreApart
  BY <1>2, <1>3 DEF RecordsAreTrue, WindowsAreApart
<1>5. \A h \in Hands : ~Launching(h) /\ hand[h].who # "sync"
  BY <1>1 DEF Launching, Rest
<1>6. \A h \in Hands : SureIsAlone(h) /\ SyncKnows(h)
  BY <1>5 DEF SureIsAlone, SyncKnows
<1>. QED
  BY <1>4, <1>6 DEF Claims

LEMMA Claimed == Spec => [](Base /\ Claims)
<1>1. Init => Base /\ Claims
  BY InitBase, InitClaims
<1>2. Base /\ Claims /\ [Next]_vars => (Base /\ Claims)'
  BY BaseStep, ClaimsStep
<1>. QED
  BY <1>1, <1>2, PTL DEF Spec

\* A window that a record names is recorded with its tree.
LEMMA NamedTree ==
  ASSUME Base, Claims, NEW w \in Live \cap Named
  PROVE  w \in Windows /\ win[w].tree \in Places /\ Recorded(thread, w, win[w].tree)
<1>1. w \in Windows
  BY DEF Live
<1>2. PICK r \in Roots : w \in {thread[r].window} \cup {m.window : m \in thread[r].members}
  BY DEF Named
<1>3. thread[r].tree \in Places /\ \A m \in thread[r].members : m.tree \in Places
  BY DEF Base, TypeOK, Places
<1>4. PICK p \in Places : Recorded(thread, w, p)
  <2>1. CASE w = thread[r].window
    BY <1>2, <1>3, <2>1 DEF Recorded
  <2>2. CASE \E m \in thread[r].members : w = m.window
    BY <1>2, <1>3, <2>2 DEF Recorded
  <2>. QED
    BY <1>2, <2>1, <2>2
<1>5. win[w].tree = p
  BY <1>1, <1>4 DEF Claims, RecordsAreTrue, Places
<1>. QED
  BY <1>1, <1>4, <1>5

\* Two live windows that records name have a tree each, below the number of paths that are
\* tried: unless one of them was launched beside another launch or without the list of windows.
THEOREM AgentsHaveTheirTrees == Spec => []AgentsApart
<1>1. ASSUME Base, Claims PROVE AgentsApart
  <2>. SUFFICES ASSUME NEW v \in Live \cap Named, NEW w \in Live \cap Named, v # w,
                       win[v].sure, win[w].sure, win[v].tree = win[w].tree,
                       win[v].tree \notin {None, Fallback}
                PROVE  FALSE
    BY DEF AgentsApart
  <2>1. v \in Windows /\ w \in Windows /\ win[v].tree \in Places
        /\ Recorded(thread, v, win[v].tree) /\ Recorded(thread, w, win[v].tree)
    BY <1>1, NamedTree
  <2>2. BothSure(v, w)
    BY DEF BothSure
  <2>. QED
    BY <1>1, <2>1, <2>2 DEF Claims, WindowsAreApart, Places
<1>2. Base /\ Claims => AgentsApart
  BY <1>1
<1>. QED
  BY <1>2, Claimed, PTL

\* A tree in which a window that a record names is at work is moved only when the window was
\* opened, or went to work, after the daemon had looked: unless it shares the tree or the mover
\* launched beside another launch.
THEOREM NobodyIsMovedAtWork == Spec => NotMovedUnderWork
<1>. DEFINE Stays(h) ==
       LET p == hand[h].path IN
          hand[h].pc = "move" /\ hand'[h].pc # "move" /\ hand[h].exists
             /\ tree'[p].sha # tree[p].sha
             /\ hand[h].sure /\ p # Fallback
          => \A w \in Live \cap Named :
                win[w].state = "working" /\ win[w].tree = p /\ win[w].sure
                    => w \in hand[h].fresh
<1>1. ASSUME Base, Claims, NEW h \in Hands PROVE Stays(h)
  <2>. SUFFICES ASSUME hand[h].pc = "move", hand[h].sure, hand[h].path # Fallback,
                       NEW w \in Live \cap Named,
                       win[w].state = "working", win[w].tree = hand[h].path, win[w].sure
                PROVE  w \in hand[h].fresh
    OBVIOUS
  <2>1. w \in Windows /\ Recorded(thread, w, hand[h].path) /\ hand[h].path \in Paths
    BY <1>1, NamedTree, PathOfMove
  <2>2. CASE hand[h].who = "sync"
    BY <1>1, <2>1, <2>2 DEF Claims, SyncKnows
  <2>3. CASE hand[h].who # "sync"
    BY <1>1, <2>1, <2>3, Kinds DEF Claims, SureIsAlone, Launching
  <2>. QED
    BY <2>2, <2>3
<1>2. Base /\ Claims /\ [Next]_vars => [\A h \in Hands : Stays(h)]_vars
  BY <1>1
<1>. QED
  BY <1>2, Claimed, PTL DEF Spec, NotMovedUnderWork
=============================================================================
