------------------------------ MODULE Worktrees ------------------------------
(***************************************************************************)
(* The worktrees of one merge request. A launch takes the first path whose *)
(* tree no live window has, brings the tree there to the head of the merge *)
(* request and opens windows in it; a continuation moves the tree of a     *)
(* session at rest; housekeeping forgets old threads and removes old trees *)
(* (internal/worktree, internal/pipeline/workspace.go, launch.go,          *)
(* committee.go, cmd/handoffd/maintenance.go).                             *)
(*                                                                         *)
(* A hand is a goroutine that handles a message: the worker, or one that   *)
(* waited for a triage. Nothing keeps two hands from working at once, nor  *)
(* housekeeping from working beside them. The windows belong to agents and *)
(* people, who edit and close at any time. git refuses to remove a tree    *)
(* with local changes, and to add one where there is one.                  *)
(***************************************************************************)
EXTENDS Naturals, FiniteSets, FiniteSetsExt

CONSTANTS
    Roots,         \* threads about the merge request
    Committees,    \* those whose review asks for a committee of two
    Hands,
    MaxSuffix,     \* the paths that are tried; one more is taken unseen
    None,
    MaxMessages,   \* bound: messages that are handled
    MaxWindows,    \* bound: windows that are opened
    MaxHead,       \* bound: moves of the head
    MaxTrouble     \* bound: commands and saves that fail, and rounds of
                   \* housekeeping that find something to do

ASSUME WorktreesAssumption ==
    /\ IsFiniteSet(Roots) /\ IsFiniteSet(Hands) /\ Committees \subseteq Roots
    /\ MaxSuffix \in Nat \ {0}
    /\ {MaxMessages, MaxWindows, MaxHead, MaxTrouble} \subseteq Nat
    /\ None \notin Nat \cup Hands \cup Roots

VARIABLES
    head,    \* the head of the merge request
    tree,    \* the worktree at each path
    win,     \* the windows: state and tree; history: sure
    thread,  \* the records: window, Worktree, the windows of the Members
    hand,    \* the handling of a message
    prune,   \* housekeeping; history: late
    messages, trouble

vars == <<head, tree, win, thread, hand, prune, messages, trouble>>

Paths == 1..(MaxSuffix + 1)
Fallback == MaxSuffix + 1
Windows == 1..MaxWindows
Heads == 0..MaxHead

NoTree == [there |-> FALSE, sha |-> 0, dirty |-> FALSE, old |-> FALSE]
NoThread == [window |-> None, tree |-> None, members |-> {}, known |-> FALSE]

\* list: the window list it read. path, exists, rev, dirty: of the worktree
\* it prepares. drv, base: the driver's worktree and head. mem, peer: the
\* member's worktree and window. sure, touched, fresh: history.
Rest == [pc |-> "rest", root |-> None, exact |-> FALSE, who |-> "driver",
         list |-> {}, path |-> None, exists |-> FALSE, rev |-> None,
         dirty |-> FALSE, drv |-> None, base |-> None, mem |-> None,
         peer |-> None, opened |-> None, sure |-> FALSE, touched |-> {}, fresh |-> {}]

Hand ==
    [pc : {"rest", "list", "choose", "look", "move", "member", "open", "record", "attach"},
     root : Roots \cup {None}, exact : BOOLEAN, who : {"driver", "member", "sync"},
     list : SUBSET Windows, path : Paths \cup {None}, exists : BOOLEAN,
     rev : Heads \cup {None}, dirty : BOOLEAN, drv : Paths \cup {None},
     base : Heads \cup {None}, mem : Paths \cup {None},
     peer : {None} \cup [window : Windows, tree : Paths], opened : Windows \cup {None},
     sure : BOOLEAN, touched : SUBSET Paths, fresh : SUBSET Windows]

Live == {w \in Windows : win[w].state \in {"idle", "working"}}

\* The windows that a record names, and None.
Named == UNION {{thread[r].window} \cup {m.window : m \in thread[r].members} : r \in Roots}

Launching(h) == hand[h].pc # "rest" /\ hand[h].who # "sync"

\* Every variable keeps its type. (Not among the properties of the run.)
TypeOK ==
    /\ head \in Heads /\ messages \in 0..MaxMessages /\ trouble \in 0..MaxTrouble
    /\ tree \in [Paths -> [there : BOOLEAN, sha : Heads,
                           dirty : BOOLEAN, old : BOOLEAN]]
    /\ win \in [Windows -> [state : {"unopened", "idle", "working", "closed"},
                            tree : Paths \cup {None}, sure : BOOLEAN]]
    /\ thread \in [Roots -> [window : Windows \cup {None}, tree : Paths \cup {None},
                             members : SUBSET [window : Windows, tree : Paths], known : BOOLEAN]]
    /\ prune \in [pc : {"rest", "look", "remove"}, todo : SUBSET Paths,
                  late : SUBSET Paths]
    /\ hand \in [Hands -> Hand]

Init ==
    /\ head = 0 /\ messages = 0 /\ trouble = 0
    /\ tree = [p \in Paths |-> NoTree]
    /\ win = [w \in Windows |-> [state |-> "unopened", tree |-> None, sure |-> FALSE]]
    /\ thread = [r \in Roots |-> NoThread]
    /\ hand = [h \in Hands |-> Rest]
    /\ prune = [pc |-> "rest", todo |-> {}, late |-> {}]

Fault == trouble < MaxTrouble /\ trouble' = trouble + 1

-----------------------------------------------------------------------------
(* How a worktree changes, and who is told of it in the history. *)

\* The hands but h that are counting on the tree at p.
Touched(h, p) ==
    [k \in Hands |-> IF k # h /\ p \in {hand[k].drv, hand[k].mem}
                     THEN [hand[k] EXCEPT !.touched = @ \cup {p}] ELSE hand[k]]

\* h goes on as now; the others see that p is not as they left it.
Changes(h, p, t, now) ==
    /\ tree' = [tree EXCEPT ![p] = t]
    /\ hand' = [Touched(h, p) EXCEPT ![h] = now]

Goes(h, now) == hand' = [hand EXCEPT ![h] = now]

-----------------------------------------------------------------------------
(* A launch: the worktrees *)

\* The windows that busyWorktrees finds. A list that cannot be read leaves
\* every tree free.
Lists(list, read) ==
    IF read THEN list = Live /\ UNCHANGED trouble ELSE list = {} /\ Fault

\* route finds no live window and forgets a closed one; or a triage that began
\* when there was none has ended. exact: openWindow of a review, which refuses
\* a worktree that is not at the head; escalate opens in any case.
Start(h, r, exact) ==
    /\ hand[h].pc = "rest" /\ messages < MaxMessages /\ messages' = messages + 1
    /\ exact => thread[r].window \notin Live
    /\ thread' = IF exact THEN [thread EXCEPT ![r].window = None] ELSE thread
    /\ \E list \in {Live, {}}, read \in BOOLEAN :
          /\ Lists(list, read)
          /\ hand' = [k \in Hands |->
                IF k = h
                THEN [Rest EXCEPT !.pc = "choose", !.root = r, !.exact = exact, !.list = list,
                                  !.sure = read /\ \A other \in Hands : ~Launching(other)]
                ELSE IF Launching(k) THEN [hand[k] EXCEPT !.sure = FALSE]
                ELSE hand[k]]
    /\ UNCHANGED <<head, tree, win, prune>>

ListForMember(h) ==
    /\ hand[h].pc = "list"
    /\ \E list \in {Live, {}}, read \in BOOLEAN :
          /\ Lists(list, read)
          /\ Goes(h, [hand[h] EXCEPT !.pc = "choose", !.list = list, !.sure = @ /\ read])
    /\ UNCHANGED <<head, tree, win, thread, prune, messages>>

\* The trees of the threads, without their members'.
BusyDrivers(list) ==
    {thread[r].tree : r \in {k \in Roots : thread[k].window \in list}} \ {None}

\* Read from the records, after the list.
BusyWorktrees(list) ==
    BusyDrivers(list)
    \cup {m.tree : m \in {k \in UNION {thread[r].members : r \in Roots} : k.window \in list}}

ChoosePath(busy) ==
    IF 1..MaxSuffix \subseteq busy THEN Fallback ELSE Min((1..MaxSuffix) \ busy)

Choose(h) ==
    /\ hand[h].pc = "choose"
    /\ LET path == ChoosePath(BusyWorktrees(hand[h].list)
                              \cup IF hand[h].who = "member" THEN {hand[h].drv} ELSE {})
       IN  Goes(h, [hand[h] EXCEPT !.pc = "look", !.path = path,
                                   !.exists = tree[path].there, !.list = {}])
    /\ UNCHANGED <<head, tree, win, thread, prune, messages, trouble>>

-----------------------------------------------------------------------------
(* Prepare and Refresh: the tree at the path *)

\* What h does with the result: path res, at the head rev when ok. A review is
\* refused without such a tree; a member is left out; others go on.
Ready(h, res, rev, ok) ==
    LET now == [hand[h] EXCEPT !.path = None, !.exists = FALSE, !.rev = None,
                               !.dirty = FALSE, !.fresh = {}]
    IN  CASE now.who = "sync" \/ (now.who = "driver" /\ now.exact /\ ~ok) -> Rest
          [] now.who = "driver" /\ (ok \/ ~now.exact) ->
                IF now.exact /\ now.root \in Committees
                THEN [now EXCEPT !.drv = res, !.base = rev, !.pc = "list", !.who = "member"]
                ELSE [now EXCEPT !.drv = res, !.base = rev, !.pc = "open"]
          [] now.who = "member" /\ ok ->
                [now EXCEPT !.mem = res, !.rev = rev, !.pc = "member"]
          [] now.who = "member" /\ ~ok -> [now EXCEPT !.pc = "open"]

\* The head is not fetched, or is not the one the forge names.
LookFails(h) ==
    /\ hand[h].pc = "look" /\ Fault
    /\ Goes(h, Ready(h, IF hand[h].exists THEN hand[h].path ELSE None, None, FALSE))
    /\ UNCHANGED <<head, tree, win, thread, prune, messages>>

\* Mutant: local changes do not keep a tree from being moved.
MovableDirty(t) == t.there /\ t.sha # head

\* There, stale and clean.
Movable(t) == t.there /\ t.sha # head /\ ~t.dirty

\* Mutant: a dirty tree that cannot be moved is as good.
AtHeadOrDirty(t) == t.there /\ (t.sha = head \/ t.dirty)

AtHead(t) == t.there /\ t.sha = head

\* A tree that was there may be gone by now: it is unreadable.
LookAt(h) ==
    LET t == tree[hand[h].path] IN
    /\ hand[h].pc = "look" /\ hand[h].exists
    /\ Goes(h, IF Movable(t)
               THEN [hand[h] EXCEPT !.pc = "move", !.rev = head, !.dirty = t.dirty]
               ELSE Ready(h, hand[h].path, head, AtHead(t)))
    /\ UNCHANGED <<head, tree, win, thread, prune, messages, trouble>>

LookForRoom(h) ==
    /\ hand[h].pc = "look" /\ ~hand[h].exists
    /\ Goes(h, [hand[h] EXCEPT !.pc = "move", !.rev = head])
    /\ UNCHANGED <<head, tree, win, thread, prune, messages, trouble>>

\* checkout --detach keeps what was changed meanwhile, or refuses to.
Checkout(h) ==
    LET p == hand[h].path IN
    /\ hand[h].pc = "move" /\ hand[h].exists /\ tree[p].there
    /\ Changes(h, p, [tree[p] EXCEPT !.sha = hand[h].rev], Ready(h, p, hand[h].rev, TRUE))
    /\ UNCHANGED <<head, win, thread, prune, messages, trouble>>

CheckoutFails(h) ==
    LET p == hand[h].path IN
    /\ hand[h].pc = "move" /\ hand[h].exists
    /\ \/ (~tree[p].there \/ tree[p].dirty) /\ UNCHANGED trouble
       \/ Fault
    /\ Goes(h, Ready(h, p, hand[h].rev, FALSE))
    /\ UNCHANGED <<head, tree, win, thread, prune, messages>>

\* The new tree may prove unreadable.
AddTree(h) ==
    LET p == hand[h].path IN
    /\ hand[h].pc = "move" /\ ~hand[h].exists /\ ~tree[p].there
    /\ \E ok \in BOOLEAN :
          /\ IF ok THEN UNCHANGED trouble ELSE Fault
          /\ Changes(h, p, [NoTree EXCEPT !.there = TRUE, !.sha = hand[h].rev],
                     Ready(h, p, hand[h].rev, ok))
    /\ UNCHANGED <<head, win, thread, prune, messages>>

\* Another hand has put a tree there: the result has no path.
AddTreeFails(h) ==
    /\ hand[h].pc = "move" /\ ~hand[h].exists
    /\ \/ tree[hand[h].path].there /\ UNCHANGED trouble
       \/ Fault
    /\ Goes(h, Ready(h, None, hand[h].rev, FALSE))
    /\ UNCHANGED <<head, tree, win, thread, prune, messages>>

\* Mutant: whatever the session is doing.
SyncAtOnce(h, r) ==
    /\ hand[h].pc = "rest" /\ messages < MaxMessages /\ messages' = messages + 1
    /\ thread[r].window \in Live /\ thread[r].tree # None
    /\ Goes(h, [Rest EXCEPT !.pc = "look", !.who = "sync",
                            !.path = thread[r].tree, !.exists = TRUE,
                            !.sure = win[thread[r].window].sure])
    /\ UNCHANGED <<head, tree, win, thread, prune, trouble>>

\* syncWorktree of a continuation. Of a session that is not idle the tree is
\* only looked at.
Sync(h, r) ==
    /\ hand[h].pc = "rest" /\ messages < MaxMessages /\ messages' = messages + 1
    /\ thread[r].window \in Live /\ thread[r].tree # None
    /\ win[thread[r].window].state = "idle"
    /\ Goes(h, [Rest EXCEPT !.pc = "look", !.who = "sync",
                            !.path = thread[r].tree, !.exists = TRUE,
                            !.sure = win[thread[r].window].sure])
    /\ UNCHANGED <<head, tree, win, thread, prune, trouble>>

-----------------------------------------------------------------------------
(* A launch: the windows and the record *)

Unopened == {w \in Windows : win[w].state = "unopened"}

\* The hand h goes on as now with the new window w in the tree at p.
NewWindow(h, w, p, now) ==
    /\ w = Min(Unopened)
    /\ win' = [win EXCEPT ![w] = [state |-> "working", tree |-> p, sure |-> hand[h].sure]]
    /\ hand' = [k \in Hands |->
                   IF k = h THEN now
                   ELSE IF hand[k].pc \in {"choose", "look", "move"}
                   THEN [hand[k] EXCEPT !.fresh = @ \cup {w}] ELSE hand[k]]

\* A member whose window is not opened is left out.
OpenMember(h) ==
    /\ hand[h].pc = "member" /\ Unopened # {}
    /\ LET next == [hand[h] EXCEPT !.pc = "open", !.mem = None, !.rev = None] IN
       \/ /\ \E w \in Unopened : NewWindow(h, w, hand[h].mem,
                                             [next EXCEPT !.peer = [window |-> w, tree |-> hand[h].mem]])
          /\ UNCHANGED trouble
       \/ Goes(h, next) /\ Fault /\ UNCHANGED win
    /\ UNCHANGED <<head, tree, thread, prune, messages>>

\* With no worktree the window opens in the directory of the projects.
Open(h) ==
    /\ hand[h].pc = "open" /\ Unopened # {}
    /\ \/ /\ \E w \in Unopened :
                NewWindow(h, w, hand[h].drv,
                          [hand[h] EXCEPT !.pc = "record", !.opened = w, !.exact = FALSE,
                                          !.base = None, !.touched = {}])
          /\ UNCHANGED trouble
       \/ Goes(h, Rest) /\ Fault /\ UNCHANGED win
    /\ UNCHANGED <<head, tree, thread, prune, messages>>

\* SetThread replaces the record, and Save may fail.
Record(h) ==
    LET r == hand[h].root IN
    /\ hand[h].pc = "record"
    /\ thread' = [thread EXCEPT ![r] =
                     [window |-> hand[h].opened, tree |-> hand[h].drv,
                      members |-> {}, known |-> TRUE]]
    /\ prune' = [prune EXCEPT !.late = @ \cup ({hand[h].drv} \cap prune.todo)]
    /\ \/ /\ Goes(h, IF hand[h].peer = None THEN Rest
                      ELSE [Rest EXCEPT !.pc = "attach", !.root = r, !.sure = hand[h].sure,
                                        !.peer = hand[h].peer])
          /\ UNCHANGED trouble
       \/ Goes(h, Rest) /\ Fault
    /\ UNCHANGED <<head, tree, win, messages>>

\* attachMembers. A record that was swept takes no members, and one that cannot be
\* saved is put back as it was: the member's window is then in no record.
Attach(h) ==
    LET r == hand[h].root IN
    /\ hand[h].pc = "attach"
    /\ \/ /\ thread[r].known
          /\ thread' = [thread EXCEPT ![r].members = {hand[h].peer}]
          /\ UNCHANGED trouble
       \/ thread[r].known /\ UNCHANGED thread /\ Fault
       \/ ~thread[r].known /\ UNCHANGED <<thread, trouble>>
    /\ Goes(h, Rest)
    /\ UNCHANGED <<head, tree, win, prune, messages>>

-----------------------------------------------------------------------------
(* Housekeeping *)

\* Mutant: the trees of closed windows are not kept.
KeepLive(records) ==
    {records[r].tree : r \in {k \in Roots : records[k].window \in Live}} \ {None}

\* pruneStale keeps the trees of the threads, not their members'.
Keep(records) == {records[r].tree : r \in Roots} \ {None}

Stale(records) == {p \in Paths : tree[p].there /\ tree[p].old} \ Keep(records)

\* Store.Sweep drops any record that has not been touched for long enough,
\* though its window may live.
Swept(dropped) == [r \in Roots |-> IF r \in dropped THEN NoThread ELSE thread[r]]

\* After the sweep the trees to keep and the old ones are read.
SweepAndScan ==
    /\ prune.pc = "rest" /\ trouble < MaxTrouble
    /\ \E dropped \in SUBSET {r \in Roots : thread[r].known} : thread' = Swept(dropped)
    /\ LET stale == Stale(thread')
       IN  prune' = [pc |-> IF stale = {} THEN "rest" ELSE "look", todo |-> stale, late |-> {}]
    /\ trouble' = IF <<thread, prune>>' = <<thread, prune>> THEN trouble ELSE trouble + 1
    /\ UNCHANGED <<head, tree, win, hand, messages>>

\* The first of todo is done with.
Dropped == LET rest == prune.todo \ {Min(prune.todo)}
           IN  [pc |-> IF rest = {} THEN "rest" ELSE "look", todo |-> rest,
                late |-> prune.late \cap rest]

LookStale ==
    /\ prune.pc = "look"
    /\ prune' = IF tree[Min(prune.todo)].dirty THEN Dropped
                ELSE [prune EXCEPT !.pc = "remove"]
    /\ UNCHANGED <<head, tree, win, thread, hand, messages, trouble>>

\* Mutant: worktree remove --force.
RemoveByForce ==
    LET p == Min(prune.todo) IN
    /\ prune.pc = "remove"
    /\ tree' = [tree EXCEPT ![p] = NoTree] /\ hand' = Touched(None, p)
    /\ prune' = Dropped
    /\ UNCHANGED <<head, win, thread, messages, trouble>>

\* git refuses when there are local changes by now.
Remove ==
    LET p == Min(prune.todo) IN
    /\ prune.pc = "remove"
    /\ IF tree[p].dirty THEN UNCHANGED <<tree, hand>>
       ELSE tree' = [tree EXCEPT ![p] = NoTree] /\ hand' = Touched(None, p)
    /\ prune' = Dropped
    /\ UNCHANGED <<head, win, thread, messages, trouble>>

-----------------------------------------------------------------------------
(* The agents, the authors of the merge request, time *)

\* An agent begins to work, or comes to rest. What a continuation read of its
\* session is then old.
Works(w) ==
    /\ win[w].state = "idle"
    /\ win' = [win EXCEPT ![w].state = "working"]
    /\ hand' = [k \in Hands |-> IF hand[k].who = "sync" /\ hand[k].pc # "rest"
                               THEN [hand[k] EXCEPT !.fresh = @ \cup {w}] ELSE hand[k]]
    /\ UNCHANGED <<head, tree, thread, prune, messages, trouble>>

Rests(w) ==
    /\ win[w].state = "working"
    /\ win' = [win EXCEPT ![w].state = "idle"]
    /\ UNCHANGED <<head, tree, thread, hand, prune, messages, trouble>>

Close(w) ==
    /\ w \in Live
    /\ win' = [win EXCEPT ![w] = [state |-> "closed", tree |-> None, sure |-> FALSE]]
    /\ UNCHANGED <<head, tree, thread, hand, prune, messages, trouble>>

At(w, p) == win[w].state = "working" /\ win[w].tree = p /\ p # None /\ tree[p].there

Edit(w, p) ==
    /\ At(w, p)
    /\ \E d \in BOOLEAN : tree' = [tree EXCEPT ![p].dirty = d]
    /\ UNCHANGED <<head, win, thread, hand, prune, messages, trouble>>

Push ==
    /\ head < MaxHead /\ head' = head + 1
    /\ UNCHANGED <<tree, win, thread, hand, prune, messages, trouble>>

\* Nothing is added to the trees' directories for the TTL, a span of days: no
\* handling lasts that long.
Age ==
    /\ prune.pc = "rest" /\ \A h \in Hands : hand[h].pc = "rest"
    /\ tree' = [p \in Paths |-> [tree[p] EXCEPT !.old = tree[p].there]]
    /\ UNCHANGED <<head, win, thread, hand, prune, messages, trouble>>

-----------------------------------------------------------------------------

Handle(h) ==
    \/ \E r \in Roots : (\E exact \in BOOLEAN : Start(h, r, exact)) \/ Sync(h, r)
    \/ ListForMember(h) \/ Choose(h) \/ LookFails(h) \/ LookAt(h) \/ LookForRoom(h)
    \/ Checkout(h) \/ CheckoutFails(h) \/ AddTree(h) \/ AddTreeFails(h)
    \/ OpenMember(h) \/ Open(h) \/ Record(h) \/ Attach(h)

Housekeeping == SweepAndScan \/ LookStale \/ Remove

Agents ==
    \/ \E w \in Windows : Works(w) \/ Rests(w) \/ Close(w)
                         \/ \E p \in Paths : Edit(w, p)
    \/ Push \/ Age

Next == (\E h \in Hands : Handle(h)) \/ Housekeeping \/ Agents

Spec == Init /\ [][Next]_vars

-----------------------------------------------------------------------------
(* Properties *)

\* Two live windows that records name have a tree each, below the number of
\* paths that are tried: unless one of them was launched beside another launch
\* or without the list of windows.
AgentsApart ==
    \A v, w \in Live \cap Named :
        v # w /\ win[v].sure /\ win[w].sure /\ win[v].tree = win[w].tree
            => win[v].tree \in {None, Fallback}

\* A review opens its windows in trees that are at the head they are told to
\* review, though trees age, move and disappear while it is prepared: unless
\* somebody has changed the tree since the review prepared it.
ReviewIsExact ==
    \A h \in Hands : hand[h].exact =>
        /\ hand[h].pc \in {"list", "choose", "look", "move", "member", "open"}
              /\ hand[h].drv \in Paths \ (hand[h].touched \cup {Fallback})
            => tree[hand[h].drv].there /\ tree[hand[h].drv].sha = hand[h].base
        /\ hand[h].pc = "member" /\ hand[h].mem \notin hand[h].touched
            => tree[hand[h].mem].there /\ tree[hand[h].mem].sha = hand[h].rev
        /\ hand[h].pc \in {"member", "open"} => hand[h].drv # None

\* Only agents part with local changes: no step of the daemon cleans or removes
\* a tree that has some, nor moves one that had some when it looked.
LocalChangesStay ==
    [][\A p \in Paths : tree[p].dirty =>
          /\ tree'[p].there
          /\ tree'[p].dirty \/ \E w \in Windows : At(w, p)
          /\ \A h \in Hands :
                hand[h].pc = "move" /\ hand[h].path = p /\ hand'[h].pc # "move"
                    /\ tree'[p].sha # tree[p].sha => ~hand[h].dirty]_vars

\* The tree of a thread is not removed, if the thread was recorded when the
\* trees to keep were read; whether its window lives or not.
RecordedTreeStays ==
    [][\A p \in Paths : tree[p].there /\ ~tree'[p].there =>
          p \in prune.late \/ \A r \in Roots : thread[r].tree # p]_vars

\* A tree in which a window that a record names is at work is moved only when
\* the window was opened, or went to work, after the daemon had looked: unless
\* it shares the tree (AgentsApart) or the mover launched beside another launch.
NotMovedUnderWork ==
    [][\A h \in Hands :
          LET p == hand[h].path IN
          hand[h].pc = "move" /\ hand'[h].pc # "move" /\ hand[h].exists
             /\ tree'[p].sha # tree[p].sha
             /\ hand[h].sure /\ p # Fallback
          => \A w \in Live \cap Named :
                win[w].state = "working" /\ win[w].tree = p /\ win[w].sure
                    => w \in hand[h].fresh]_vars

(***************************************************************************)
(* The inductive invariants behind them                                    *)
(***************************************************************************)

\* What a hand has at each of its steps; the second tree of a committee is not
\* the first, but where the paths run out.
Sound(x) ==
    /\ x.pc # "rest" /\ x.who # "sync" => x.root \in Roots
    /\ x.who = "sync" => ~x.exact /\ x.pc \in {"look", "move"} /\ x.peer = None /\ x.opened = None
    /\ x.pc \in {"look", "move"} <=> x.path # None
    /\ x.pc = "move" => x.rev \in Heads
    /\ x.dirty = FALSE
    /\ x.pc = "member" <=> x.mem # None
    /\ x.pc = "member" => x.rev \in Heads
    /\ x.pc = "record" <=> x.opened # None
    /\ x.pc \in {"rest", "record", "attach"} => ~x.exact
    /\ x.pc \in {"rest", "attach"} => x.drv = None /\ x.who = "driver"
    /\ x.pc = "attach" => x.peer # None
    /\ x.peer # None => x.pc \in {"open", "record", "attach"}
    /\ x.exact /\ x.pc = "open" => x.drv # None /\ x.base \in Heads
    /\ x.who = "driver" =>
          /\ x.pc \notin {"list", "member"}
          /\ x.pc \in {"choose", "look", "move"} => x.drv = None
          /\ x.pc \in {"open", "record"} => x.peer = None
    /\ x.who = "member" =>
          /\ x.drv # None /\ (x.pc # "record" => x.exact /\ x.base \in Heads)
          /\ x.drv # Fallback =>
                /\ x.path # x.drv /\ x.mem # x.drv
                /\ x.peer # None => x.peer.tree # x.drv

HandIsSound == \A h \in Hands : Sound(hand[h])

TreesAreSound == \A p \in Paths : tree[p].dirty => tree[p].there

\* What is left to remove is in no record but those set since.
PruneIsSound ==
    /\ prune.pc = "rest" <=> prune.todo = {}
    /\ \A p \in prune.todo \ prune.late, r \in Roots : thread[r].tree # p

\* One of the records names the window w, with the tree at p.
Recorded(records, w, p) ==
    \E r \in Roots : \/ records[r].window = w /\ records[r].tree = p
                     \/ \E m \in records[r].members : m.window = w /\ m.tree = p

\* A hand x has opened w in the tree at p, and has not recorded it yet.
Opens(x, w, p) ==
    \/ x.opened = w /\ x.drv = p
    \/ x.peer # None /\ x.peer.window = w /\ x.peer.tree = p

\* A window is recorded with the tree it was opened in.
RecordsAreTrue ==
    \A w \in Windows, p \in Paths \cup {None} :
        Recorded(thread, w, p) \/ (\E h \in Hands : Opens(hand[h], w, p)) =>
            win[w].state # "unopened" /\ (w \in Live => win[w].tree = p)

BothSure(v, w) == v \in Live /\ w \in Live /\ win[v].sure /\ win[w].sure

\* Of two live windows at one path, recorded or not yet, at most one is sure; nor are two that
\* different hands have opened.
WindowsAreApart ==
    /\ \A v, w \in Windows, p \in Paths \ {Fallback} :
          v # w /\ Recorded(thread, v, p) /\ Recorded(thread, w, p) => ~BothSure(v, w)
    /\ \A h \in Hands, v, w \in Windows, p \in Paths \ {Fallback} :
          Opens(hand[h], v, p) /\ Recorded(thread, w, p) => ~BothSure(v, w)
    /\ \A h, k \in Hands, v, w \in Windows, p, q \in Paths \cup {None} :
          h # k /\ Opens(hand[h], v, p) /\ Opens(hand[k], w, q) => ~BothSure(v, w)

\* A launch that is sure is the only one, has seen every window, and has chosen paths that no
\* sure window has.
SureIsAlone(h) ==
    Launching(h) /\ hand[h].sure =>
        /\ \A k \in Hands \ {h} : ~Launching(k)
        /\ hand[h].pc = "choose" => Live \subseteq hand[h].list
        /\ \A w \in Live, p \in {hand[h].path, hand[h].drv, hand[h].mem} \ {None, Fallback} :
              Recorded(thread, w, p) => ~win[w].sure

\* A continuation that is sure knows who has gone to work in the tree it moves.
SyncKnows(h) ==
    hand[h].who = "sync" /\ hand[h].sure /\ hand[h].path # Fallback =>
        \A w \in Windows :
            /\ \/ Recorded(thread, w, hand[h].path)
               \/ \E k \in Hands : Opens(hand[k], w, hand[h].path)
            /\ win[w].state = "working" /\ win[w].sure
            => w \in hand[h].fresh

IInv ==
    /\ TypeOK /\ HandIsSound /\ TreesAreSound /\ PruneIsSound /\ ReviewIsExact
    /\ RecordsAreTrue /\ WindowsAreApart
    /\ \A h \in Hands : SureIsAlone(h) /\ SyncKnows(h)
=============================================================================
