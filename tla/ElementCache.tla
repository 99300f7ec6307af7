---------------------------- MODULE ElementCache ----------------------------
(***************************************************************************)
(* What the server remembers of the accessibility trees it read, and how a *)
(* click finds its element and its point there (src/src/server.rs).        *)
(* get_app_state and wait_for number the elements of a tree under one lock *)
(* and then store the tree under a second and its window under a third; a  *)
(* pointer tool reads the window, asks the compositor where it is, and     *)
(* then looks its element up. Calls of either kind run concurrently.       *)
(***************************************************************************)
EXTENDS Naturals, FiniteSets

CONSTANTS
  Reader,       \* the reads of a tree, by get_app_state or a poll of wait_for
  Click,        \* calls that resolve an element to a point
  Element,      \* accessible objects, by object_ref
  Window,       \* compositor windows
  Process,
  Origin,       \* places a window may be at
  WindowOf,     \* the window each element is in
  ProcessOf,    \* the process each window belongs to
  OnBus,        \* the processes with a root on the accessibility bus
  Named,        \* those of them whose pid the bus never fails to tell
  MaxTracked,   \* StableElementIndices::MAX_TRACKED
  LastIndex,    \* u32::MAX
  None,         \* no element, window, index or reader
  Nowhere       \* no origin

ASSUME ElementCacheAssumption ==
  /\ WindowOf \in [Element -> Window]
  /\ ProcessOf \in [Window -> Process]
  /\ OnBus \subseteq Process
  /\ Named \subseteq OnBus
  /\ MaxTracked \in Nat \ {0}
  /\ LastIndex \in Nat \ {0}
  /\ None \notin Element \cup Window \cup Reader \cup Nat
  /\ Nowhere \notin Origin

VARIABLES
  at,         \* where each window is, Nowhere before it opens and once it is closed
  closed,     \* the windows that are closed, which never come back
  assigned,   \* element_indices.assigned
  next,       \* element_indices.next
  numbering,  \* the reader that has locked element_indices
  nodes,      \* last_nodes: the index of each cached element
  bounds,     \* node_bounds: a window and its origin, or NoOffset
  step,       \* of each reader
  anchor,     \* the bounds a reader will store: a window and its origin
  pids,       \* the processes whose roots a reader walked
  todo,       \* the elements a reader has still to number
  tree,       \* the index of each element a reader has numbered
  doing,      \* the step of each click
  ask,        \* the index it was given; None for a ref or a selector
  offset,     \* what it adds to the bounds of its element
  hit         \* the element it resolved

(* History: what indices were shown for, whether both caches are written   *)
(* and by one read (and which has written one), which windows a click saw, *)
(* and whether anything was stored meanwhile.                              *)
VARIABLES given, wrapped, writer, paired, seen, disturbed

winVars   == <<at, closed>>
indexVars == <<assigned, next, numbering, given, wrapped>>
cacheVars == <<nodes, bounds, writer, paired>>
readVars  == <<step, anchor, pids, todo, tree>>
clickVars == <<doing, ask, offset, hit, seen, disturbed>>
vars      == <<winVars, indexVars, cacheVars, readVars, clickVars>>

Index    == 0 .. LastIndex
Place    == Origin \cup {Nowhere}
NoOffset == [win |-> None, org |-> Nowhere]
Offsets  == {NoOffset} \cup [win : Window, org : Origin]
NoTree   == [e \in Element |-> None]
Blank    == [w \in Window |-> Nowhere]

(* A window listing; it may fail, or come without positions.               *)
Listing == {at, Blank}

Init ==
  /\ at \in [Window -> Place]
  /\ closed = {}
  /\ assigned = NoTree
  /\ next = 0
  /\ numbering = None
  /\ nodes = NoTree
  /\ bounds = NoOffset
  /\ step = [r \in Reader |-> "idle"]
  /\ anchor = [r \in Reader |-> NoOffset]
  /\ pids = [r \in Reader |-> {}]
  /\ todo = [r \in Reader |-> {}]
  /\ tree = [r \in Reader |-> NoTree]
  /\ doing = [c \in Click |-> "idle"]
  /\ ask = [c \in Click |-> None]
  /\ offset = [c \in Click |-> NoOffset]
  /\ hit = [c \in Click |-> None]
  /\ given = [i \in Index |-> None]
  /\ wrapped = FALSE
  /\ writer = None
  /\ paired = TRUE
  /\ seen = [c \in Click |-> Blank]
  /\ disturbed = [c \in Click |-> FALSE]

-----------------------------------------------------------------------------
(* The compositor.                                                         *)
Open(w, o) ==
  /\ at[w] = Nowhere
  /\ w \notin closed
  /\ at' = [at EXCEPT ![w] = o]
  /\ UNCHANGED <<closed, indexVars, cacheVars, readVars, clickVars>>

Move(w, o) ==
  /\ at[w] # Nowhere
  /\ at' = [at EXCEPT ![w] = o]
  /\ UNCHANGED <<closed, indexVars, cacheVars, readVars, clickVars>>

Close(w) ==
  /\ at[w] # Nowhere
  /\ at' = [at EXCEPT ![w] = Nowhere]
  /\ closed' = closed \cup {w}
  /\ UNCHANGED <<indexVars, cacheVars, readVars, clickVars>>

Compositor ==
  \E w \in Window : Close(w) \/ \E o \in Origin : Open(w, o) \/ Move(w, o)

Opened(w) == at[w] # Nowhere \/ w \in closed

-----------------------------------------------------------------------------
(* Readers, of which each reads once. resolve_window_context() names a     *)
(* window, or there is none.                                               *)
Target(r, w, o) ==
  /\ step[r] = "idle"
  /\ at[w] # Nowhere
  /\ o \in {at[w], Nowhere}
  /\ step' = [step EXCEPT ![r] = "reading"]
  /\ anchor' = [anchor EXCEPT ![r] = [win |-> w, org |-> o]]
  /\ UNCHANGED <<winVars, indexVars, cacheVars, pids, todo, tree, clickVars>>

NoTarget(r) ==
  /\ step[r] = "idle"
  /\ step' = [step EXCEPT ![r] = "reading"]
  /\ UNCHANGED <<winVars, indexVars, cacheVars, anchor, pids, todo, tree, clickVars>>

(* select_roots(), when the bus tells the pids of N: the roots of the      *)
(* window's process; without any, or without a window, those that match a  *)
(* name.                                                                   *)
RootsFor(w, N) ==
  IF w # None /\ ProcessOf[w] \in N THEN {{ProcessOf[w]}} ELSE SUBSET OnBus

(* snapshot_tree() returns some elements of those processes and the pids it *)
(* was told; then apply_stable_indices() takes its lock. An element is     *)
(* there from when its window opens, and may outlive it. A tree with       *)
(* desktop bounds needs no window, one without a target has still to find  *)
(* its own, and a window without a position is none (cached_bounds_for(),  *)
(* of which Desktop and Unanchored are both NoOffset).                     *)
Snapshot(r, N, P, S, rel) ==
  /\ step[r] = "reading"
  /\ numbering = None
  /\ Named \subseteq N
  /\ P \in RootsFor(anchor[r].win, N)
  /\ \A e \in S : ProcessOf[WindowOf[e]] \in P /\ Opened(WindowOf[e])
  /\ rel => S # {}
  /\ numbering' = r
  /\ step' = [step EXCEPT ![r] = "numbering"]
  /\ pids' = [pids EXCEPT ![r] = IF rel /\ anchor[r].win = None THEN P \cap N ELSE {}]
  /\ anchor' = [anchor EXCEPT ![r] = IF rel /\ @.org # Nowhere THEN @ ELSE NoOffset]
  /\ todo' = [todo EXCEPT ![r] = S]
  /\ UNCHANGED <<winVars, assigned, next, given, wrapped, cacheVars, tree, clickVars>>

Recall(r, e) ==
  /\ numbering = r
  /\ e \in todo[r]
  /\ assigned[e] # None
  /\ tree' = [tree EXCEPT ![r][e] = assigned[e]]
  /\ todo' = [todo EXCEPT ![r] = @ \ {e}]
  /\ UNCHANGED <<winVars, indexVars, cacheVars, step, anchor, pids, clickVars>>

Full ==
  \/ Cardinality({e \in Element : assigned[e] # None}) >= MaxTracked
  \/ next = LastIndex

(* Mistake: the numbers start again when the map is dropped.               *)
NextFromStart == IF Full THEN 0 ELSE next + 1

NextIndex == IF next = LastIndex THEN 0 ELSE next + 1

Mint(r, e) ==
  /\ numbering = r
  /\ e \in todo[r]
  /\ assigned[e] = None
  /\ assigned' = [x \in Element |->
                    IF x = e THEN next ELSE IF Full THEN None ELSE assigned[x]]
  /\ next' = NextIndex
  /\ given' = [given EXCEPT ![next] = e]
  /\ wrapped' = (wrapped \/ next = LastIndex)
  /\ tree' = [tree EXCEPT ![r][e] = next]
  /\ todo' = [todo EXCEPT ![r] = @ \ {e}]
  /\ UNCHANGED <<winVars, numbering, cacheVars, step, anchor, pids, clickVars>>

(* A tree without a target whose bounds follow its window needs a window.  *)
Numbered(r) ==
  /\ numbering = r
  /\ todo[r] = {}
  /\ numbering' = None
  /\ step' = [step EXCEPT ![r] =
                IF pids[r] # {} THEN "anchoring" ELSE "storing"]
  /\ UNCHANGED <<winVars, assigned, next, given, wrapped, cacheVars, anchor, pids, todo,
                 tree, clickVars>>

(* Mistake: of several windows the first is taken.                         *)
FirstWindow(L, P) ==
  LET mine == {w \in Window : L[w] # Nowhere /\ ProcessOf[w] \in P}
  IN IF mine = {} THEN None ELSE CHOOSE w \in mine : TRUE

(* sole_window_for_pids()                                                  *)
SoleWindow(L, P) ==
  LET mine == {w \in Window : L[w] # Nowhere /\ ProcessOf[w] \in P}
  IN IF \E w \in mine : mine = {w} THEN CHOOSE w \in mine : TRUE ELSE None

Anchor(r, L) ==
  /\ step[r] = "anchoring"
  /\ LET w == SoleWindow(L, pids[r])
     IN anchor' = [anchor EXCEPT ![r] =
                     IF w = None THEN NoOffset ELSE [win |-> w, org |-> L[w]]]
  /\ step' = [step EXCEPT ![r] = "storing"]
  /\ UNCHANGED <<winVars, indexVars, cacheVars, pids, todo, tree, clickVars>>

Forget(r) ==
  /\ step' = [step EXCEPT ![r] = "done"]
  /\ anchor' = [anchor EXCEPT ![r] = NoOffset]
  /\ pids' = [pids EXCEPT ![r] = {}]
  /\ tree' = [tree EXCEPT ![r] = NoTree]

Busy(c) == doing[c] \in {"listing", "resolving"}

Disturb == disturbed' = [c \in Click |-> disturbed[c] \/ Busy(c)]

(* cache_tree(), one lock after the other.                                 *)
StoreNodes(r) ==
  /\ step[r] = "storing"
  /\ nodes' = tree[r]
  /\ writer' = r
  /\ paired' = FALSE
  /\ step' = [step EXCEPT ![r] = "bounding"]
  /\ Disturb
  /\ UNCHANGED <<winVars, indexVars, bounds, anchor, pids, todo, tree,
                 doing, ask, offset, hit, seen>>

StoreBounds(r) ==
  /\ step[r] = "bounding"
  /\ bounds' = anchor[r]
  /\ writer' = IF writer = r THEN None ELSE writer
  /\ paired' = (writer = r)
  /\ Forget(r)
  /\ Disturb
  /\ UNCHANGED <<winVars, indexVars, nodes, todo, doing, ask, offset, hit, seen>>

(* A get_app_state that failed clears both caches (clear_cached_nodes()).  *)
ReadFails(r) ==
  /\ step[r] = "reading"
  /\ step' = [step EXCEPT ![r] = "storing"]
  /\ anchor' = [anchor EXCEPT ![r] = NoOffset]
  /\ UNCHANGED <<winVars, indexVars, cacheVars, pids, todo, tree, clickVars>>

(* A wait_for whose probe fails or matches no element stores nothing.      *)
NoMatch(r) ==
  /\ numbering = r
  /\ todo[r] = {}
  /\ numbering' = None
  /\ Forget(r)
  /\ UNCHANGED <<winVars, assigned, next, given, wrapped, cacheVars, todo, clickVars>>

(* Its caller is dropped at an await, or the probe fails there.            *)
ReadDropped(r) ==
  /\ step[r] \in {"reading", "anchoring"}
  /\ Forget(r)
  /\ UNCHANGED <<winVars, indexVars, cacheVars, todo, clickVars>>

Read(r) ==
  \/ \E w \in Window, o \in Place : Target(r, w, o)
  \/ NoTarget(r)
  \/ \E N \in SUBSET OnBus, P \in SUBSET OnBus, S \in SUBSET Element, rel \in BOOLEAN :
       Snapshot(r, N, P, S, rel)
  \/ \E e \in Element : Recall(r, e) \/ Mint(r, e)
  \/ Numbered(r) \/ NoMatch(r)
  \/ \E L \in Listing : Anchor(r, L)
  \/ StoreNodes(r) \/ StoreBounds(r)
  \/ ReadFails(r) \/ ReadDropped(r)

-----------------------------------------------------------------------------
(* Clicks, scrolls and drags.                                              *)

(* current_bounds() copies the bounds. An agent asks for an index it was   *)
(* shown, or for an element otherwise.                                     *)
ReadBounds(c, i) ==
  /\ doing[c] = "idle"
  /\ i # None => given[i] # None
  /\ ask' = [ask EXCEPT ![c] = i]
  /\ offset' = [offset EXCEPT ![c] = bounds]
  /\ doing' = [doing EXCEPT ![c] = IF bounds = NoOffset THEN "resolving" ELSE "listing"]
  /\ disturbed' = [disturbed EXCEPT ![c] = ~paired]
  /\ UNCHANGED <<winVars, indexVars, cacheVars, readVars, hit, seen>>

(* Mistake: the origin the window had when the tree was read.              *)
OriginOfRead(cached, L) == cached.org

(* fresh_bounds_offset()                                                   *)
FreshOrigin(cached, L) == IF L[cached.win] # Nowhere THEN L[cached.win] ELSE cached.org

ListWindows(c, L) ==
  /\ doing[c] = "listing"
  /\ offset' = [offset EXCEPT ![c].org = FreshOrigin(offset[c], L)]
  /\ seen' = [seen EXCEPT ![c] = L]
  /\ doing' = [doing EXCEPT ![c] = "resolving"]
  /\ UNCHANGED <<winVars, indexVars, cacheVars, readVars, ask, hit, disturbed>>

(* resolve_cached_node() or center_for_cached_node()                       *)
Found(c, e) ==
  /\ doing[c] = "resolving"
  /\ nodes[e] # None
  /\ ask[c] \in {None, nodes[e]}
  /\ hit' = [hit EXCEPT ![c] = e]
  /\ doing' = [doing EXCEPT ![c] = "aimed"]
  /\ UNCHANGED <<winVars, indexVars, cacheVars, readVars, ask, offset, seen, disturbed>>

(* It clicked, found no element or none with bounds, or was dropped.       *)
ClickEnds(c) ==
  /\ doing[c] # "idle"
  /\ doing' = [doing EXCEPT ![c] = "idle"]
  /\ ask' = [ask EXCEPT ![c] = None]
  /\ offset' = [offset EXCEPT ![c] = NoOffset]
  /\ hit' = [hit EXCEPT ![c] = None]
  /\ seen' = [seen EXCEPT ![c] = Blank]
  /\ disturbed' = [disturbed EXCEPT ![c] = FALSE]
  /\ UNCHANGED <<winVars, indexVars, cacheVars, readVars>>

Resolve(c) ==
  \/ \E i \in Index \cup {None} : ReadBounds(c, i)
  \/ \E L \in Listing : ListWindows(c, L)
  \/ \E e \in Element : Found(c, e)
  \/ ClickEnds(c)

Next ==
  \/ Compositor
  \/ \E r \in Reader : Read(r)
  \/ \E c \in Click : Resolve(c)

Spec == Init /\ [][Next]_vars

-----------------------------------------------------------------------------
TypeOK ==
  /\ at \in [Window -> Place]
  /\ closed \subseteq Window
  /\ assigned \in [Element -> Index \cup {None}]
  /\ next \in Index
  /\ numbering \in Reader \cup {None}
  /\ nodes \in [Element -> Index \cup {None}]
  /\ bounds \in Offsets
  /\ step \in [Reader -> {"idle", "reading", "numbering", "anchoring", "storing",
                         "bounding", "done"}]
  /\ anchor \in [Reader -> [win : Window \cup {None}, org : Place]]
  /\ pids \in [Reader -> SUBSET Process]
  /\ todo \in [Reader -> SUBSET Element]
  /\ tree \in [Reader -> [Element -> Index \cup {None}]]
  /\ doing \in [Click -> {"idle", "listing", "resolving", "aimed"}]
  /\ ask \in [Click -> Index \cup {None}]
  /\ offset \in [Click -> Offsets]
  /\ hit \in [Click -> Element \cup {None}]
  /\ given \in [Index -> Element \cup {None}]
  /\ wrapped \in BOOLEAN
  /\ writer \in Reader \cup {None}
  /\ paired \in BOOLEAN
  /\ seen \in [Click -> [Window -> Place]]
  /\ disturbed \in [Click -> BOOLEAN]

(* Until it wraps, the counter is above every index that was shown, and    *)
(* the map, the cache and the trees under way hold an index only for the   *)
(* element it was shown for.                                               *)
Shown(t) == \A e \in Element : t[e] # None => given[t[e]] = e

IndexInv ==
  ~wrapped =>
    /\ \A i \in Index : i >= next => given[i] = None
    /\ Shown(assigned)
    /\ Shown(nodes)
    /\ \A r \in Reader : Shown(tree[r])
    /\ \A c \in Click : doing[c] = "aimed" /\ ask[c] # None => given[ask[c]] = hit[c]

(* An index that was shown for an element never resolves to another one,   *)
(* however trees are read, the map is dropped, and trees are stored over   *)
(* one another: "a stale index fails to resolve rather than resolving to   *)
(* another element" (lines 106-108), for the four thousand million indices *)
(* there are.                                                              *)
IndexForLife ==
  ~wrapped =>
    \A c \in Click : doing[c] = "aimed" /\ ask[c] # None => given[ask[c]] = hit[c]

(* An element that is in the tree before and in the one stored over it     *)
(* keeps its index: "an index names the same element until that element is *)
(* gone" (lines 92-93), it "keeps naming the same element across re-reads  *)
(* of the tree" (line 2183). The map is dropped when it is full, and then  *)
(* an element that is still there gets another one (line 115).             *)
IndexUntilGone ==
  [][~wrapped =>
       \A e \in Element :
         nodes[e] # None /\ nodes'[e] # None => nodes'[e] = nodes[e]]_nodes

(* What each step of a call has and has not.                               *)
StepInv ==
  /\ \A w \in closed : at[w] = Nowhere
  /\ \A r \in Reader :
       /\ numbering = r <=> step[r] = "numbering"
       /\ step[r] \in {"idle", "done"} => anchor[r] = NoOffset
       /\ step[r] = "reading" /\ anchor[r].win = None => anchor[r] = NoOffset
       /\ step[r] = "numbering" /\ pids[r] # {} => anchor[r] = NoOffset
       /\ step[r] \in {"idle", "reading", "done"} => tree[r] = NoTree
       /\ step[r] \notin {"idle", "reading", "done"} => anchor[r] \in Offsets
       /\ step[r] = "anchoring" => anchor[r] = NoOffset
       /\ writer = r => step[r] = "bounding" /\ nodes = tree[r]
  /\ paired => writer = None
  /\ \A c \in Click :
       /\ doing[c] = "listing" => offset[c].win # None
       /\ doing[c] = "aimed" => hit[c] # None

(* A tree is tied to a window only if all of it whose window is not closed *)
(* is in that window, and a click that nothing disturbed can count on      *)
(* that: what it sees listed is in that window.                            *)
Tied(t, w) == \A e \in Element : t[e] # None /\ WindowOf[e] \notin closed => WindowOf[e] = w

Sees(L, t, w) == \A e \in Element : t[e] # None /\ L[WindowOf[e]] # Nowhere => WindowOf[e] = w

Numbers(r) == {e \in Element : tree[r][e] # None \/ e \in todo[r]}

ReadTied(r) ==
  /\ \A e \in Numbers(r) : Opened(WindowOf[e])
  /\ step[r] \in {"numbering", "anchoring"} =>
       IF anchor[r].win = None
       THEN pids[r] # {} => \A e \in Numbers(r) : ProcessOf[WindowOf[e]] \in pids[r]
       ELSE \A e \in Numbers(r) : WindowOf[e] = anchor[r].win
  /\ step[r] \in {"storing", "bounding"} /\ anchor[r].win # None =>
       Tied(tree[r], anchor[r].win)

CacheTied == paired /\ bounds.win # None => Tied(nodes, bounds.win)

ClickTied(c) ==
  /\ Busy(c) /\ ~disturbed[c] => paired /\ offset[c].win = bounds.win
  /\ doing[c] = "resolving" /\ ~disturbed[c] /\ offset[c].win # None =>
       /\ Sees(seen[c], nodes, offset[c].win)
       /\ seen[c][offset[c].win] \in {Nowhere, offset[c].org}
  /\ doing[c] = "aimed" /\ ~disturbed[c] /\ offset[c].win # None =>
       seen[c][WindowOf[hit[c]]] \in {Nowhere, offset[c].org}

AnchorInv ==
  /\ \A r \in Reader : ReadTied(r)
  /\ CacheTied
  /\ \A c \in Click : ClickTied(c)

(* The inductive invariant of the proofs: what was shown, what each step   *)
(* has, and which window a tree is tied to.                                *)
IInv == IndexInv /\ StepInv /\ AnchorInv

(* The caches are well formed, no index changes its element, and every     *)
(* tree is tied to the window it was read for.                             *)
Consistent == TypeOK /\ IInv

(* A click that applies an offset, while no tree is stored between its     *)
(* steps or half stored before them, applies the place where the window of *)
(* its element is in the list it read: "an offset by the wrong window      *)
(* moves every click" (lines 4584-4591, 3872-3888).                        *)
UndisturbedAim ==
  \A c \in Click :
    doing[c] = "aimed" /\ ~disturbed[c] /\ offset[c].win # None =>
      seen[c][WindowOf[hit[c]]] \in {Nowhere, offset[c].org}
=============================================================================
