----------------------------- MODULE AccessTree -----------------------------
(***************************************************************************)
(* The parts of reading an accessibility tree that are computed at once    *)
(* (src/src/atspi_tree.rs, src/src/server.rs): which applications a        *)
(* snapshot starts from and what is left of its nodes afterwards. A node   *)
(* is [obj, depth, parent, live], its parent the position of an earlier    *)
(* node and 0 for a root.                                                  *)
(***************************************************************************)
EXTENDS Integers, Sequences, FiniteSetsExt, SequencesExt

CONSTANTS
  Obj,          \* the objects on the accessibility bus
  PidOf,        \* the process of each, None when the bus does not say
  Named,        \* the pairs of an object and a text its id, name or role has
  Useful,       \* the objects with an action, a value, a text or a name
  ChildLimit,   \* ROOT_MATCH_CHILD_LIMIT
  None

(* The members of a set of positions in their order, and what of a         *)
(* sequence is in a set, in its order: by counting, so that the proofs     *)
(* need no recursion.                                                      *)
Rank(K, i)     == Cardinality({k \in K : k <= i})
InOrder(K)     == [j \in 1..Cardinality(K) |-> CHOOSE i \in K : Rank(K, i) = j]
Filtered(s, S) == LET order == InOrder({i \in DOMAIN s : s[i] \in S})
                  IN  [j \in DOMAIN order |-> s[order[j]]]

(* root_matches(): the application or one of its first children.           *)
RootMatches(o, kids, needle) ==
  \/ <<o, needle>> \in Named
  \/ \E i \in 1..Min({ChildLimit, Len(kids[o])}) : <<kids[o][i], needle>> \in Named

(* select_roots(): of the applications of the process those that match the *)
(* text, else all of them; when the process has none, those of the others  *)
(* that match.                                                             *)
SelectRoots(roots, kids, pid, needle) ==
  LET Fits(o) == RootMatches(o, kids, needle)
      own     == Filtered(roots, {o \in Obj : pid # None /\ PidOf[o] = pid})
      best    == Filtered(own, {o \in Obj : needle # None /\ Fits(o)})
  IN  IF best # <<>> THEN best
      ELSE IF own # <<>> THEN own
      ELSE Filtered(roots, {o \in Obj : needle # None => Fits(o)})

(* select_accessibility_object_ref(): the application of a process; of     *)
(* several the first that is named like the window, else the first.        *)
SelectObjectRef(apps, pid, candidates) ==
  LET own  == Filtered(apps, {o \in Obj : PidOf[o] = pid})
      like == Filtered(own, {o \in Obj : \E n \in candidates : <<o, n>> \in Named})
  IN  IF Len(own) < 2 \/ like = <<>> THEN own ELSE like

(* root_pids(), of no more than so many roots.                             *)
RootPids(roots, most) ==
  IF Len(roots) > most THEN {} ELSE {PidOf[o] : o \in ToSet(roots)} \ {None}

(* cross_process_tree_note().                                              *)
CrossProcess(pid, pids) == pid # None /\ pids # {} /\ pid \notin pids

-----------------------------------------------------------------------------
(* should_keep_accessibility_node(): an object that is gone has nothing to *)
(* keep it below the first level.                                          *)
ShouldKeep(node) == node.depth <= 1 \/ (node.live /\ node.obj \in Useful)

(* nearest_kept_parent(), 0 when there is none.                            *)
NearestKeptParent(nodes) ==
  LET up[i \in 0..Len(nodes)] ==
        IF i = 0 \/ nodes[i].parent = 0 THEN 0
        ELSE IF ShouldKeep(nodes[nodes[i].parent]) THEN nodes[i].parent
        ELSE up[nodes[i].parent]
  IN  up

(* compact_accessibility_tree(): the nodes that are kept, numbered anew,   *)
(* below their nearest kept ancestors, with their children counted anew.   *)
Compact(nodes) ==
  LET K    == {i \in 1..Len(nodes) : ShouldKeep(nodes[i])}
      kept == InOrder(K)
      up   == NearestKeptParent(nodes)
  IN  [j \in DOMAIN kept |->
        [obj    |-> nodes[kept[j]].obj,
         depth  |-> nodes[kept[j]].depth,
         parent |-> Rank(K, up[kept[j]]),
         count  |-> Cardinality({k \in DOMAIN kept : up[kept[k]] = kept[j]})]]
=============================================================================
