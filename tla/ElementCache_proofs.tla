------------------------ MODULE ElementCache_proofs -------------------------
(***************************************************************************)
(* Proofs about ElementCache, for any number of concurrent reads and       *)
(* clicks, any elements, windows and processes, and any size of the map    *)
(* and of the index.                                                       *)
(***************************************************************************)
EXTENDS ElementCache, TLAPS

(* The sole window of some processes is one that is listed, and any other  *)
(* listed window belongs to another process.                               *)
LEMMA SoleWindowIs ==
  ASSUME NEW L, NEW P
  PROVE  LET w == SoleWindow(L, P) IN
           \/ w = None
           \/ /\ w \in Window
              /\ L[w] # Nowhere
              /\ ProcessOf[w] \in P
              /\ \A v \in Window : L[v] # Nowhere /\ ProcessOf[v] \in P => v = w
<1> DEFINE mine == {w \in Window : L[w] # Nowhere /\ ProcessOf[w] \in P}
<1>1. CASE \E w \in mine : mine = {w}
  <2>1. PICK w \in mine : mine = {w}
    BY <1>1
  <2>2. SoleWindow(L, P) = w
    BY <2>1 DEF SoleWindow
  <2> QED BY <2>1, <2>2
<1>2. CASE ~\E w \in mine : mine = {w}
  BY <1>2 DEF SoleWindow
<1> QED BY <1>1, <1>2

(* Every step keeps the types.                                             *)
LEMMA TypeStep ==
  ASSUME TypeOK, StepInv, [Next]_vars
  PROVE  TypeOK'
<1> USE ElementCacheAssumption
    DEF TypeOK, Index, Place, Offsets, NoOffset, NoTree, Blank, Listing,
        winVars, indexVars, cacheVars, readVars, clickVars
<1>1. ASSUME NEW w \in Window, NEW o \in Origin, Open(w, o) \/ Move(w, o) PROVE TypeOK'
  <2>1. at' = [at EXCEPT ![w] = o] /\ UNCHANGED <<closed, indexVars, cacheVars, readVars, clickVars>>
    BY <1>1 DEF Open, Move
  <2> QED BY <2>1
<1>0. ASSUME NEW w \in Window, Close(w) PROVE TypeOK'
  BY <1>0 DEF Close
<1>2. ASSUME NEW r \in Reader, NEW w \in Window, NEW o \in Place, Target(r, w, o) PROVE TypeOK'
  BY <1>2 DEF Target
<1>3. ASSUME NEW r \in Reader, NoTarget(r) PROVE TypeOK'
  BY <1>3 DEF NoTarget
<1>4. ASSUME NEW r \in Reader, NEW N \in SUBSET OnBus, NEW P \in SUBSET OnBus,
             NEW S \in SUBSET Element, NEW rel \in BOOLEAN, Snapshot(r, N, P, S, rel)
      PROVE  TypeOK'
  BY <1>4 DEF Snapshot
<1>5. ASSUME NEW r \in Reader, NEW e \in Element, Recall(r, e) PROVE TypeOK'
  BY <1>5 DEF Recall
<1>6. ASSUME NEW r \in Reader, NEW e \in Element, Mint(r, e) PROVE TypeOK'
  <2>1. NextIndex \in Index
    BY DEF NextIndex
  <2> QED BY <1>6, <2>1 DEF Mint
<1>7. ASSUME NEW r \in Reader, Numbered(r) PROVE TypeOK'
  BY <1>7 DEF Numbered
<1>8. ASSUME NEW r \in Reader, NEW L \in Listing, Anchor(r, L) PROVE TypeOK'
  BY <1>8, SoleWindowIs DEF Anchor
<1>9. ASSUME NEW r \in Reader, StoreNodes(r) PROVE TypeOK'
  BY <1>9 DEF StoreNodes, Disturb, Busy
<1>10. ASSUME NEW r \in Reader, StoreBounds(r) PROVE TypeOK'
  BY <1>10 DEF StoreBounds, Forget, Disturb, Busy, StepInv
<1>11. ASSUME NEW r \in Reader, ReadFails(r) PROVE TypeOK'
  BY <1>11 DEF ReadFails
<1>12. ASSUME NEW r \in Reader, NoMatch(r) PROVE TypeOK'
  BY <1>12 DEF NoMatch, Forget
<1>18. ASSUME NEW r \in Reader, ReadDropped(r) PROVE TypeOK'
  BY <1>18 DEF ReadDropped, Forget
<1>13. ASSUME NEW c \in Click, NEW i \in Index \cup {None}, ReadBounds(c, i) PROVE TypeOK'
  BY <1>13 DEF ReadBounds
<1>14. ASSUME NEW c \in Click, NEW L \in Listing, ListWindows(c, L) PROVE TypeOK'
  <2>1. offset[c] \in [win : Window, org : Origin]
    BY <1>14 DEF ListWindows, StepInv
  <2>2. L \in [Window -> Place]
    OBVIOUS
  <2>3. FreshOrigin(offset[c], L) \in Origin
    BY <2>1, <2>2 DEF FreshOrigin
  <2>4. [offset[c] EXCEPT !.org = FreshOrigin(offset[c], L)] \in Offsets
    BY <2>1, <2>3
  <2>5. offset' \in [Click -> Offsets]
    BY <1>14, <2>4 DEF ListWindows
  <2> QED BY <1>14, <2>2, <2>5 DEF ListWindows
<1>15. ASSUME NEW c \in Click, NEW e \in Element, Found(c, e) PROVE TypeOK'
  BY <1>15 DEF Found
<1>16. ASSUME NEW c \in Click, ClickEnds(c) PROVE TypeOK'
  BY <1>16 DEF ClickEnds
<1>17. CASE UNCHANGED vars
  BY <1>17 DEF vars
<1> HIDE DEF TypeOK, Index, Place, Offsets, NoOffset, NoTree, Blank, Listing,
             winVars, indexVars, cacheVars, readVars, clickVars
<1> QED
  BY <1>0, <1>1, <1>2, <1>3, <1>4, <1>5, <1>6, <1>7, <1>8, <1>9, <1>10, <1>11, <1>12, <1>13,
     <1>14, <1>15, <1>16, <1>17, <1>18 DEF Next, Compositor, Read, Resolve

(* What each step of a call has and has not holds after every step.        *)
LEMMA StepKeepsStepInv ==
  ASSUME TypeOK, StepInv, [Next]_vars
  PROVE  StepInv'
<1> USE ElementCacheAssumption
    DEF TypeOK, StepInv, NoOffset, Offsets, Place, winVars, indexVars, cacheVars, readVars, clickVars
<1>1. ASSUME NEW w \in Window, NEW o \in Origin, Open(w, o) \/ Move(w, o) PROVE StepInv'
  BY <1>1 DEF Open, Move
<1>0. ASSUME NEW w \in Window, Close(w) PROVE StepInv'
  BY <1>0 DEF Close
<1>2. ASSUME NEW r \in Reader, NEW w \in Window, NEW o \in Place, Target(r, w, o) PROVE StepInv'
  BY <1>2 DEF Target
<1>3. ASSUME NEW r \in Reader, NoTarget(r) PROVE StepInv'
  BY <1>3 DEF NoTarget
<1>4. ASSUME NEW r \in Reader, NEW N \in SUBSET OnBus, NEW P \in SUBSET OnBus,
             NEW S \in SUBSET Element, NEW rel \in BOOLEAN, Snapshot(r, N, P, S, rel)
      PROVE  StepInv'
  <2> DEFINE new == IF rel /\ anchor[r].org # Nowhere THEN anchor[r] ELSE NoOffset
  <2>1. anchor[r] \in [win : Window \cup {None}, org : Place] /\ anchor[r] # NoOffset => anchor[r].win # None
    BY <1>4 DEF Snapshot
  <2>2. new \in Offsets /\ (anchor[r].win = None => new = NoOffset)
    BY <2>1
  <2>3. anchor' = [anchor EXCEPT ![r] = new]
    BY <1>4 DEF Snapshot
  <2>4. pids'[r] # {} => new = NoOffset
    BY <1>4, <2>2 DEF Snapshot
  <2> HIDE DEF new
  <2> QED BY <1>4, <2>2, <2>3, <2>4 DEF Snapshot
<1>5. ASSUME NEW r \in Reader, NEW e \in Element, Recall(r, e) PROVE StepInv'
  BY <1>5 DEF Recall
<1>6. ASSUME NEW r \in Reader, NEW e \in Element, Mint(r, e) PROVE StepInv'
  BY <1>6 DEF Mint
<1>7. ASSUME NEW r \in Reader, Numbered(r) PROVE StepInv'
  BY <1>7 DEF Numbered
<1>8. ASSUME NEW r \in Reader, NEW L \in Listing, Anchor(r, L) PROVE StepInv'
  BY <1>8, SoleWindowIs DEF Anchor, Listing, Blank
<1>9. ASSUME NEW r \in Reader, StoreNodes(r) PROVE StepInv'
  BY <1>9 DEF StoreNodes
<1>10. ASSUME NEW r \in Reader, StoreBounds(r) PROVE StepInv'
  BY <1>10 DEF StoreBounds, Forget
<1>11. ASSUME NEW r \in Reader, ReadFails(r) PROVE StepInv'
  BY <1>11 DEF ReadFails
<1>12. ASSUME NEW r \in Reader, NoMatch(r) PROVE StepInv'
  BY <1>12 DEF NoMatch, Forget
<1>13. ASSUME NEW r \in Reader, ReadDropped(r) PROVE StepInv'
  BY <1>13 DEF ReadDropped, Forget
<1>14. ASSUME NEW c \in Click, NEW i \in Index \cup {None}, ReadBounds(c, i) PROVE StepInv'
  BY <1>14 DEF ReadBounds
<1>15. ASSUME NEW c \in Click, NEW L \in Listing, ListWindows(c, L) PROVE StepInv'
  BY <1>15 DEF ListWindows
<1>16. ASSUME NEW c \in Click, NEW e \in Element, Found(c, e) PROVE StepInv'
  BY <1>16 DEF Found
<1>17. ASSUME NEW c \in Click, ClickEnds(c) PROVE StepInv'
  BY <1>17 DEF ClickEnds
<1>18. CASE UNCHANGED vars
  BY <1>18 DEF vars
<1> HIDE DEF TypeOK, StepInv, NoOffset, Offsets, Place, winVars, indexVars, cacheVars, readVars, clickVars
<1> QED
  BY <1>0, <1>1, <1>2, <1>3, <1>4, <1>5, <1>6, <1>7, <1>8, <1>9, <1>10, <1>11, <1>12, <1>13,
     <1>14, <1>15, <1>16, <1>17, <1>18
  DEF Next, Compositor, Read, Resolve

(* An index is minted for one element, above all that were, until it wraps.*)
LEMMA StepKeepsIndexInv ==
  ASSUME TypeOK, StepInv, IndexInv, [Next]_vars
  PROVE  IndexInv'
<1> USE ElementCacheAssumption
    DEF TypeOK, IndexInv, Shown, Index, winVars, indexVars, cacheVars, readVars, clickVars
<1>1. ASSUME NEW w \in Window, NEW o \in Origin, Open(w, o) \/ Move(w, o) PROVE IndexInv'
  BY <1>1 DEF Open, Move
<1>0. ASSUME NEW w \in Window, Close(w) PROVE IndexInv'
  BY <1>0 DEF Close
<1>2. ASSUME NEW r \in Reader, NEW w \in Window, NEW o \in Place, Target(r, w, o) PROVE IndexInv'
  BY <1>2 DEF Target
<1>3. ASSUME NEW r \in Reader, NoTarget(r) PROVE IndexInv'
  BY <1>3 DEF NoTarget
<1>4. ASSUME NEW r \in Reader, NEW N \in SUBSET OnBus, NEW P \in SUBSET OnBus,
             NEW S \in SUBSET Element, NEW rel \in BOOLEAN, Snapshot(r, N, P, S, rel)
      PROVE  IndexInv'
  BY <1>4 DEF Snapshot
<1>5. ASSUME NEW r \in Reader, NEW e \in Element, Recall(r, e) PROVE IndexInv'
  BY <1>5 DEF Recall
<1>6. ASSUME NEW r \in Reader, NEW e \in Element, Mint(r, e) PROVE IndexInv'
  <2> SUFFICES ASSUME ~wrapped' PROVE IndexInv'
    OBVIOUS
  <2>1. ~wrapped /\ next # LastIndex /\ next' = next + 1 /\ given[next] = None
    <3>1. ~wrapped /\ next # LastIndex
      BY <1>6, Zenon DEF Mint
    <3>2. next' = next + 1
      BY <1>6, <3>1 DEF Mint, NextIndex
    <3> QED BY <3>1, <3>2
  <2>2. given' = [given EXCEPT ![next] = e]
    BY <1>6 DEF Mint
  <2>3. \A i \in Index : given[i] # None => given'[i] = given[i]
    BY <2>1, <2>2
  <2>4. ASSUME NEW t \in [Element -> Index \cup {None}], Shown(t)
        PROVE  \A x \in Element : t[x] # None => given'[t[x]] = x
    BY <2>3, <2>4
  <2>5. \A i \in Index : i >= next' => given'[i] = None
    BY <2>1, <2>2
  <2>6. \A x \in Element : assigned'[x] # None => given'[assigned'[x]] = x
    <3>1. given'[next] = e
      BY <2>2
    <3> QED BY <1>6, <2>1, <2>4, <3>1 DEF Mint
  <2>7. \A x \in Element : nodes'[x] # None => given'[nodes'[x]] = x
    BY <1>6, <2>1, <2>4 DEF Mint
  <2>8. ASSUME NEW q \in Reader
        PROVE  \A x \in Element : tree'[q][x] # None => given'[tree'[q][x]] = x
    <3>1. given'[next] = e
      BY <2>2
    <3>2. \A x \in Element : tree[q][x] # None => given'[tree[q][x]] = x
      BY <2>1, <2>4
    <3> QED BY <1>6, <3>1, <3>2 DEF Mint
  <2>9. ASSUME NEW c \in Click, doing'[c] = "aimed", ask'[c] # None
        PROVE  given'[ask'[c]] = hit'[c]
    BY <1>6, <2>1, <2>3, <2>9 DEF Mint, StepInv
  <2> QED BY <2>1, <2>5, <2>6, <2>7, <2>8, <2>9
<1>7. ASSUME NEW r \in Reader, Numbered(r) PROVE IndexInv'
  BY <1>7 DEF Numbered
<1>8. ASSUME NEW r \in Reader, NEW L \in Listing, Anchor(r, L) PROVE IndexInv'
  BY <1>8 DEF Anchor
<1>9. ASSUME NEW r \in Reader, StoreNodes(r) PROVE IndexInv'
  BY <1>9 DEF StoreNodes
<1>10. ASSUME NEW r \in Reader, StoreBounds(r) PROVE IndexInv'
  BY <1>10 DEF StoreBounds, Forget, NoTree
<1>11. ASSUME NEW r \in Reader, ReadFails(r) PROVE IndexInv'
  BY <1>11 DEF ReadFails
<1>12. ASSUME NEW r \in Reader, NoMatch(r) PROVE IndexInv'
  BY <1>12 DEF NoMatch, Forget, NoTree
<1>13. ASSUME NEW r \in Reader, ReadDropped(r) PROVE IndexInv'
  BY <1>13 DEF ReadDropped, Forget, NoTree
<1>14. ASSUME NEW c \in Click, NEW i \in Index \cup {None}, ReadBounds(c, i) PROVE IndexInv'
  BY <1>14 DEF ReadBounds
<1>15. ASSUME NEW c \in Click, NEW L \in Listing, ListWindows(c, L) PROVE IndexInv'
  BY <1>15 DEF ListWindows
<1>16. ASSUME NEW c \in Click, NEW e \in Element, Found(c, e) PROVE IndexInv'
  BY <1>16 DEF Found
<1>17. ASSUME NEW c \in Click, ClickEnds(c) PROVE IndexInv'
  BY <1>17 DEF ClickEnds
<1>18. CASE UNCHANGED vars
  BY <1>18 DEF vars
<1> HIDE DEF TypeOK, IndexInv, Shown, Index, winVars, indexVars, cacheVars, readVars, clickVars
<1> QED
  BY <1>0, <1>1, <1>2, <1>3, <1>4, <1>5, <1>6, <1>7, <1>8, <1>9, <1>10, <1>11, <1>12, <1>13,
     <1>14, <1>15, <1>16, <1>17, <1>18
  DEF Next, Compositor, Read, Resolve
(* Each window is the only one of its process; each process has a root on  *)
(* the accessibility bus, which tells its pid.                             *)
OneWindowPerProcess == \A v, w \in Window : ProcessOf[v] = ProcessOf[w] => v = w
AllNamed == Named = Process

(* A step of one read that stores nothing disturbs no other call.          *)
LEMMA ReadsAlone ==
  ASSUME AnchorInv, NEW r \in Reader, ReadTied(r)',
         UNCHANGED <<winVars, cacheVars, clickVars>>,
         \A q \in Reader \ {r} : /\ step'[q] = step[q]
                                 /\ anchor'[q] = anchor[q]
                                 /\ pids'[q] = pids[q]
                                 /\ todo'[q] = todo[q]
                                 /\ tree'[q] = tree[q]
  PROVE  AnchorInv'
<1>1. ASSUME NEW q \in Reader PROVE ReadTied(q)'
  <2>1. CASE q = r
    BY <2>1
  <2>2. CASE q # r
    BY <2>2 DEF AnchorInv, ReadTied, Numbers, Opened, Tied, winVars
  <2> QED BY <2>1, <2>2
<1>2. CacheTied'
  BY DEF AnchorInv, CacheTied, Tied, cacheVars, winVars
<1>3. ASSUME NEW c \in Click PROVE ClickTied(c)'
  BY DEF AnchorInv, ClickTied, Busy, Sees, cacheVars, clickVars
<1> QED BY <1>1, <1>2, <1>3 DEF AnchorInv

(* A step of one click disturbs no other call.                             *)
LEMMA ClicksAlone ==
  ASSUME AnchorInv, NEW c \in Click, ClickTied(c)',
         UNCHANGED <<winVars, cacheVars, readVars>>,
         \A d \in Click \ {c} : /\ doing'[d] = doing[d]
                                /\ offset'[d] = offset[d]
                                /\ hit'[d] = hit[d]
                                /\ seen'[d] = seen[d]
                                /\ disturbed'[d] = disturbed[d]
  PROVE  AnchorInv'
<1>1. ASSUME NEW q \in Reader PROVE ReadTied(q)'
  BY DEF AnchorInv, ReadTied, Numbers, Opened, Tied, winVars, readVars
<1>2. CacheTied'
  BY DEF AnchorInv, CacheTied, Tied, cacheVars, winVars
<1>3. ASSUME NEW d \in Click PROVE ClickTied(d)'
  <2>1. CASE d = c
    BY <2>1
  <2>2. CASE d # c
    BY <2>2 DEF AnchorInv, ClickTied, Busy, Sees, cacheVars
  <2> QED BY <2>1, <2>2
<1> QED BY <1>1, <1>2, <1>3 DEF AnchorInv

(* With one window for each process, what ties a tree to a window holds    *)
(* after every step.                                                       *)
LEMMA StepKeepsAnchorInv ==
  ASSUME OneWindowPerProcess, AllNamed, TypeOK, StepInv, AnchorInv, [Next]_vars
  PROVE  AnchorInv'
<1> USE ElementCacheAssumption DEF TypeOK
<1>0. ASSUME closed \subseteq closed',
             \A w \in Window : Opened(w) => Opened(w)',
             UNCHANGED <<cacheVars, readVars, clickVars>>
      PROVE  AnchorInv'
  <2>1. ASSUME NEW q \in Reader PROVE ReadTied(q)'
    BY <1>0 DEF AnchorInv, ReadTied, Numbers, Tied, readVars
  <2>2. CacheTied'
    BY <1>0 DEF AnchorInv, CacheTied, Tied, cacheVars, winVars
  <2>3. ASSUME NEW c \in Click PROVE ClickTied(c)'
    BY <1>0 DEF AnchorInv, ClickTied, Busy, Sees, cacheVars, clickVars
  <2> QED BY <2>1, <2>2, <2>3 DEF AnchorInv
<1>1. CASE Compositor
  <2>1. ASSUME NEW w \in Window, NEW o \in Origin, Open(w, o) \/ Move(w, o) PROVE AnchorInv'
    BY <1>0, <2>1 DEF Open, Move, Opened
  <2>2. ASSUME NEW w \in Window, Close(w) PROVE AnchorInv'
    BY <1>0, <2>2 DEF Close, Opened
  <2> QED BY <1>1, <2>1, <2>2 DEF Compositor
<1>2. ASSUME NEW r \in Reader, NEW w \in Window, NEW o \in Place, Target(r, w, o) PROVE AnchorInv'
  <2>1. ReadTied(r)'
    BY <1>2 DEF AnchorInv, Target, ReadTied, Numbers, Opened, winVars
  <2> QED BY <1>2, <2>1, ReadsAlone DEF Target
<1>3. ASSUME NEW r \in Reader, NoTarget(r) PROVE AnchorInv'
  <2>1. ReadTied(r)'
    BY <1>3 DEF AnchorInv, NoTarget, ReadTied, Numbers, Opened, winVars
  <2> QED BY <1>3, <2>1, ReadsAlone DEF NoTarget
<1>4. ASSUME NEW r \in Reader, NEW N \in SUBSET OnBus, NEW P \in SUBSET OnBus,
             NEW S \in SUBSET Element, NEW rel \in BOOLEAN, Snapshot(r, N, P, S, rel)
      PROVE  AnchorInv'
  <2>1. Numbers(r)' = S
    BY <1>4 DEF Snapshot, StepInv, NoTree, Numbers
  <2>2. \A e \in S : ProcessOf[WindowOf[e]] \in P /\ Opened(WindowOf[e])'
    BY <1>4 DEF Snapshot, Opened, winVars
  <2>3. ReadTied(r)'
    <3>1. step'[r] = "numbering"
      BY <1>4 DEF Snapshot
    <3>2. CASE anchor[r].win = None
      <4>1. pids'[r] \in {P \cap N, {}} /\ anchor'[r] = NoOffset
        BY <1>4, <3>2 DEF Snapshot, StepInv
      <4>2. P \cap N = P
        BY <1>4 DEF Snapshot, AllNamed
      <4> QED BY <2>1, <2>2, <3>1, <4>1, <4>2 DEF ReadTied, NoOffset
    <3>3. CASE anchor[r].win # None
      <4>1. pids'[r] = {} /\ anchor'[r] \in {anchor[r], NoOffset}
        BY <1>4, <3>3 DEF Snapshot
      <4>2. anchor[r].win \in Window
        BY <3>3
      <4>3. P = {ProcessOf[anchor[r].win]}
        BY <1>4, <3>3, <4>2 DEF Snapshot, RootsFor, AllNamed
      <4>4. \A e \in S : WindowOf[e] = anchor[r].win
        BY <2>2, <4>2, <4>3 DEF OneWindowPerProcess
      <4> QED BY <2>1, <2>2, <3>1, <4>1, <4>4 DEF ReadTied, NoOffset
    <3> QED BY <3>2, <3>3
  <2> QED BY <1>4, <2>3, ReadsAlone DEF Snapshot
<1>5. ASSUME NEW r \in Reader, NEW e \in Element, Recall(r, e) PROVE AnchorInv'
  <2>1. Numbers(r)' = Numbers(r)
    BY <1>5 DEF Recall, Numbers
  <2>2. step'[r] = "numbering" /\ step[r] = "numbering" /\ UNCHANGED <<winVars, anchor, pids>>
    BY <1>5 DEF Recall, StepInv
  <2>3. ReadTied(r)'
    BY <2>1, <2>2 DEF AnchorInv, ReadTied, Opened, winVars
  <2> QED BY <1>5, <2>3, ReadsAlone DEF Recall
<1>6. ASSUME NEW r \in Reader, NEW e \in Element, Mint(r, e) PROVE AnchorInv'
  <2>1. Numbers(r)' = Numbers(r)
    BY <1>6 DEF Mint, Numbers, Index
  <2>2. step'[r] = "numbering" /\ step[r] = "numbering" /\ UNCHANGED <<winVars, anchor, pids>>
    BY <1>6 DEF Mint, StepInv
  <2>3. ReadTied(r)'
    BY <2>1, <2>2 DEF AnchorInv, ReadTied, Opened, winVars
  <2> QED BY <1>6, <2>3, ReadsAlone DEF Mint
<1>7. ASSUME NEW r \in Reader, Numbered(r) PROVE AnchorInv'
  <2>1. Numbers(r)' = Numbers(r)
    BY <1>7 DEF Numbered, Numbers
  <2>2. step[r] = "numbering" /\ UNCHANGED <<at, closed, anchor, pids, tree>>
    BY <1>7 DEF Numbered, StepInv, winVars
  <2>3. ReadTied(r)
    BY DEF AnchorInv
  <2>4. ReadTied(r)'
    <3>1. CASE pids[r] # {}
      BY <1>7, <2>1, <2>2, <2>3, <3>1 DEF Numbered, ReadTied, Opened
    <3>2. CASE pids[r] = {}
      <4>1. step'[r] = "storing"
        BY <1>7, <3>2 DEF Numbered
      <4>2. anchor[r].win # None => Tied(tree[r], anchor[r].win)
        BY <2>2, <2>3 DEF ReadTied, Numbers, Tied
      <4>3. \A e \in Numbers(r)' : Opened(WindowOf[e])'
        BY <2>1, <2>2, <2>3 DEF ReadTied, Opened
      <4> QED BY <2>2, <4>1, <4>2, <4>3 DEF ReadTied, Tied
    <3> QED BY <3>1, <3>2
  <2> QED BY <1>7, <2>4, ReadsAlone DEF Numbered
<1>8. ASSUME NEW r \in Reader, NEW L \in Listing, Anchor(r, L) PROVE AnchorInv'
  <2> DEFINE w == SoleWindow(L, pids[r])
  <2>1. /\ step[r] = "anchoring" /\ step'[r] = "storing"
        /\ UNCHANGED <<at, closed, todo, tree>>
    BY <1>8 DEF Anchor, winVars
  <2>2. anchor'[r] = IF w = None THEN NoOffset ELSE [win |-> w, org |-> L[w]]
    BY <1>8 DEF Anchor
  <2>3. anchor[r].win = None
    BY <2>1 DEF StepInv, NoOffset
  <2>4. /\ \A e \in Numbers(r) : Opened(WindowOf[e])
        /\ \A e \in Numbers(r)' : Opened(WindowOf[e])'
    BY <2>1 DEF AnchorInv, ReadTied, Numbers, Opened
  <2>5. w # None => Tied(tree[r], w)
    <3> SUFFICES ASSUME w # None,
                        NEW e \in Element, tree[r][e] # None, WindowOf[e] \notin closed
                 PROVE  WindowOf[e] = w
      BY DEF Tied
    <3>1. /\ w \in Window
          /\ L[w] # Nowhere
          /\ pids[r] # {}
          /\ \A v \in Window : L[v] # Nowhere /\ ProcessOf[v] \in pids[r] => v = w
      BY SoleWindowIs
    <3>2. L = at
      BY <3>1 DEF Listing, Blank
    <3>3. ProcessOf[WindowOf[e]] \in pids[r]
      BY <2>1, <2>3, <3>1 DEF AnchorInv, ReadTied, Numbers
    <3>4. at[WindowOf[e]] # Nowhere
      BY <2>4 DEF Numbers, Opened
    <3> QED BY <3>1, <3>2, <3>3, <3>4
  <2>6. ReadTied(r)'
    BY <2>1, <2>2, <2>4, <2>5 DEF ReadTied, Tied, NoOffset
  <2> QED BY <1>8, <2>6, ReadsAlone DEF Anchor
<1>9. ASSUME NEW r \in Reader, StoreNodes(r) PROVE AnchorInv'
  <2>1. ASSUME NEW q \in Reader PROVE ReadTied(q)'
    BY <1>9 DEF StoreNodes, AnchorInv, ReadTied, Numbers, Opened, Tied, winVars
  <2>2. CacheTied'
    BY <1>9 DEF StoreNodes, CacheTied
  <2>3. ASSUME NEW c \in Click PROVE ClickTied(c)'
    <3>1. UNCHANGED <<doing, offset, hit, seen>>
      BY <1>9 DEF StoreNodes
    <3>2. disturbed'[c] <=> disturbed[c] \/ Busy(c)
      BY <1>9, Zenon DEF StoreNodes, Disturb
    <3> QED BY <3>1, <3>2 DEF AnchorInv, ClickTied, Busy
  <2> QED BY <2>1, <2>2, <2>3 DEF AnchorInv
<1>10. ASSUME NEW r \in Reader, StoreBounds(r) PROVE AnchorInv'
  <2>1. ASSUME NEW q \in Reader PROVE ReadTied(q)'
    BY <1>10 DEF StoreBounds, Forget, NoTree, AnchorInv, ReadTied, Numbers, Opened, Tied, winVars
  <2>2. CacheTied'
    <3>1. ReadTied(r) /\ step[r] = "bounding"
      BY <1>10 DEF AnchorInv, StoreBounds
    <3>2. paired' => nodes = tree[r]
      BY <1>10 DEF StoreBounds, StepInv
    <3>3. UNCHANGED <<closed, nodes>> /\ bounds' = anchor[r]
      BY <1>10 DEF StoreBounds, winVars
    <3> QED BY <3>1, <3>2, <3>3 DEF CacheTied, ReadTied, Tied
  <2>3. ASSUME NEW c \in Click PROVE ClickTied(c)'
    <3>1. UNCHANGED <<doing, offset, hit, seen>>
      BY <1>10 DEF StoreBounds
    <3>2. disturbed'[c] <=> disturbed[c] \/ Busy(c)
      BY <1>10, Zenon DEF StoreBounds, Disturb
    <3> QED BY <3>1, <3>2 DEF AnchorInv, ClickTied, Busy
  <2> QED BY <2>1, <2>2, <2>3 DEF AnchorInv
<1>11. ASSUME NEW r \in Reader, ReadFails(r) PROVE AnchorInv'
  <2>1. ReadTied(r)'
    BY <1>11 DEF AnchorInv, ReadFails, ReadTied, Numbers, Opened, winVars, NoOffset
  <2> QED BY <1>11, <2>1, ReadsAlone DEF ReadFails
<1>12. ASSUME NEW r \in Reader, NoMatch(r) PROVE AnchorInv'
  <2>1. ReadTied(r)'
    BY <1>12 DEF NoMatch, Forget, ReadTied, Numbers, NoTree
  <2> QED BY <1>12, <2>1, ReadsAlone DEF NoMatch, Forget
<1>13. ASSUME NEW r \in Reader, ReadDropped(r) PROVE AnchorInv'
  <2>1. ReadTied(r)'
    BY <1>13 DEF AnchorInv, ReadDropped, Forget, ReadTied, Numbers, Opened, winVars, NoTree
  <2> QED BY <1>13, <2>1, ReadsAlone DEF ReadDropped, Forget
<1>14. ASSUME NEW c \in Click, NEW i \in Index \cup {None}, ReadBounds(c, i) PROVE AnchorInv'
  <2>1. offset'[c] = bounds /\ UNCHANGED <<bounds, paired>>
    BY <1>14 DEF ReadBounds, cacheVars
  <2>2. disturbed'[c] <=> ~paired
    BY <1>14, Zenon DEF ReadBounds
  <2>3. /\ doing'[c] \in {"listing", "resolving"}
        /\ doing'[c] = "resolving" => bounds = NoOffset
    BY <1>14 DEF ReadBounds
  <2>4. ClickTied(c)'
    BY <2>1, <2>2, <2>3 DEF ClickTied, Busy, NoOffset
  <2> QED BY <1>14, <2>4, ClicksAlone DEF ReadBounds
<1>15. ASSUME NEW c \in Click, NEW L \in Listing, ListWindows(c, L) PROVE AnchorInv'
  <2>1. offset[c] \in [win : Window, org : Origin]
    BY <1>15 DEF ListWindows, StepInv, Offsets, NoOffset
  <2>2. /\ offset'[c].win = offset[c].win
        /\ offset'[c].org = FreshOrigin(offset[c], L)
    BY <1>15, <2>1 DEF ListWindows
  <2>3. /\ doing[c] = "listing"
        /\ doing'[c] = "resolving"
        /\ seen'[c] = L
        /\ UNCHANGED <<nodes, bounds, paired, disturbed>>
    BY <1>15 DEF ListWindows, cacheVars
  <2>4. L[offset[c].win] \in {Nowhere, FreshOrigin(offset[c], L)}
    BY DEF FreshOrigin
  <2>5. ASSUME ~disturbed[c]
        PROVE  paired /\ offset[c].win = bounds.win /\ Sees(L, nodes, offset[c].win)
    <3>1. paired /\ offset[c].win = bounds.win
      BY <2>3, <2>5 DEF AnchorInv, ClickTied, Busy
    <3>2. Tied(nodes, bounds.win)
      BY <2>1, <3>1 DEF AnchorInv, CacheTied
    <3>3. \A w \in Window : L[w] # Nowhere => w \notin closed
      BY DEF StepInv, Listing, Blank
    <3> QED BY <3>1, <3>2, <3>3 DEF Tied, Sees
  <2>6. ClickTied(c)'
    BY <2>2, <2>3, <2>4, <2>5 DEF ClickTied, Busy, Sees
  <2> QED BY <1>15, <2>6, ClicksAlone DEF ListWindows
<1>16. ASSUME NEW c \in Click, NEW e \in Element, Found(c, e) PROVE AnchorInv'
  <2>1. /\ doing[c] = "resolving" /\ doing'[c] = "aimed"
        /\ nodes[e] # None /\ hit'[c] = e
        /\ UNCHANGED <<offset, seen, disturbed>>
    BY <1>16 DEF Found
  <2>2. ASSUME ~disturbed[c], offset[c].win # None
        PROVE  seen[c][WindowOf[e]] \in {Nowhere, offset[c].org}
    BY <2>1, <2>2 DEF AnchorInv, ClickTied, Sees
  <2>3. ClickTied(c)'
    BY <2>1, <2>2 DEF ClickTied, Busy
  <2> QED BY <1>16, <2>3, ClicksAlone DEF Found
<1>17. ASSUME NEW c \in Click, ClickEnds(c) PROVE AnchorInv'
  <2>1. ClickTied(c)'
    BY <1>17 DEF ClickEnds, ClickTied, Busy
  <2> QED BY <1>17, <2>1, ClicksAlone DEF ClickEnds
<1>18. CASE UNCHANGED vars
  <2>1. ASSUME NEW q \in Reader PROVE ReadTied(q)'
    BY <1>18 DEF vars, AnchorInv, ReadTied, Numbers, Opened, Tied, winVars, readVars
  <2>2. CacheTied'
    BY <1>18 DEF vars, AnchorInv, CacheTied, Tied, cacheVars, winVars
  <2>3. ASSUME NEW c \in Click PROVE ClickTied(c)'
    BY <1>18 DEF vars, AnchorInv, ClickTied, Busy, Sees, cacheVars, clickVars
  <2> QED BY <2>1, <2>2, <2>3 DEF AnchorInv
<1> HIDE DEF TypeOK
<1> QED
  BY <1>1, <1>2, <1>3, <1>4, <1>5, <1>6, <1>7, <1>8, <1>9, <1>10, <1>11, <1>12, <1>13,
     <1>14, <1>15, <1>16, <1>17, <1>18
  DEF Next, Read, Resolve

-----------------------------------------------------------------------------
(* Nothing was read, numbered or stored at the start.                      *)
LEMMA InitHolds == Init => TypeOK /\ IInv
<1> SUFFICES ASSUME Init PROVE TypeOK /\ IInv
  OBVIOUS
<1> USE ElementCacheAssumption DEF Init
<1>1. TypeOK
  <2> USE DEF Index, Place, NoTree
  <2>1. at \in [Window -> Place]
    OBVIOUS
  <2>2. NoOffset \in Offsets /\ NoOffset \in [win : Window \cup {None}, org : Place]
    BY DEF Offsets, NoOffset
  <2>3. Blank \in [Window -> Place]
    BY DEF Blank
  <2>4. 0 \in Index
    OBVIOUS
  <2> QED BY <2>1, <2>2, <2>3, <2>4 DEF TypeOK
<1>2. IndexInv
  BY DEF IndexInv, Shown, NoTree, Index
<1>3. StepInv
  BY DEF StepInv, NoOffset
<1>4. AnchorInv
  <2>1. ASSUME NEW r \in Reader PROVE ReadTied(r)
    BY DEF ReadTied, Numbers, NoTree
  <2>2. CacheTied
    BY DEF CacheTied, NoOffset
  <2>3. ASSUME NEW c \in Click PROVE ClickTied(c)
    BY DEF ClickTied, Busy
  <2> QED BY <2>1, <2>2, <2>3 DEF AnchorInv
<1> QED BY <1>1, <1>2, <1>3, <1>4 DEF IInv

(* The type invariant, and with it what each step of a call has and has    *)
(* not, however the calls interleave and are dropped.                      *)
THEOREM TypeCorrect == Spec => [](TypeOK /\ StepInv)
<1>1. Init => TypeOK /\ StepInv
  BY InitHolds DEF IInv
<1>2. TypeOK /\ StepInv /\ [Next]_vars => TypeOK' /\ StepInv'
  BY TypeStep, StepKeepsStepInv
<1> QED BY <1>1, <1>2, PTL DEF Spec

(* For any sizes of the map and of the index, and any processes and        *)
(* windows: an index that was shown for an element never resolves to       *)
(* another (StableElementIndices, lines 72-129).                           *)
THEOREM IndicesAreForLife == Spec => []IndexForLife
<1>1. Init => IndexInv
  BY InitHolds DEF IInv
<1>2. TypeOK /\ StepInv /\ IndexInv /\ [Next]_vars => IndexInv'
  BY StepKeepsIndexInv
<1>3. IndexInv => IndexForLife
  BY DEF IndexInv, IndexForLife
<1> QED BY <1>1, <1>2, <1>3, TypeCorrect, PTL DEF Spec

(* With one window for each process: the inductive invariant.              *)
THEOREM Invariance ==
  ASSUME OneWindowPerProcess, AllNamed
  PROVE  Spec => []IInv
<1>1. Init => IInv
  BY InitHolds
<1>2. TypeOK /\ IInv /\ [Next]_vars => IInv'
  BY StepKeepsStepInv, StepKeepsIndexInv, StepKeepsAnchorInv DEF IInv
<1> QED BY <1>1, <1>2, TypeCorrect, PTL DEF Spec

(* With one window for each process: a click that applies an offset while  *)
(* nothing is stored applies the place of the window of its element        *)
(* (current_bounds() and fresh_bounds_offset(), lines 3872-3888 and        *)
(* 4641-4648).                                                             *)
THEOREM AimsAtItsWindow ==
  ASSUME OneWindowPerProcess, AllNamed
  PROVE  Spec => []UndisturbedAim
<1>1. IInv => UndisturbedAim
  BY DEF IInv, AnchorInv, ClickTied, UndisturbedAim
<1> QED BY <1>1, Invariance, PTL

(* Under the same two assumptions every state is well formed and its parts *)
(* agree.                                                                  *)
THEOREM Consistency ==
  ASSUME OneWindowPerProcess, AllNamed
  PROVE  Spec => []Consistent
  BY TypeCorrect, Invariance, PTL DEF Consistent
=============================================================================
