-------------------------- MODULE AppState_proofs ---------------------------
(***************************************************************************)
(* The proofs about AppState: for any number of requests, windows and      *)
(* objects, any tree, and any sizes of the display and of rectangles,      *)
(* whatever moves, comes, goes or fails meanwhile. In this order:          *)
(*   Agreement     pictures and clicks agree on where a pixel is           *)
(*   OwnPicture    a picture is the answer to its own request              *)
(*   TypesInv      types, and the sizes pictures are shrunk to             *)
(*   WalksInv      the shape of a tree that is being read                  *)
(*   TreesInv      a walk that nothing disturbs leaves nothing out         *)
(*   NotesInv      the note about what a picture does not show             *)
(*   LinksSuffice  what compaction keeps, and how it is linked             *)
(*   Consistency   all of it together                                      *)
(***************************************************************************)
EXTENDS AppState, FiniteSetTheorems, TLAPS

-----------------------------------------------------------------------------
(* The geometry of cropping.                                               *)
LEMMA MaxOfTwo ==
  \A a, b \in Int : Max({a, b}) = IF a >= b THEN a ELSE b
<1> SUFFICES ASSUME NEW a \in Int, NEW b \in Int
             PROVE  Max({a, b}) = IF a >= b THEN a ELSE b
  OBVIOUS
<1> DEFINE m == IF a >= b THEN a ELSE b
<1>1. m \in {a, b} /\ \A y \in {a, b} : m >= y
  OBVIOUS
<1>2. \A x \in {a, b} : (\A y \in {a, b} : x >= y) => x = m
  OBVIOUS
<1> QED BY <1>1, <1>2 DEF Max

LEMMA MinOfTwo ==
  \A a, b \in Int : Min({a, b}) = IF a <= b THEN a ELSE b
<1> SUFFICES ASSUME NEW a \in Int, NEW b \in Int
             PROVE  Min({a, b}) = IF a <= b THEN a ELSE b
  OBVIOUS
<1> DEFINE m == IF a <= b THEN a ELSE b
<1>1. m \in {a, b} /\ \A y \in {a, b} : m <= y
  OBVIOUS
<1>2. \A x \in {a, b} : (\A y \in {a, b} : x <= y) => x = m
  OBVIOUS
<1> QED BY <1>1, <1>2 DEF Min

Rectangles == [at : Int, size : Int]

(* What is left of a rectangle is a part of it that is on the desktop.     *)
LEMMA ClipIsWithin ==
  ASSUME NEW rect \in Rectangles, NEW d \in Nat, Clip(rect, d) # NoRect
  PROVE  LET r == Clip(rect, d)
         IN  /\ r \in Rectangles /\ r.at >= 0 /\ r.size > 0
             /\ r.at >= rect.at /\ r.at + r.size <= rect.at + rect.size
             /\ r.at + r.size <= d
<1> DEFINE e  == rect.at + rect.size
           lo == Max({rect.at, 0})
           hi == Min({e, d})
<1>1. rect.at \in Int /\ rect.size \in Int /\ e \in Int /\ d \in Int
  BY DEF Rectangles
<1>2. lo = IF rect.at >= 0 THEN rect.at ELSE 0
  BY <1>1, MaxOfTwo
<1>3. hi = IF e <= d THEN e ELSE d
  BY <1>1, MinOfTwo
<1>4. Clip(rect, d) = IF hi <= lo THEN NoRect ELSE [at |-> lo, size |-> hi - lo]
  BY DEF Clip, Between
<1> HIDE DEF lo, hi
<1>5. hi > lo /\ Clip(rect, d) = [at |-> lo, size |-> hi - lo]
  BY <1>1, <1>2, <1>3, <1>4
<1> QED BY <1>1, <1>2, <1>3, <1>5 DEF Rectangles

(* A region that is not refused is within the picture, and is the part of  *)
(* the region that is in it.                                               *)
LEMMA RegionIsWithin ==
  ASSUME NEW region \in [at : Int, size : Nat], NEW relative \in BOOLEAN,
         NEW box \in Rectangles, NEW n \in Nat,
         RegionCrop(region, relative, box, n) # NoRect
  PROVE  LET g == RegionCrop(region, relative, box, n)
         IN  /\ g \in Rectangles /\ g.at >= 0 /\ g.size > 0 /\ g.at + g.size <= n
             /\ relative => g.at = Max({region.at, 0})
             /\ ~relative => /\ g.at >= region.at - box.at
                             /\ g.at + g.size <= region.at - box.at + region.size
<1> DEFINE at == region.at + (IF relative THEN box.at ELSE 0) - box.at
           e  == at + region.size
           lo == Max({at, 0})
           hi == Min({e, n})
<1>1. region.at \in Int /\ region.size \in Int /\ box.at \in Int /\ n \in Int
  BY DEF Rectangles
<1>2. /\ at \in Int /\ e \in Int
      /\ at = IF relative THEN region.at ELSE region.at - box.at
  BY <1>1
<1>3. e = at + region.size
  OBVIOUS
<1>4. RegionCrop(region, relative, box, n) = IF hi <= lo THEN NoRect
                                               ELSE [at |-> lo, size |-> hi - lo]
  BY DEF RegionCrop, Between
<1> HIDE DEF at, e
<1>5. lo = IF at >= 0 THEN at ELSE 0
  BY <1>2, MaxOfTwo
<1>6. hi = IF e <= n THEN e ELSE n
  BY <1>1, <1>2, MinOfTwo
<1>7. relative => lo = Max({region.at, 0})
  BY <1>2
<1> HIDE DEF lo, hi
<1>8. hi > lo /\ RegionCrop(region, relative, box, n) = [at |-> lo, size |-> hi - lo]
  BY <1>1, <1>2, <1>4, <1>5, <1>6
<1> QED BY <1>1, <1>2, <1>3, <1>5, <1>6, <1>7, <1>8 DEF Rectangles

(* A rectangle that is within a picture is cut out as it is.               *)
LEMMA CropIsExact ==
  ASSUME NEW from, NEW size, NEW p, p.from = from, p.size = size,
         from \in Int, size \in Int, NEW rect \in Rectangles,
         rect.at >= 0, rect.size > 0, rect.at + rect.size <= size
  PROVE  CropPng(p, rect) = [from |-> from + rect.at, size |-> rect.size]
<1>1. rect.at \in Int /\ rect.size \in Int
  BY DEF Rectangles
<1>2. Max({rect.at, 0}) = rect.at
  BY <1>1, MaxOfTwo
<1>3. size - rect.at \in Int /\ rect.size <= size - rect.at /\ rect.at < size
  BY <1>1
<1>4. Min({rect.size, size - rect.at}) = rect.size
  BY <1>1, <1>3, MinOfTwo
<1>5. ~(rect.at >= size)
  BY <1>1
<1>6. CropPng(p, rect) = IF rect.at >= size THEN [from |-> from, size |-> 0]
                         ELSE [from |-> from + rect.at,
                               size |-> Min({rect.size, size - rect.at})]
  BY <1>2 DEF CropPng
<1> QED BY <1>4, <1>5, <1>6

-----------------------------------------------------------------------------
(* What a window is cropped to, and what the picture of a request shows    *)
(* once it has been cut: everything that PixelsAgree speaks of, for the    *)
(* size of its own capture.                                                *)
Frame(c) == Clip(win[c].place, raw[c])

Agrees(c) ==
  /\ raw[c] \in Desktops
  /\ picture[c].from \in Int /\ picture[c].size \in Int /\ picture[c].size > 0
  /\ CropsToWindow(c) \/ ask[c].region # None =>
       crop[c] = [at |-> picture[c].from, size |-> picture[c].size]
  /\ Targeted(c) /\ ~ask[c].full => CropsToWindow(c)
  /\ CropsToWindow(c) =>
       /\ Frame(c) \in Rectangles /\ Frame(c).at >= win[c].place.at
       /\ Frame(c).at + Frame(c).size <= win[c].place.at + win[c].place.size
       /\ picture[c].from >= Frame(c).at
       /\ picture[c].from + picture[c].size <= Frame(c).at + Frame(c).size
       /\ ask[c].region = None =>
            picture[c].from = Frame(c).at /\ picture[c].size = Frame(c).size
       /\ ask[c].region # None /\ ask[c].relative =>
            picture[c].from = Frame(c).at + Max({ask[c].region.at, 0})
  /\ ask[c].region # None /\ ~ask[c].relative =>
       /\ picture[c].from >= ask[c].region.at
       /\ picture[c].from + picture[c].size <= ask[c].region.at + ask[c].region.size

Capturing == {"subscribe", "call", "handle", "wait"}
Later == {"roots", "walk", "kids", "end"}

(* A picture is whole until it is cut; a screenshot of a window has found  *)
(* the window by then; and what was cut stays as it is.                    *)
PictureInv(c) ==
  /\ win[c] \in Listings \cup {None}
  /\ heard[c] \in Seq(Response) \cup {None}
  /\ pc[c] \in {"call", "handle", "wait"} => heard[c] \in Seq(Response)
  /\ pc[c] = "crop" => picture[c].from = 0 /\ picture[c].size = raw[c] /\ raw[c] \in Desktops
  /\ pc[c] \in Capturing \cup {"crop"} /\ ToolOf(c) # "state" /\ Targeted(c) => win[c] # None
  /\ pc[c] = "filter" => ToolOf(c) = "state"
  /\ shot[c] = "done" => pc[c] \in Later
  /\ pc[c] = "fit" \/ shot[c] = "done" => Agrees(c)

Shapes ==
  /\ desk \in [Window -> Views] /\ display \in Desktops /\ ask \in Plans
  /\ pc \in [Call -> Step]
  /\ DOMAIN win = Call /\ DOMAIN heard = Call /\ DOMAIN raw = Call /\ DOMAIN crop = Call
  /\ DOMAIN shot = Call /\ DOMAIN dims = Call
  /\ picture \in [Call -> [of : Call \cup {None}, from : Int, size : Int]]

CaptureInv == Shapes /\ \A c \in Call : PictureInv(c)

-----------------------------------------------------------------------------
LEMMA RequestType ==
  ASSUME ask \in Plans, NEW c \in Call
  PROVE  /\ ask[c].target \in Window \cup {None}
         /\ ask[c].region \in [at : Int, size : Nat] \cup {None}
         /\ ask[c].full \in BOOLEAN /\ ask[c].relative \in BOOLEAN
<1>1. ask[c] \in Requests
  BY AppStateAssumption
<1> QED BY <1>1 DEF Requests

LEMMA PlaceType ==
  ASSUME NEW r \in Listings
  PROVE  r.place \in [at : Int, size : Nat]
<1>1. PICK w \in Window : r.place \in Places[w]
  BY AppStateAssumption DEF Listings, Range
<1> QED BY <1>1, AppStateAssumption

LEMMA ListedType ==
  ASSUME desk \in [Window -> Views], NEW w \in Window
  PROVE  Listed(w) \in Listings
<1>1. desk[w].place \in UNION Range(Places) /\ desk[w].hidden \in BOOLEAN
  BY DEF Views
<1> QED BY <1>1 DEF Listed, Listings

(* What is cut out of a picture agrees with what is reported of it.        *)
LEMMA CutAgrees ==
  ASSUME NEW c \in Call, Shapes, PictureInv(c), pc[c] = "crop", Fits(c),
         picture' = [picture EXCEPT ![c].from = Cut(c).from, ![c].size = Cut(c).size],
         crop' = [crop EXCEPT ![c] = IF ask[c].region = None THEN Rect(c)
                                     ELSE Shifted(Region(c), Rect(c).at)],
         ask' = ask, win' = win, raw' = raw
  PROVE  /\ Agrees(c)'
         /\ Cut(c).from \in Nat /\ Cut(c).size \in Nat
         /\ crop'[c] \in [at : Nat, size : Nat]
<1> DEFINE R == Rect(c)
           W == OfWindow(c)
           K == Cut(c)
           reg == ask[c].region
<1>1. /\ picture[c].from = 0 /\ picture[c].size = raw[c]
      /\ raw[c] \in Nat /\ raw[c] > 0
  BY AppStateAssumption DEF PictureInv
<1>2. /\ reg \in [at : Int, size : Nat] \cup {None}
      /\ ask[c].relative \in BOOLEAN
  BY RequestType DEF Shapes
<1>3. CropsToWindow(c) => win[c].place \in [at : Int, size : Nat]
  BY PlaceType DEF PictureInv, CropsToWindow
<1>4. CropsToWindow(c) =>
        /\ R = Frame(c) /\ R \in Rectangles /\ R.at >= 0 /\ R.size > 0
        /\ R.at >= win[c].place.at
        /\ R.at + R.size <= win[c].place.at + win[c].place.size
        /\ W = [from |-> R.at, size |-> R.size]
  <2> SUFFICES ASSUME CropsToWindow(c)
               PROVE  /\ R = Frame(c) /\ R \in Rectangles /\ R.at >= 0 /\ R.size > 0
                      /\ R.at >= win[c].place.at
                      /\ R.at + R.size <= win[c].place.at + win[c].place.size
                      /\ W = [from |-> R.at, size |-> R.size]
    OBVIOUS
  <2>1. R = Clip(win[c].place, raw[c]) /\ R = Frame(c)
    BY DEF Rect, Frame
  <2>2. R # NoRect
    BY DEF Fits
  <2>3. win[c].place \in Rectangles
    BY <1>3 DEF Rectangles
  <2>4. /\ R \in Rectangles /\ R.at >= 0 /\ R.size > 0 /\ R.at >= win[c].place.at
        /\ R.at + R.size <= win[c].place.at + win[c].place.size
        /\ R.at + R.size <= raw[c]
    BY <1>1, <2>1, <2>2, <2>3, ClipIsWithin
  <2>5. CropPng(picture[c], R) = [from |-> 0 + R.at, size |-> R.size]
    BY <1>1, <2>4, CropIsExact
  <2>6. 0 + R.at = R.at
    BY <2>4 DEF Rectangles
  <2>7. W = CropPng(picture[c], R)
    BY DEF OfWindow
  <2> QED BY <2>1, <2>4, <2>5, <2>6, <2>7
<1>5. ~CropsToWindow(c) => R = [at |-> 0, size |-> 0] /\ W.from = 0 /\ W.size = raw[c]
  BY <1>1 DEF Rect, NoRect, OfWindow
<1>6. /\ R \in Rectangles /\ R.at \in Nat /\ R.size \in Nat
      /\ W.from = R.at /\ W.size \in Nat /\ W.size > 0
      /\ CropsToWindow(c) => W.size = R.size
  <2>1. CASE CropsToWindow(c)
    BY <1>4, <2>1 DEF Rectangles
  <2>2. CASE ~CropsToWindow(c)
    BY <1>1, <1>5, <2>2 DEF Rectangles
  <2> QED BY <2>1, <2>2
<1>7. Targeted(c) /\ ~ask[c].full => CropsToWindow(c)
  BY DEF Fits, Visible, CropsToWindow, PictureInv
<1> HIDE DEF R, W, K
<1>8. CASE reg = None
  <2>1. K = W
    BY <1>8 DEF Cut, K, W
  <2>2. K.from \in Nat /\ K.size \in Nat
    BY <1>6, <2>1
  <2>3. picture'[c].from = R.at /\ picture'[c].size = W.size /\ crop'[c] = R
    BY <1>6, <1>8, <2>1 DEF Shapes, K, R
  <2>c. crop'[c] \in [at : Nat, size : Nat]
    BY <1>6, <2>3 DEF Rectangles
  <2>4. CropsToWindow(c) => crop'[c] = [at |-> picture'[c].from, size |-> picture'[c].size]
    BY <1>6, <2>3 DEF Rectangles
  <2>5. /\ picture'[c].from \in Int /\ picture'[c].size \in Int /\ picture'[c].size > 0
        /\ picture'[c].from >= R.at
        /\ CropsToWindow(c) =>
             /\ picture'[c].size = R.size
             /\ picture'[c].from + picture'[c].size <= R.at + R.size
    BY <1>6, <2>3
  <2> QED BY <1>4, <1>7, <1>8, <2>2, <2>3, <2>4, <2>5, <2>c
          DEF Agrees, Frame, CropsToWindow, Targeted, PictureInv, K
<1>9. CASE reg # None
  <2> DEFINE g == Region(c)
  <2>1. g # NoRect /\ g = RegionCrop(reg, ask[c].relative, R, W.size)
    BY <1>9 DEF Fits, Region, R, W
  <2> DEFINE asked == reg
             rel   == ask[c].relative
             wide  == W.size
  <2>a. /\ asked \in [at : Int, size : Nat] /\ rel \in BOOLEAN /\ wide \in Nat
        /\ R \in Rectangles /\ RegionCrop(asked, rel, R, wide) # NoRect
        /\ g = RegionCrop(asked, rel, R, wide)
    BY <1>2, <1>6, <1>9, <2>1
  <2> HIDE DEF g, asked, rel, wide
  <2>b. /\ g \in Rectangles /\ g.at >= 0 /\ g.size > 0 /\ g.at + g.size <= wide
        /\ rel => g.at = Max({asked.at, 0})
        /\ ~rel => /\ g.at >= asked.at - R.at
                   /\ g.at + g.size <= asked.at - R.at + asked.size
    BY <2>a, RegionIsWithin
  <2>2. /\ g \in Rectangles /\ g.at >= 0 /\ g.size > 0 /\ g.at + g.size <= W.size
        /\ ask[c].relative => g.at = Max({reg.at, 0})
        /\ ~ask[c].relative => /\ g.at >= reg.at - R.at
                               /\ g.at + g.size <= reg.at - R.at + reg.size
    BY <2>b DEF asked, rel, wide
  <2>3. g.at \in Int /\ g.size \in Int /\ reg.at \in Int /\ reg.size \in Int
    BY <1>2, <1>9, <2>2 DEF Rectangles
  <2>4. CropPng(W, g) = [from |-> R.at + g.at, size |-> g.size]
    BY <1>6, <2>2, CropIsExact
  <2>5. K = [from |-> R.at + g.at, size |-> g.size]
    BY <1>9, <2>4 DEF K, Cut, W, g
  <2>6. K.from \in Nat /\ K.size \in Nat
    BY <1>6, <2>2, <2>3, <2>5
  <2>7. picture'[c].from = R.at + g.at /\ picture'[c].size = g.size
    BY <2>5 DEF Shapes, K
  <2>8. crop'[c] = [at |-> g.at + R.at, size |-> g.size]
    BY <1>9, <2>2 DEF Shapes, Shifted, Rectangles, R, g
  <2>9. g.at + R.at = R.at + g.at /\ g.at + R.at \in Nat /\ g.size \in Nat
    BY <1>6, <2>2, <2>3
  <2>c. crop'[c] \in [at : Nat, size : Nat]
    BY <2>8, <2>9
  <2>10. crop'[c] = [at |-> picture'[c].from, size |-> picture'[c].size]
    BY <2>7, <2>8, <2>9
  <2>11. /\ picture'[c].from \in Int /\ picture'[c].size \in Int /\ picture'[c].size > 0
         /\ picture'[c].from >= R.at
         /\ CropsToWindow(c) => picture'[c].from + picture'[c].size <= R.at + R.size
         /\ ~ask[c].relative =>
              /\ picture'[c].from >= reg.at
              /\ picture'[c].from + picture'[c].size <= reg.at + reg.size
    BY <1>6, <2>2, <2>3, <2>7
  <2>12. ask[c].relative => picture'[c].from = R.at + Max({reg.at, 0})
    BY <2>2, <2>7
  <2> QED BY <1>4, <1>7, <1>9, <2>6, <2>10, <2>11, <2>12, <2>c
          DEF Agrees, Frame, CropsToWindow, Targeted, PictureInv, K
<1> QED BY <1>8, <1>9

-----------------------------------------------------------------------------
(* A click on a pixel of the rectangle lands there, any other is refused.  *)
LEMMA ClickLands ==
  ASSUME NEW map \in Rectangles, NEW r \in Int
  PROVE  /\ r >= 0 /\ r < map.size => RelativeClick(map, r) = {map.at + r}
         /\ r >= map.size => RelativeClick(map, r) = {}
<1>1. map.size \in Int
  BY DEF Rectangles
<1>2. CASE r >= 0 /\ r < map.size
  <2>1. {r} \cap (0..(map.size - 1)) = {r}
    BY <1>1, <1>2
  <2> QED BY <1>1, <1>2, <2>1 DEF RelativeClick
<1>3. CASE r >= map.size
  <2>1. {r} \cap (0..(map.size - 1)) = {}
    BY <1>1, <1>3
  <2> QED BY <1>1, <1>3, <2>1 DEF RelativeClick
<1> QED BY <1>1, <1>2, <1>3

LEMMA AgreementSuffices ==
  ASSUME CaptureInv
  PROVE  PixelsAgree
<1> SUFFICES ASSUME NEW c \in Call, pc[c] = "fit" \/ shot[c] = "done"
    PROVE
      LET map == ClickMap(win[c].place, desktopSize)
          first == IF ask[c].region = None THEN 0 ELSE Max({ask[c].region.at, 0})
      IN  /\ picture[c].size > 0
          /\ CropsToWindow(c) \/ ask[c].region # None =>
               crop[c] = [at |-> picture[c].from, size |-> picture[c].size]
          /\ Targeted(c) /\ ~ask[c].full =>
               /\ CropsToWindow(c)
               /\ ShownAt(c) \subseteq Extent(win[c].place)
               /\ desktopSize = raw[c] =>
                    /\ ask[c].region = None \/ ask[c].relative =>
                         \A r \in 0..(picture[c].size - 1) :
                           RelativeClick(map, first + r) = {picture[c].from + r}
                    /\ ask[c].region = None =>
                         RelativeClick(map, picture[c].size) = {}
          /\ ask[c].region # None /\ ~ask[c].relative =>
               ShownAt(c) \subseteq Extent(ask[c].region)
  BY DEF PixelsAgree
<1> DEFINE map   == ClickMap(win[c].place, desktopSize)
           first == IF ask[c].region = None THEN 0 ELSE Max({ask[c].region.at, 0})
           from  == picture[c].from
           size  == picture[c].size
           reg   == ask[c].region
<1>1. Agrees(c) /\ from \in Int /\ size \in Int /\ size > 0
  BY DEF CaptureInv, PictureInv, Agrees
<1>2. reg \in [at : Int, size : Nat] \cup {None}
  BY RequestType DEF CaptureInv, Shapes
<1>3. CropsToWindow(c) => win[c].place \in [at : Int, size : Nat]
  BY PlaceType DEF CaptureInv, PictureInv, CropsToWindow
<1>4. reg # None => reg.at \in Int /\ reg.size \in Int
  BY <1>2
<1>5. first \in Int /\ first >= 0 /\ (reg = None => first = 0)
  <2>1. reg # None => Max({reg.at, 0}) = IF reg.at >= 0 THEN reg.at ELSE 0
    BY <1>4, MaxOfTwo
  <2> QED BY <1>4, <2>1
<1>6. CropsToWindow(c) =>
        /\ win[c].place.at \in Int /\ win[c].place.size \in Int
        /\ Frame(c) \in Rectangles /\ Frame(c).at \in Int /\ Frame(c).size \in Int
  BY <1>1, <1>3 DEF Agrees, Rectangles
<1>7. CropsToWindow(c) => ShownAt(c) \subseteq Extent(win[c].place)
  BY <1>1, <1>6 DEF Agrees, ShownAt, Extent
<1>8. reg # None /\ ~ask[c].relative => ShownAt(c) \subseteq Extent(reg)
  BY <1>1, <1>4 DEF Agrees, ShownAt, Extent
<1>9. desktopSize = raw[c] => map = Frame(c)
  BY <1>1, AppStateAssumption DEF Agrees, ClickMap, Frame
<1>10. ASSUME CropsToWindow(c), reg = None \/ ask[c].relative, desktopSize = raw[c],
              NEW r \in 0..(size - 1)
       PROVE  RelativeClick(map, first + r) = {from + r}
  <2> DEFINE at   == first + r
             rect == Frame(c)
  <2>1. from = rect.at + first /\ from + size <= rect.at + rect.size
    BY <1>1, <1>5, <1>6, <1>10 DEF Agrees
  <2>2. rect \in Rectangles /\ rect.at \in Int /\ rect.size \in Int /\ map = rect
    BY <1>6, <1>9, <1>10
  <2>3. at \in Int /\ at >= 0 /\ at < rect.size /\ rect.at + at = from + r
    BY <1>1, <1>5, <1>10, <2>1, <2>2
  <2> HIDE DEF at, rect, map
  <2>4. RelativeClick(rect, at) = {rect.at + at}
    BY <2>2, <2>3, ClickLands
  <2> QED BY <2>2, <2>3, <2>4 DEF at
<1>11. CropsToWindow(c) /\ reg = None /\ desktopSize = raw[c] => RelativeClick(map, size) = {}
  <2> SUFFICES ASSUME CropsToWindow(c), reg = None, desktopSize = raw[c]
               PROVE  RelativeClick(map, size) = {}
    OBVIOUS
  <2>1. map \in Rectangles /\ map.size = size
    BY <1>1, <1>6, <1>9 DEF Agrees
  <2> HIDE DEF map, size
  <2> QED BY <1>1, <2>1, ClickLands
<1> QED BY <1>1, <1>7, <1>8, <1>10, <1>11 DEF Agrees

-----------------------------------------------------------------------------
LEMMA InitCapture == Init => CaptureInv
<1> SUFFICES ASSUME Init PROVE CaptureInv
  OBVIOUS
<1>1. Shapes
  BY AppStateAssumption DEF Init, Shapes, Step, NoPicture
<1>2. ASSUME NEW c \in Call PROVE PictureInv(c)
  BY <1>2 DEF Init, PictureInv, Capturing, ToolOf
<1> QED BY <1>1, <1>2 DEF CaptureInv

(* A request keeps the invariant when its own picture, rectangle and       *)
(* window stay, and it comes neither to a picture nor to a step that       *)
(* promises more than the one before.                                      *)
LEMMA GoesOn ==
  ASSUME CaptureInv, NEW c \in Call,
         ask' = ask, win'[c] = win[c], raw'[c] = raw[c], picture'[c] = picture[c],
         crop'[c] = crop[c],
         heard'[c] \in Seq(Response) \cup {None},
         pc'[c] \in {"call", "handle", "wait"} => heard'[c] \in Seq(Response),
         pc'[c] = "crop" => pc[c] = "crop",
         pc'[c] = "filter" => pc[c] = "filter",
         pc'[c] \in Capturing => pc[c] \in Capturing \/ ToolOf(c) = "state",
         shot'[c] = "done" => pc'[c] \in Later,
         pc'[c] = "fit" \/ shot'[c] = "done" => pc[c] = "fit" \/ shot[c] = "done"
  PROVE  PictureInv(c)'
<1>1. PictureInv(c)
  BY DEF CaptureInv
<1>2. /\ CropsToWindow(c)' = CropsToWindow(c) /\ Targeted(c)' = Targeted(c)
      /\ ToolOf(c)' = ToolOf(c)
  BY DEF CropsToWindow, Targeted, ToolOf
<1>3. Frame(c)' = Frame(c)
  BY DEF Frame
<1>4. Agrees(c) => Agrees(c)'
  BY <1>2, <1>3 DEF Agrees
<1> QED BY <1>1, <1>2, <1>4 DEF PictureInv

LEMMA StaysPut ==
  ASSUME CaptureInv, NEW c \in Call,
         ask' = ask, pc'[c] = pc[c], win'[c] = win[c], raw'[c] = raw[c],
         picture'[c] = picture[c], crop'[c] = crop[c], shot'[c] = shot[c],
         heard'[c] = heard[c]
  PROVE  PictureInv(c)'
<1>1. PictureInv(c)
  BY DEF CaptureInv
<1> QED BY <1>1, GoesOn DEF PictureInv

(* One request moves and changes nothing of any other.                     *)
Alone(c) ==
  \A d \in Call \ {c} :
    /\ pc'[d] = pc[d] /\ win'[d] = win[d] /\ raw'[d] = raw[d]
    /\ picture'[d] = picture[d] /\ crop'[d] = crop[d] /\ shot'[d] = shot[d]
    /\ heard'[d] = heard[d]

LEMMA OneMoves ==
  ASSUME CaptureInv, NEW c \in Call, Shapes', ask' = ask, Alone(c), PictureInv(c)'
  PROVE  CaptureInv'
<1>1. ASSUME NEW d \in Call, d # c PROVE PictureInv(d)'
  BY <1>1, StaysPut DEF Alone
<1> QED BY <1>1 DEF CaptureInv

LEMMA NextStep == Step = {"look", "filter"} \cup Capturing \cup {"crop", "fit"} \cup Later
  BY DEF Step, Capturing, Later

(* The end of a picture that is not "done".                                *)
LEMMA PictureIsLost ==
  ASSUME CaptureInv, NEW c \in Call, NEW how \in {"failed", "refused"}, PictureEnds(c, how),
         raw' = raw, picture' = picture, crop' = crop, DOMAIN dims' = Call,
         heard' = [heard EXCEPT ![c] = None] \/ heard' = heard,
         desk' = desk, display' \in Desktops
  PROVE  CaptureInv'
<1>1. AfterPicture(c) \in {"roots", "end"}
  BY DEF AfterPicture
<1>2. /\ pc' = [pc EXCEPT ![c] = AfterPicture(c)] /\ shot' = [shot EXCEPT ![c] = how]
      /\ ask' = ask /\ win' = win
  BY DEF PictureEnds, Goto
<1>3. Shapes'
  BY <1>1, <1>2, NextStep DEF CaptureInv, Shapes, Later
<1>4. Alone(c)
  BY <1>2 DEF Alone, CaptureInv, Shapes
<1>5. /\ pc'[c] \in {"roots", "end"} /\ shot'[c] = how
      /\ heard'[c] \in Seq(Response) \cup {None}
  BY <1>1, <1>2 DEF CaptureInv, Shapes, PictureInv
<1>6. PictureInv(c)'
  BY <1>2, <1>5, GoesOn DEF Capturing, Later
<1> QED BY <1>2, <1>3, <1>4, <1>6, OneMoves

-----------------------------------------------------------------------------
(* The steps of a request, kind by kind. Reading the tree, and waiting for *)
(* its turn, leaves the picture alone.                                     *)
LEMMA PlainMove ==
  ASSUME CaptureInv, NEW c \in Call, NEW s \in Step,
         pc' = [pc EXCEPT ![c] = s], Still,
         UNCHANGED <<ask, win, heard, raw, picture, crop, dims, shot>>,
         \/ pc[c] \in Later /\ s \in Later
         \/ pc[c] = "call" /\ s = "handle"
         \/ pc[c] = "handle" /\ s = "wait"
         \/ pc[c] = "filter" /\ s \in {"subscribe", "roots", "end"}
  PROVE  CaptureInv'
<1>1. Shapes'
  BY DEF CaptureInv, Shapes, Still, worldVars
<1>2. Alone(c)
  BY DEF Alone, CaptureInv, Shapes
<1>3. pc'[c] = s /\ PictureInv(c)
  BY DEF CaptureInv, Shapes
<1>4. /\ heard'[c] = heard[c] /\ shot'[c] = shot[c] /\ win'[c] = win[c]
      /\ raw'[c] = raw[c] /\ picture'[c] = picture[c] /\ crop'[c] = crop[c]
  OBVIOUS
<1>5. PictureInv(c)'
  BY <1>3, <1>4, GoesOn DEF PictureInv, Capturing, Later
<1> QED BY <1>1, <1>2, <1>5, OneMoves

LEMMA TreeKeepsCapture ==
  ASSUME CaptureInv, NEW c \in Call,
         Roots(c) \/ Open(c) \/ ReadChild(c) \/ Push(c) \/ WalkEnds(c) \/ TreeTimeout(c)
  PROVE  CaptureInv'
<1>1. Still /\ UNCHANGED <<ask, win, heard, raw, picture, crop, dims, shot>>
  BY DEF Roots, Open, ReadChild, Push, WalkEnds, TreeTimeout, pictureVars
<1>2. pc \in [Call -> Step]
  BY DEF CaptureInv, Shapes
<1>3. PICK s \in Later : pc[c] \in Later /\ pc' = [pc EXCEPT ![c] = s]
  <2>1. CASE Roots(c)
    BY <1>2, <2>1 DEF Roots, Goto, Later
  <2>2. CASE Open(c)
    BY <1>2, <2>2 DEF Open, Goto, Later
  <2>3. CASE ReadChild(c)
    BY <1>2, <2>3 DEF ReadChild, Goto, Later
  <2>4. CASE Push(c)
    BY <1>2, <2>4 DEF Push, Goto, Later
  <2>5. CASE WalkEnds(c)
    BY <1>2, <2>5 DEF WalkEnds, Goto, Later
  <2>6. CASE TreeTimeout(c)
    BY <1>2, <2>6 DEF TreeTimeout, Goto, Later
  <2> QED BY <2>1, <2>2, <2>3, <2>4, <2>5, <2>6
<1> QED BY <1>1, <1>3, NextStep, PlainMove

LEMMA WaitingKeepsCapture ==
  ASSUME CaptureInv, NEW c \in Call, Filter(c) \/ CallPortal(c) \/ TakeHandle(c)
  PROVE  CaptureInv'
<1>1. Still /\ UNCHANGED <<ask, win, heard, raw, picture, crop, dims, shot>>
  BY DEF Filter, CallPortal, TakeHandle, Still, pictureVars
<1>2. CASE Filter(c)
  <2>1. PICK s \in {"subscribe", "roots", "end"} :
          pc[c] = "filter" /\ pc' = [pc EXCEPT ![c] = s]
    BY <1>2 DEF Filter, Goto
  <2> QED BY <1>1, <2>1, PlainMove DEF Step
<1>3. CASE CallPortal(c)
  <2>1. pc[c] = "call" /\ pc' = [pc EXCEPT ![c] = "handle"]
    BY <1>3 DEF CallPortal, Goto
  <2> QED BY <1>1, <2>1, PlainMove DEF Step
<1>4. CASE TakeHandle(c)
  <2>1. pc[c] = "handle" /\ pc' = [pc EXCEPT ![c] = "wait"]
    BY <1>4 DEF TakeHandle, Goto
  <2> QED BY <1>1, <2>1, PlainMove DEF Step
<1> QED BY <1>2, <1>3, <1>4

LEMMA LookKeepsCapture ==
  ASSUME CaptureInv, NEW c \in Call, LookForState(c) \/ LookForShot(c)
  PROVE  CaptureInv'
<1> DEFINE w == ask[c].target
<1>1. /\ pc \in [Call -> Step] /\ desk \in [Window -> Views] /\ ask \in Plans
      /\ DOMAIN win = Call /\ DOMAIN shot = Call /\ PictureInv(c) /\ pc[c] = "look"
  BY DEF CaptureInv, Shapes, LookForState, LookForShot
<1>2. shot[c] # "done"
  BY <1>1 DEF PictureInv, Later
<1>3. Targeted(c) => w \in Window /\ Listed(w) \in Listings
  BY <1>1, RequestType, ListedType DEF Targeted
<1>4. UNCHANGED <<display, ask, heard, raw, picture, crop, dims>>
  BY DEF LookForState, LookForShot, worldVars, pictureVars
<1>5. CASE LookForState(c)
  <2>1. /\ pc' = [pc EXCEPT ![c] = "filter"] /\ desk' = desk /\ shot' = shot
        /\ ToolOf(c) = "state"
        /\ win' = win \/ win' = [win EXCEPT ![c] = IF Targeted(c) THEN Listed(w) ELSE None]
    BY <1>5 DEF LookForState, Goto, worldVars, pictureVars
  <2>2. Shapes'
    BY <1>4, <2>1, NextStep DEF CaptureInv, Shapes
  <2>3. Alone(c)
    BY <1>1, <1>4, <2>1 DEF Alone
  <2>4. win'[c] \in Listings \cup {None}
    BY <1>1, <1>3, <2>1 DEF PictureInv
  <2>5. pc'[c] = "filter" /\ shot'[c] # "done" /\ heard'[c] = heard[c] /\ ToolOf(c)' = "state"
    BY <1>1, <1>2, <1>4, <2>1 DEF ToolOf
  <2>6. PictureInv(c)'
    BY <1>1, <2>4, <2>5 DEF PictureInv, Capturing
  <2> QED BY <1>4, <2>2, <2>3, <2>6, OneMoves
<1>6. CASE LookForShot(c)
  <2> DEFINE seen == [Listed(w) EXCEPT !.focused = ask[c].raise \/ @, !.hidden = FALSE]
  <2>1. PICK s \in {"subscribe", "end"} :
          /\ pc' = [pc EXCEPT ![c] = s]
          /\ \/ ~Targeted(c) /\ win' = win /\ desk' = desk /\ shot' = shot
             \/ /\ Targeted(c) /\ win' = [win EXCEPT ![c] = seen]
                /\ desk' = [desk EXCEPT ![w].hidden = FALSE] /\ shot' = shot
             \/ /\ s = "end" /\ win' = win /\ desk' = desk
                /\ shot' = [shot EXCEPT ![c] = "refused"]
    BY <1>6 DEF LookForShot, Goto
  <2>2. ToolOf(c) = "shot" /\ ToolOf(c)' = "shot" /\ Targeted(c)' = Targeted(c)
    BY <1>4, <1>6 DEF LookForShot, ToolOf, Targeted
  <2>3. Targeted(c) => seen \in Listings /\ [desk EXCEPT ![w].hidden = FALSE] \in [Window -> Views]
    <3> SUFFICES ASSUME Targeted(c)
                 PROVE  seen \in Listings /\ [desk EXCEPT ![w].hidden = FALSE] \in [Window -> Views]
      OBVIOUS
    <3>1. w \in Window /\ Listed(w) \in Listings /\ ask[c].raise \in BOOLEAN
      BY <1>1, <1>3, AppStateAssumption DEF Requests
    <3>2. DEFINE f == ask[c].raise \/ Listed(w).focused
    <3>3. f \in BOOLEAN
      BY <3>1 DEF Listings
    <3>4. seen = [Listed(w) EXCEPT !.focused = f, !.hidden = FALSE]
      OBVIOUS
    <3> HIDE DEF f
    <3>5. seen \in Listings
      BY <3>1, <3>3, <3>4 DEF Listings
    <3>6. [desk EXCEPT ![w].hidden = FALSE] \in [Window -> Views]
      BY <1>1, <3>1 DEF Views
    <3> QED BY <3>5, <3>6
  <2> HIDE DEF seen
  <2>4. desk' \in [Window -> Views]
    BY <1>1, <2>1, <2>3
  <2>5. Shapes'
    BY <1>4, <2>1, <2>4, NextStep DEF CaptureInv, Shapes, Capturing, Later
  <2>6. Alone(c)
    BY <1>1, <1>4, <2>1 DEF Alone
  <2>7. /\ win'[c] \in Listings \cup {None}
        /\ pc'[c] = "subscribe" /\ Targeted(c) => win'[c] # None
    BY <1>1, <2>1, <2>3, AppStateAssumption DEF PictureInv
  <2>8. pc'[c] \in {"subscribe", "end"} /\ shot'[c] # "done" /\ heard'[c] = heard[c]
    BY <1>1, <1>2, <1>4, <2>1
  <2>9. PictureInv(c)'
    BY <1>1, <2>2, <2>7, <2>8 DEF PictureInv, Capturing
  <2> QED BY <1>4, <2>5, <2>6, <2>9, OneMoves
<1> QED BY <1>5, <1>6

LEMMA PortalKeepsCapture ==
  ASSUME CaptureInv, NEW c \in Call, Subscribe(c) \/ Answers(c) \/ HearAnother(c)
  PROVE  CaptureInv'
<1>1. /\ pc \in [Call -> Step] /\ DOMAIN heard = Call /\ display \in Desktops
      /\ \A d \in Call : PictureInv(d)
  BY DEF CaptureInv, Shapes
<1>2. /\ UNCHANGED <<ask, win, raw, picture, crop, dims, shot>> /\ Still
  BY DEF Subscribe, Answers, HearAnother
<1>3. CASE Subscribe(c)
  <2>1. /\ pc[c] = "subscribe" /\ pc' = [pc EXCEPT ![c] = "call"]
        /\ heard' = [heard EXCEPT ![c] = <<>>]
    BY <1>3 DEF Subscribe, Goto
  <2>2. Shapes'
    BY <1>2, <2>1, NextStep DEF CaptureInv, Shapes, Still, worldVars, Capturing
  <2>3. Alone(c)
    BY <1>1, <1>2, <2>1 DEF Alone
  <2>4. pc'[c] = "call" /\ heard'[c] \in Seq(Response)
    BY <1>1, <2>1
  <2>5. PictureInv(c)'
    BY <1>1, <1>2, <2>1, <2>4, GoesOn DEF PictureInv, Capturing, Later
  <2> QED BY <1>2, <2>2, <2>3, <2>5, OneMoves
<1>4. CASE Answers(c)
  <2>1. PICK ok \in BOOLEAN :
          heard' = [d \in Call |->
            IF heard[d] = None THEN None
            ELSE Append(heard[d], [ok |-> ok, picture |->
                                     [of |-> c, from |-> 0, size |-> display]])]
    BY <1>4 DEF Answers
  <2>2. pc' = pc
    BY <1>4 DEF Answers
  <2>3. Shapes'
    BY <1>2, <2>1, <2>2 DEF CaptureInv, Shapes, Still, worldVars
  <2>4. ASSUME NEW d \in Call PROVE PictureInv(d)'
    <3> DEFINE a == [ok |-> ok, picture |-> [of |-> c, from |-> 0, size |-> display]]
    <3>1. a \in Response
      BY <1>1 DEF Response
    <3>2. heard'[d] = IF heard[d] = None THEN None ELSE Append(heard[d], a)
      BY <2>1
    <3> HIDE DEF a
    <3>3. heard[d] # None => heard'[d] \in Seq(Response)
      BY <1>1, <3>1, <3>2 DEF PictureInv
    <3>4. pc[d] \in {"call", "handle", "wait"} /\ heard[d] = None => heard'[d] \in Seq(Response)
      BY <1>1, <3>2 DEF PictureInv
    <3> QED BY <1>1, <1>2, <2>2, <3>2, <3>3, <3>4, GoesOn DEF PictureInv
  <2> QED BY <2>3, <2>4 DEF CaptureInv
<1>5. CASE HearAnother(c)
  <2>1. pc[c] = "wait" /\ pc' = pc /\ heard[c] # <<>> /\ heard' = [heard EXCEPT ![c] = Tail(@)]
    BY <1>5 DEF HearAnother
  <2>2. Shapes'
    BY <1>2, <2>1 DEF CaptureInv, Shapes, Still, worldVars
  <2>3. Alone(c)
    BY <1>1, <1>2, <2>1 DEF Alone
  <2>4. heard'[c] \in Seq(Response)
    <3>1. heard[c] \in Seq(Response) /\ heard[c] # <<>> /\ heard'[c] = Tail(heard[c])
      BY <1>1, <2>1 DEF PictureInv
    <3> QED BY <3>1
  <2>5. PictureInv(c)'
    BY <1>1, <1>2, <2>1, <2>4, GoesOn DEF PictureInv
  <2> QED BY <1>2, <2>2, <2>3, <2>5, OneMoves
<1> QED BY <1>3, <1>4, <1>5

(* The answer that is taken is the picture as a whole.                     *)
LEMMA HearingKeepsCapture ==
  ASSUME CaptureInv, NEW c \in Call, HearPicture(c)
  PROVE  CaptureInv'
<1> DEFINE a == heard[c][1].picture
<1>1. /\ pc \in [Call -> Step] /\ DOMAIN heard = Call /\ DOMAIN raw = Call
      /\ picture \in [Call -> [of : Call \cup {None}, from : Int, size : Int]]
      /\ PictureInv(c)
  BY DEF CaptureInv, Shapes
<1>2. /\ UNCHANGED <<ask, win, crop, dims, shot>> /\ Still
      /\ pc[c] = "wait" /\ heard[c] # <<>> /\ pc' = [pc EXCEPT ![c] = "crop"]
      /\ picture' = [picture EXCEPT ![c] = a] /\ raw' = [raw EXCEPT ![c] = picture'[c].size]
      /\ heard' = [heard EXCEPT ![c] = None]
  BY DEF HearPicture, Goto
<1>3. a \in [of : Call, from : {0}, size : Desktops]
  <2>1. heard[c] \in Seq(Response)
    BY <1>1, <1>2 DEF PictureInv
  <2>2. heard[c][1] \in Response
    BY <1>2, <2>1
  <2> QED BY <2>2 DEF Response
<1> HIDE DEF a
<1>4. a.of \in Call /\ a.from = 0 /\ a.size \in Desktops /\ a.size \in Int
  <2>1. Desktops \subseteq Nat
    BY AppStateAssumption
  <2> DEFINE n == a.size
  <2>2. a.of \in Call /\ a.from = 0 /\ n \in Desktops
    BY <1>3
  <2> HIDE DEF n
  <2>3. n \in Int
    BY <2>1, <2>2
  <2> QED BY <2>2, <2>3 DEF n
<1>5. a \in [of : Call \cup {None}, from : Int, size : Int]
  BY <1>3, <1>4
<1>6. /\ picture'[c] = a /\ raw'[c] = a.size /\ heard'[c] = None /\ pc'[c] = "crop"
  BY <1>1, <1>2
<1>7. Shapes'
  BY <1>2, <1>5, NextStep DEF CaptureInv, Shapes, Still, worldVars
<1>8. Alone(c)
  BY <1>1, <1>2 DEF Alone
<1>9. shot'[c] # "done" /\ (ToolOf(c)' = ToolOf(c)) /\ (Targeted(c)' = Targeted(c))
  BY <1>1, <1>2 DEF PictureInv, Later, ToolOf, Targeted
<1>10. PictureInv(c)'
  BY <1>1, <1>2, <1>4, <1>6, <1>9 DEF PictureInv, Capturing
<1> QED BY <1>2, <1>7, <1>8, <1>10, OneMoves

LEMMA LosingKeepsCapture ==
  ASSUME CaptureInv, NEW c \in Call, HearRefusal(c) \/ PortalTimeout(c) \/ PortalFails(c)
  PROVE  CaptureInv'
<1>1. /\ PictureEnds(c, "failed") /\ UNCHANGED <<raw, picture, crop, dims>> /\ Still
      /\ heard' = [heard EXCEPT ![c] = None]
  BY DEF HearRefusal, PortalTimeout, PortalFails
<1>2. DOMAIN dims' = Call /\ desk' = desk /\ display' \in Desktops
  BY <1>1 DEF CaptureInv, Shapes, Still, worldVars
<1> QED BY <1>1, <1>2, PictureIsLost

LEMMA CropKeepsCapture ==
  ASSUME CaptureInv, NEW c \in Call, Crop(c)
  PROVE  CaptureInv'
<1>1. /\ pc \in [Call -> Step] /\ pc[c] = "crop" /\ Still /\ UNCHANGED <<heard, raw>>
      /\ PictureInv(c) /\ Shapes
  BY DEF CaptureInv, Shapes, Crop
<1>2. CASE Fits(c)
  <2> DEFINE K == Cut(c)
             C == IF ask[c].region = None THEN Rect(c) ELSE Shifted(Region(c), Rect(c).at)
  <2>1. /\ picture' = [picture EXCEPT ![c].from = K.from, ![c].size = K.size]
        /\ crop' = [crop EXCEPT ![c] = C] /\ pc' = [pc EXCEPT ![c] = "fit"]
        /\ DOMAIN dims' = DOMAIN dims
        /\ UNCHANGED <<ask, win, shot>>
    BY <1>2 DEF Crop, Goto
  <2>2. Agrees(c)' /\ K.from \in Int /\ K.size \in Int
    <3>1. Agrees(c)' /\ K.from \in Nat /\ K.size \in Nat
      BY <1>1, <1>2, <2>1, CutAgrees
    <3> HIDE DEF K
    <3> QED BY <3>1
  <2> HIDE DEF K, C
  <2>3. Shapes'
    <3>1. picture' \in [Call -> [of : Call \cup {None}, from : Int, size : Int]]
      <4>1. picture \in [Call -> [of : Call \cup {None}, from : Int, size : Int]]
        BY <1>1 DEF Shapes
      <4> QED BY <2>1, <2>2, <4>1
    <3>2. pc' \in [Call -> Step] /\ DOMAIN crop' = Call
      BY <1>1, <2>1, NextStep DEF Shapes
    <3> QED BY <1>1, <2>1, <3>1, <3>2 DEF Shapes, Still, worldVars
  <2>4. Alone(c)
    BY <1>1, <2>1 DEF Alone, Shapes
  <2>5. pc'[c] = "fit" /\ shot'[c] # "done" /\ heard'[c] = heard[c] /\ win'[c] = win[c]
    BY <1>1, <2>1 DEF PictureInv, Later
  <2>6. PictureInv(c)'
    BY <1>1, <2>2, <2>5 DEF PictureInv, Capturing
  <2> QED BY <2>1, <2>3, <2>4, <2>6, OneMoves
<1>3. CASE ~Fits(c)
  <2>1. PictureEnds(c, "refused") /\ UNCHANGED <<picture, crop, dims>>
    BY <1>3 DEF Crop
  <2>2. DOMAIN dims' = Call /\ desk' = desk /\ display' \in Desktops
    BY <1>1, <2>1 DEF Shapes, Still, worldVars
  <2> QED BY <1>1, <2>1, <2>2, PictureIsLost
<1> QED BY <1>2, <1>3

LEMMA FitKeepsCapture ==
  ASSUME CaptureInv, NEW c \in Call, Fit(c)
  PROVE  CaptureInv'
<1>1. /\ pc[c] = "fit" /\ Still /\ UNCHANGED <<heard, raw, picture, crop>>
      /\ DOMAIN dims' = Call
  BY DEF Fit, CaptureInv, Shapes
<1>2. CASE PictureEnds(c, "done")
  <2>1. AfterPicture(c) \in {"roots", "end"}
    BY DEF AfterPicture
  <2>2. /\ pc' = [pc EXCEPT ![c] = AfterPicture(c)] /\ shot' = [shot EXCEPT ![c] = "done"]
        /\ ask' = ask /\ win' = win
    BY <1>2 DEF PictureEnds, Goto
  <2>3. Shapes'
    BY <1>1, <2>1, <2>2, NextStep DEF CaptureInv, Shapes, Later, Still, worldVars
  <2>4. Alone(c)
    BY <1>1, <2>2 DEF Alone, CaptureInv, Shapes
  <2>5. pc'[c] \in {"roots", "end"} /\ PictureInv(c)
    BY <2>1, <2>2 DEF CaptureInv, Shapes
  <2>6. PictureInv(c)'
    BY <1>1, <2>2, <2>5, GoesOn DEF PictureInv, Capturing, Later
  <2> QED BY <2>2, <2>3, <2>4, <2>6, OneMoves
<1>3. CASE PictureEnds(c, "failed")
  <2>1. desk' = desk /\ display' \in Desktops
    BY <1>1 DEF CaptureInv, Shapes, Still, worldVars
  <2> QED BY <1>1, <1>3, <2>1, PictureIsLost
<1>4. CASE UNCHANGED <<ask, pc, win, shot>>
  <2>1. Shapes'
    BY <1>1, <1>4 DEF CaptureInv, Shapes, Still, worldVars
  <2>2. ASSUME NEW d \in Call PROVE PictureInv(d)'
    BY <1>1, <1>4, StaysPut
  <2> QED BY <2>1, <2>2 DEF CaptureInv
<1> QED BY <1>2, <1>3, <1>4 DEF Fit

(* The desktop moves under every request and changes none.                 *)
LEMMA EventKeepsCapture ==
  ASSUME CaptureInv, Event
  PROVE  CaptureInv'
<1>1. /\ UNCHANGED <<ask, pc, win, heard, raw, picture, crop, dims, shot>>
      /\ desk \in [Window -> Views] /\ display \in Desktops
  BY DEF Event, pictureVars, CaptureInv, Shapes
<1>2. desk' \in [Window -> Views] /\ display' \in Desktops
  <2>1. ASSUME NEW w \in Window, Placed(w) PROVE desk' \in [Window -> Views] /\ display' = display
    <3>1. PICK p \in Places[w] : desk' = [desk EXCEPT ![w].place = p]
      BY <2>1 DEF Placed
    <3>2. p \in UNION Range(Places)
      BY AppStateAssumption DEF Range
    <3>3. DEFINE P == UNION Range(Places)
    <3>4. desk \in [Window -> [place : P, hidden : BOOLEAN]] /\ p \in P
      BY <1>1, <3>2 DEF Views
    <3> HIDE DEF P
    <3>5. desk' \in [Window -> [place : P, hidden : BOOLEAN]]
      BY <3>1, <3>4
    <3> QED BY <2>1, <3>5 DEF P, Views, Placed
  <2>2. ASSUME NEW w \in Window, Focused(w) \/ Hidden(w)
        PROVE  desk' \in [Window -> Views] /\ display' = display
    <3>1. PICK b \in BOOLEAN : desk' = [desk EXCEPT ![w].hidden = b]
      BY <2>2 DEF Focused, Hidden
    <3> QED BY <1>1, <2>2, <3>1 DEF Views, Focused, Hidden
  <2>3. ASSUME Resized PROVE desk' = desk /\ display' \in Desktops
    BY <2>3 DEF Resized
  <2>4. ASSUME NEW o \in Mortal, Gone(o) \/ \E p \in Hosts : Added(o, p)
        PROVE  desk' = desk /\ display' = display
    BY <2>4 DEF Gone, Added
  <2> QED BY <1>1, <2>1, <2>2, <2>3, <2>4 DEF Event
<1>3. Shapes'
  BY <1>1, <1>2 DEF CaptureInv, Shapes
<1>4. ASSUME NEW d \in Call PROVE PictureInv(d)'
  BY <1>1, StaysPut
<1> QED BY <1>3, <1>4 DEF CaptureInv

LEMMA NextCapture == CaptureInv /\ [Next]_vars => CaptureInv'
<1> SUFFICES ASSUME CaptureInv, [Next]_vars PROVE CaptureInv'
  OBVIOUS
<1>1. ASSUME NEW c \in Call, Proceeds(c) PROVE CaptureInv'
  BY <1>1, TreeKeepsCapture, LookKeepsCapture, PortalKeepsCapture, WaitingKeepsCapture,
     HearingKeepsCapture, LosingKeepsCapture, CropKeepsCapture, FitKeepsCapture DEF Proceeds
<1>2. ASSUME NEW c \in Call, Filter(c) \/ TakeHandle(c) PROVE CaptureInv'
  BY <1>2, WaitingKeepsCapture
<1>3. ASSUME NEW c \in Call, PortalFails(c) PROVE CaptureInv'
  BY <1>3, LosingKeepsCapture
<1>4. ASSUME NEW c \in Call, Answers(c) PROVE CaptureInv'
  BY <1>4, PortalKeepsCapture
<1>5. ASSUME Event PROVE CaptureInv'
  BY <1>5, EventKeepsCapture
<1>6. ASSUME UNCHANGED vars PROVE CaptureInv'
  <2>1. Shapes'
    BY <1>6 DEF vars, worldVars, pictureVars, CaptureInv, Shapes
  <2>2. ASSUME NEW d \in Call PROVE PictureInv(d)'
    BY <1>6, StaysPut DEF vars, pictureVars
  <2> QED BY <2>1, <2>2 DEF CaptureInv
<1> QED BY <1>1, <1>2, <1>3, <1>4, <1>5, <1>6 DEF Next

(* What makes it so, in every state: a picture is the whole desktop until  *)
(* it is cut, a screenshot of a window knows the window by then, and       *)
(* nothing that happens later touches the cut picture, the rectangle that  *)
(* is reported of it, or the window's (server.rs:2604-2653, 3127-3185).    *)
THEOREM CaptureInvariance == Spec => []CaptureInv
<1> QED BY InitCapture, NextCapture, PTL DEF Spec

(* Pictures and clicks agree on where a pixel is: the rectangle reported   *)
(* of a cropped picture is the one its pixels come from, a picture of a    *)
(* window shows nothing but the window and one of a region nothing but the *)
(* region, and a click that is relative to the window lands on the pixel   *)
(* with its coordinates in the picture, whatever the windows, the display, *)
(* the portal and the other requests do (server.rs:2604-2653, 4937-5001).  *)
THEOREM Agreement == Spec => []PixelsAgree
<1> QED BY CaptureInvariance, AgreementSuffices, PTL

-----------------------------------------------------------------------------
(* Whose picture it is. The portal is not asked before there is a place    *)
(* for its answer, and its answer stays there until it is taken.           *)
Early == {"look", "filter", "subscribe", "call"}
Holding == {"handle", "wait"}

OwnInv(c) ==
  /\ pc[c] \in Early => portal[c] = "none"
  /\ pc[c] \in Holding /\ portal[c] = "answered" =>
       heard[c] # None /\ \E i \in DOMAIN heard[c] : heard[c][i].picture.of = c
  /\ pc[c] \in {"crop", "fit"} \/ shot[c] = "done" => picture[c].of = c

OwnershipInv ==
  CaptureInv /\ portal \in [Call -> {"none", "asked", "answered"}] /\ \A c \in Call : OwnInv(c)

LEMMA NothingIsAnAnswer ==
  \A s \in Seq(Response) : s # None
BY ResponseAssumption

(* A request that hears nothing new keeps what it has.                     *)
LEMMA OwnGoesOn ==
  ASSUME NEW c \in Call, OwnInv(c), portal'[c] = portal[c],
         picture'[c].of = picture[c].of,
         pc'[c] \in Early => pc[c] \in Early,
         pc'[c] \in Holding => pc[c] \in Holding /\ heard'[c] = heard[c],
         pc'[c] \in {"crop", "fit"} => pc[c] \in {"crop", "fit"},
         shot'[c] = "done" => shot[c] = "done" \/ pc[c] = "fit"
  PROVE  OwnInv(c)'
BY DEF OwnInv

(* The steps of a request that are not of the exchange.                    *)
LEMMA ApartFromThePortal ==
  ASSUME OwnershipInv, NEW c \in Call, NEW d \in Call,
         \/ LookForState(c) \/ LookForShot(c) \/ Filter(c) \/ Crop(c) \/ Fit(c)
         \/ Roots(c) \/ Open(c) \/ ReadChild(c) \/ Push(c) \/ WalkEnds(c) \/ TreeTimeout(c)
  PROVE  OwnInv(d)' /\ portal' = portal
<1>1. /\ DOMAIN pc = Call /\ DOMAIN shot = Call /\ OwnInv(d)
      /\ picture \in [Call -> [of : Call \cup {None}, from : Int, size : Int]]
  BY DEF OwnershipInv, CaptureInv, Shapes
<1>2. portal' = portal /\ heard' = heard
  BY DEF LookForState, LookForShot, Filter, Crop, Fit, PictureEnds, Roots, Open, ReadChild,
         Push, WalkEnds, TreeTimeout, pictureVars
<1>3. picture'[d].of = picture[d].of
  <2>1. CASE Crop(c)
    <3> DEFINE cut == Cut(c)
    <3>1. \/ picture' = picture
          \/ picture' = [picture EXCEPT ![c].from = cut.from, ![c].size = cut.size]
      BY <2>1 DEF Crop
    <3> HIDE DEF cut
    <3> QED BY <1>1, <3>1
  <2>2. CASE ~Crop(c)
    <3>1. picture' = picture
      BY <2>2 DEF LookForState, LookForShot, Filter, Fit, Roots, Open, ReadChild, Push, WalkEnds,
                  TreeTimeout, pictureVars
    <3> QED BY <3>1
  <2> QED BY <2>1, <2>2
<1>4. /\ pc'[d] \in Early => pc[d] \in Early
      /\ pc'[d] \in Holding => pc[d] \in Holding
      /\ pc'[d] \in {"crop", "fit"} => pc[d] \in {"crop", "fit"}
  <2>1. CASE LookForState(c) \/ LookForShot(c) \/ Filter(c)
    <3>1. pc[c] \in Early /\ \E s \in {"filter", "subscribe", "roots", "end"} :
            pc' = [pc EXCEPT ![c] = s]
      BY <2>1 DEF LookForState, LookForShot, Filter, Goto, Early
    <3> QED BY <1>1, <3>1 DEF Early, Holding
  <2>2. CASE Crop(c) \/ Fit(c)
    <3>1. pc[c] \in {"crop", "fit"} /\ (pc' = pc \/ \E s \in {"fit", "roots", "end"} :
            pc' = [pc EXCEPT ![c] = s])
      BY <2>2 DEF Crop, Fit, PictureEnds, Goto, AfterPicture
    <3> QED BY <1>1, <3>1 DEF Early, Holding
  <2>3. CASE \/ Roots(c) \/ Open(c) \/ ReadChild(c) \/ Push(c) \/ WalkEnds(c) \/ TreeTimeout(c)
    <3>1. pc' = pc \/ \E s \in Later : pc' = [pc EXCEPT ![c] = s]
      BY <2>3 DEF Roots, Open, ReadChild, Push, WalkEnds, TreeTimeout, Goto, Later
    <3> QED BY <1>1, <3>1 DEF Early, Holding, Later
  <2> QED BY <2>1, <2>2, <2>3
<1>5. shot'[d] = "done" => shot[d] = "done" \/ pc[d] = "fit"
  <2>1. CASE Fit(c)
    <3>1. pc[c] = "fit" /\ (shot' = shot \/ \E how : shot' = [shot EXCEPT ![c] = how])
      BY <2>1 DEF Fit, PictureEnds
    <3> QED BY <1>1, <3>1
  <2>2. CASE Crop(c) \/ LookForShot(c)
    <3>1. shot' = shot \/ shot' = [shot EXCEPT ![c] = "refused"]
      BY <2>2 DEF Crop, LookForShot, PictureEnds
    <3> QED BY <1>1, <3>1
  <2>3. CASE ~(Fit(c) \/ Crop(c) \/ LookForShot(c))
    <3>1. shot' = shot
      BY <2>3 DEF LookForState, Filter, Roots, Open, ReadChild, Push, WalkEnds, TreeTimeout,
                  pictureVars
    <3> QED BY <3>1
  <2> QED BY <2>1, <2>2, <2>3
<1> QED BY <1>1, <1>2, <1>3, <1>4, <1>5, OwnGoesOn

(* The exchange with the portal.                                           *)
LEMMA AskingKeepsOwn ==
  ASSUME OwnershipInv, NEW c \in Call, NEW d \in Call,
         Subscribe(c) \/ CallPortal(c) \/ TakeHandle(c)
  PROVE  OwnInv(d)' /\ portal' \in [Call -> {"none", "asked", "answered"}]
<1>1. /\ pc \in [Call -> Step] /\ DOMAIN heard = Call /\ OwnInv(d)
      /\ portal \in [Call -> {"none", "asked", "answered"}]
  BY DEF OwnershipInv, CaptureInv, Shapes
<1>2. UNCHANGED <<picture, shot>>
  BY DEF Subscribe, CallPortal, TakeHandle, pictureVars
<1>3. CASE Subscribe(c)
  <2>1. /\ pc[c] = "subscribe" /\ pc' = [pc EXCEPT ![c] = "call"] /\ portal' = portal
        /\ heard' = [heard EXCEPT ![c] = <<>>]
    BY <1>3 DEF Subscribe, Goto
  <2>2. CASE d = c
    BY <1>1, <1>2, <2>1, <2>2, OwnGoesOn DEF Early, Holding
  <2>3. CASE d # c
    BY <1>1, <1>2, <2>1, <2>3, OwnGoesOn DEF Early, Holding
  <2> QED BY <1>1, <2>1, <2>2, <2>3
<1>4. CASE CallPortal(c)
  <2>1. /\ pc[c] = "call" /\ pc' = [pc EXCEPT ![c] = "handle"] /\ heard' = heard
        /\ portal' = [portal EXCEPT ![c] = "asked"]
    BY <1>4 DEF CallPortal, Goto
  <2>2. CASE d = c
    BY <1>1, <1>2, <2>1, <2>2 DEF OwnInv, Early, Holding
  <2>3. CASE d # c
    BY <1>1, <1>2, <2>1, <2>3, OwnGoesOn
  <2> QED BY <1>1, <2>1, <2>2, <2>3
<1>5. CASE TakeHandle(c)
  <2>1. /\ pc[c] = "handle" /\ pc' = [pc EXCEPT ![c] = "wait"] /\ heard' = heard
        /\ portal' = portal
    BY <1>5 DEF TakeHandle, Goto, pictureVars
  <2>2. CASE d = c
    BY <1>1, <1>2, <2>1, <2>2, OwnGoesOn DEF Early, Holding
  <2>3. CASE d # c
    BY <1>1, <1>2, <2>1, <2>3, OwnGoesOn
  <2> QED BY <1>1, <2>1, <2>2, <2>3
<1> QED BY <1>3, <1>4, <1>5

(* An answer is added behind what every subscription has.                  *)
LEMMA AnswerKeepsOwn ==
  ASSUME OwnershipInv, NEW c \in Call, NEW d \in Call, Answers(c)
  PROVE  OwnInv(d)' /\ portal' \in [Call -> {"none", "asked", "answered"}]
<1>1. /\ pc \in [Call -> Step] /\ OwnInv(d) /\ PictureInv(d)
      /\ portal \in [Call -> {"none", "asked", "answered"}]
  BY DEF OwnershipInv, CaptureInv, Shapes
<1>2. /\ UNCHANGED <<pc, picture, shot>> /\ portal[c] = "asked"
      /\ portal' = [portal EXCEPT ![c] = "answered"]
  BY DEF Answers
<1>3. PICK ok \in BOOLEAN :
        heard' = [e \in Call |->
          IF heard[e] = None THEN None
          ELSE Append(heard[e], [ok |-> ok, picture |->
                                   [of |-> c, from |-> 0, size |-> display]])]
  BY DEF Answers
<1> DEFINE a == [ok |-> ok, picture |-> [of |-> c, from |-> 0, size |-> display]]
           old == heard[d]
<1>4. a.picture.of = c /\ a \in Response
  BY DEF Response, OwnershipInv, CaptureInv, Shapes
<1>5. heard'[d] = IF old = None THEN None ELSE Append(old, a)
  BY <1>3
<1>6. pc[d] \in Early => portal'[d] = "none"
  BY <1>1, <1>2 DEF OwnInv
<1>7. pc[d] \in Holding /\ portal'[d] = "answered" =>
        heard'[d] # None /\ \E i \in DOMAIN heard'[d] : heard'[d][i].picture.of = d
  <2> SUFFICES ASSUME pc[d] \in Holding, portal'[d] = "answered"
               PROVE  heard'[d] # None /\ \E i \in DOMAIN heard'[d] : heard'[d][i].picture.of = d
    OBVIOUS
  <2>1. old \in Seq(Response)
    BY <1>1 DEF PictureInv, Holding
  <2>2. old # None
    BY <2>1, NothingIsAnAnswer
  <2>3. d = c \/ \E i \in DOMAIN old : old[i].picture.of = d
    BY <1>1, <1>2 DEF OwnInv
  <2> HIDE DEF a, old
  <2>4. heard'[d] = Append(old, a) /\ Append(old, a) \in Seq(Response)
    BY <1>4, <1>5, <2>1, <2>2
  <2>5. DOMAIN Append(old, a) = 1..(Len(old) + 1) /\ Len(old) \in Nat
        /\ Append(old, a)[Len(old) + 1] = a
        /\ \A i \in DOMAIN old : i \in 1..Len(old) /\ Append(old, a)[i] = old[i]
    BY <1>4, <2>1
  <2>6. CASE d = c
    <3> DEFINE i == Len(old) + 1
    <3>1. i \in DOMAIN heard'[d] /\ heard'[d][i].picture.of = d
      BY <1>4, <2>4, <2>5, <2>6
    <3> QED BY <2>4, <3>1, NothingIsAnAnswer
  <2>7. ASSUME NEW i \in DOMAIN old, old[i].picture.of = d
        PROVE  i \in DOMAIN heard'[d] /\ heard'[d][i].picture.of = d
    BY <2>4, <2>5, <2>7
  <2> QED BY <2>3, <2>4, <2>6, <2>7, NothingIsAnAnswer
<1> HIDE DEF a, old
<1> QED BY <1>1, <1>2, <1>6, <1>7 DEF OwnInv

(* What is passed over is another's, and what is taken is one's own.       *)
LEMMA HearingKeepsOwn ==
  ASSUME OwnershipInv, NEW c \in Call, NEW d \in Call, HearAnother(c) \/ HearPicture(c)
  PROVE  OwnInv(d)' /\ portal' = portal
<1>1. /\ pc \in [Call -> Step] /\ OwnInv(d) /\ PictureInv(c) /\ DOMAIN heard = Call
      /\ picture \in [Call -> [of : Call \cup {None}, from : Int, size : Int]]
  BY DEF OwnershipInv, CaptureInv, Shapes
<1> DEFINE old == heard[c]
<1>2. portal' = portal /\ shot' = shot /\ pc[c] = "wait" /\ old # <<>>
  BY DEF HearAnother, HearPicture
<1>3. old \in Seq(Response)
  BY <1>1, <1>2 DEF PictureInv
<1>4. CASE HearAnother(c)
  <2>1. /\ pc' = pc /\ picture' = picture /\ old[1].picture.of # c
        /\ heard' = [heard EXCEPT ![c] = Tail(old)]
    BY <1>4 DEF HearAnother
  <2>2. CASE d # c
    BY <1>1, <1>2, <2>1, <2>2, OwnGoesOn
  <2>3. CASE d = c
    <3>1. heard'[c] = Tail(old)
      BY <1>1, <2>1
    <3> HIDE DEF old
    <3>2. Tail(old) \in Seq(Response) /\ DOMAIN Tail(old) = 1..(Len(old) - 1)
          /\ Len(old) \in Nat
          /\ \A i \in DOMAIN old : i # 1 => i - 1 \in 1..(Len(old) - 1)
                                           /\ Tail(old)[i - 1] = old[i]
      BY <1>2, <1>3
    <3>3. ASSUME NEW i \in DOMAIN old, old[i].picture.of = c
          PROVE  \E j \in DOMAIN Tail(old) : Tail(old)[j].picture.of = c
      BY <2>1, <3>2, <3>3
    <3>4. Tail(old) # None
      BY <3>2, NothingIsAnAnswer
    <3> QED BY <1>1, <1>2, <2>1, <2>3, <3>1, <3>3, <3>4 DEF OwnInv, Early, Holding, old
  <2> QED BY <1>2, <2>2, <2>3
<1>5. CASE HearPicture(c)
  <2>1. /\ pc' = [pc EXCEPT ![c] = "crop"] /\ picture' = [picture EXCEPT ![c] = old[1].picture]
        /\ old[1].picture.of = c /\ heard' = [heard EXCEPT ![c] = None]
    BY <1>5 DEF HearPicture, Goto
  <2> HIDE DEF old
  <2>2. CASE d # c
    BY <1>1, <1>2, <2>1, <2>2, OwnGoesOn
  <2>3. CASE d = c
    BY <1>1, <1>2, <2>1, <2>3 DEF OwnInv, Early, Holding
  <2> QED BY <1>2, <2>2, <2>3
<1> QED BY <1>4, <1>5

LEMMA LosingKeepsOwn ==
  ASSUME OwnershipInv, NEW c \in Call, NEW d \in Call,
         HearRefusal(c) \/ PortalTimeout(c) \/ PortalFails(c)
  PROVE  OwnInv(d)' /\ portal' = portal
<1>1. /\ DOMAIN pc = Call /\ DOMAIN shot = Call /\ DOMAIN heard = Call /\ OwnInv(d)
  BY DEF OwnershipInv, CaptureInv, Shapes
<1>2. /\ portal' = portal /\ picture' = picture /\ shot' = [shot EXCEPT ![c] = "failed"]
      /\ pc' = [pc EXCEPT ![c] = AfterPicture(c)] /\ heard' = [heard EXCEPT ![c] = None]
  BY DEF HearRefusal, PortalTimeout, PortalFails, PictureEnds, Goto
<1>3. AfterPicture(c) \in {"roots", "end"}
  BY DEF AfterPicture
<1>4. CASE d # c
  BY <1>1, <1>2, <1>4, OwnGoesOn
<1>5. CASE d = c
  <2>1. pc'[d] \in {"roots", "end"} /\ shot'[d] = "failed"
    BY <1>1, <1>2, <1>3, <1>5
  <2> QED BY <1>1, <1>2, <2>1, OwnGoesOn DEF Early, Holding
<1> QED BY <1>2, <1>4, <1>5

LEMMA NextOwnership == OwnershipInv /\ [Next]_vars => OwnershipInv'
<1> SUFFICES ASSUME OwnershipInv, [Next]_vars PROVE OwnershipInv'
  OBVIOUS
<1>1. CaptureInv'
  BY NextCapture DEF OwnershipInv
<1> DEFINE T == portal \in [Call -> {"none", "asked", "answered"}]
<1>2. T
  BY DEF OwnershipInv
<1> SUFFICES T' /\ \A d \in Call : OwnInv(d)'
  BY <1>1 DEF OwnershipInv
<1>3. ASSUME NEW c \in Call,
             Proceeds(c) \/ Filter(c) \/ TakeHandle(c) \/ PortalFails(c) \/ Answers(c)
      PROVE  T' /\ \A d \in Call : OwnInv(d)'
  <2> SUFFICES ASSUME NEW d \in Call PROVE T' /\ OwnInv(d)'
    OBVIOUS
  <2>1. CASE \/ LookForState(c) \/ LookForShot(c) \/ Filter(c) \/ Crop(c) \/ Fit(c)
             \/ Roots(c) \/ Open(c) \/ ReadChild(c) \/ Push(c) \/ WalkEnds(c) \/ TreeTimeout(c)
    BY <1>2, <2>1, ApartFromThePortal
  <2>2. CASE Subscribe(c) \/ CallPortal(c) \/ TakeHandle(c)
    BY <2>2, AskingKeepsOwn
  <2>3. CASE Answers(c)
    BY <2>3, AnswerKeepsOwn
  <2>4. CASE HearAnother(c) \/ HearPicture(c)
    BY <1>2, <2>4, HearingKeepsOwn
  <2>5. CASE HearRefusal(c) \/ PortalTimeout(c) \/ PortalFails(c)
    BY <1>2, <2>5, LosingKeepsOwn
  <2> HIDE DEF T
  <2> QED BY <1>3, <2>1, <2>2, <2>3, <2>4, <2>5 DEF Proceeds
<1>4. CASE Event \/ UNCHANGED vars
  <2>1. UNCHANGED <<portal, picture, pc, heard, shot>>
    BY <1>4 DEF Event, vars, pictureVars
  <2> QED BY <1>2, <2>1, OwnGoesOn DEF OwnershipInv
<1> HIDE DEF T
<1> QED BY <1>3, <1>4 DEF Next

(* A picture is the answer to the request that returns it, however many    *)
(* others wait for theirs and in whatever order they come, and one that    *)
(* comes before its handle is known is not missed (screenshot.rs:203-292). *)
THEOREM OwnPicture == Spec => []OwnAnswer
<1>1. Init => OwnershipInv
  <2> SUFFICES ASSUME Init PROVE OwnershipInv
    OBVIOUS
  <2>1. \A c \in Call : pc[c] \in {"end", "look"} /\ portal[c] = "none" /\ shot[c] = "none"
    BY DEF Init
  <2> QED BY <2>1, InitCapture DEF Init, OwnershipInv, OwnInv, Early, Holding
<1>2. OwnershipInv => OwnAnswer
  BY DEF OwnershipInv, OwnInv, OwnAnswer, Holding
<1> QED BY <1>1, <1>2, NextOwnership, PTL DEF Spec

-----------------------------------------------------------------------------
(* Induction over the natural numbers, for sets of them.                   *)
Less == {s \in Nat \X Nat : s[1] < s[2]}

LEMMA Least ==
  ASSUME NEW T \in SUBSET Nat, T # {}
  PROVE  \E x \in T : \A y \in T : x <= y
<1>1. Less = OpToRel(<, Nat)
  BY DEF Less, OpToRel
<1>2. PICK x \in T : \A y \in T : ~ (<<y, x>> \in Less)
  BY <1>1, NatLessThanWellFounded, WFMin
<1>3. ASSUME NEW y \in T PROVE x <= y
  <2>1. x \in Nat /\ y \in Nat /\ <<y, x>> \in Nat \X Nat
        /\ <<y, x>>[1] = y /\ <<y, x>>[2] = x
    OBVIOUS
  <2>2. ~(y < x)
    BY <1>2, <2>1 DEF Less
  <2> QED BY <2>1, <2>2
<1> QED BY <1>3

LEMMA Greatest ==
  ASSUME NEW n \in Nat, NEW T \in SUBSET (0..n), T # {}
  PROVE  \E x \in T : \A y \in T : y <= x
<1> DEFINE M == {m \in 0..n : \A y \in T : y <= m}
<1>1. n \in M /\ M \in SUBSET Nat
  OBVIOUS
<1>2. PICK m \in M : \A k \in M : m <= k
  BY <1>1, Least
<1>3. m \in Nat /\ m <= n /\ \A y \in T : y <= m
  BY <1>2
<1>4. m \in T
  <2> SUFFICES ASSUME m \notin T PROVE FALSE
    OBVIOUS
  <2>1. \A y \in T : y <= m - 1
    BY <1>3
  <2>2. PICK y \in T : y \in 0..n
    OBVIOUS
  <2>3. y <= m - 1 /\ m - 1 \in 0..n
    BY <1>3, <2>1, <2>2
  <2>4. m - 1 \in M
    BY <2>1, <2>3
  <2> HIDE DEF M
  <2> QED BY <1>2, <1>3, <2>4
<1> HIDE DEF M
<1> QED BY <1>3, <1>4

LEMMA Induction ==
  ASSUME NEW S, 0 \in S, \A n \in Nat : n \in S => n + 1 \in S
  PROVE  \A n \in Nat : n \in S
<1> DEFINE T == Nat \ S
<1> SUFFICES ASSUME T # {} PROVE FALSE
  OBVIOUS
<1>1. PICK x \in T : \A y \in T : x <= y
  BY Least, T \in SUBSET Nat
<1>2. x \in Nat /\ x # 0 /\ x - 1 \in Nat
  BY <1>1
<1>3. x - 1 \notin T
  BY <1>1, <1>2
<1>4. x - 1 \in S
  BY <1>2, <1>3
<1>5. (x - 1) + 1 = x
  BY <1>2
<1> QED BY <1>1, <1>2, <1>4, <1>5

-----------------------------------------------------------------------------
(* A position's rank counts the positions up to it.                        *)
LEMMA RankType ==
  ASSUME NEW K \in SUBSET Int, IsFiniteSet(K), NEW i \in Int
  PROVE  /\ IsFiniteSet({k \in K : k <= i})
         /\ Rank(K, i) \in 0..Cardinality(K)
         /\ Cardinality(K) \in Nat
         /\ i \in K => Rank(K, i) # 0
<1> DEFINE B == {k \in K : k <= i}
<1>1. B \in SUBSET K
  OBVIOUS
<1>2. IsFiniteSet(B) /\ Cardinality(B) <= Cardinality(K) /\ Cardinality(K) \in Nat
      /\ Cardinality(B) \in Nat
  BY <1>1, FS_Subset, FS_CardinalityType
<1>3. i \in K => B # {}
  OBVIOUS
<1>4. Cardinality(B) = 0 <=> B = {}
  BY <1>2, FS_EmptySet
<1> QED BY <1>2, <1>3, <1>4 DEF Rank

LEMMA RankGrows ==
  ASSUME NEW K \in SUBSET Int, IsFiniteSet(K), NEW i \in Int, NEW k \in K, i < k
  PROVE  Rank(K, i) < Rank(K, k)
<1> DEFINE B == {x \in K : x <= i}
           C == {x \in K : x <= k}
<1>1. IsFiniteSet(C) /\ IsFiniteSet(B) /\ Rank(K, i) = Cardinality(B)
      /\ Rank(K, k) = Cardinality(C) /\ Cardinality(B) \in Nat /\ Cardinality(C) \in Nat
  BY RankType DEF Rank
<1>2. B \in SUBSET C /\ k \in C /\ k \notin B
  <2>1. \A x \in K : x \in Int
    OBVIOUS
  <2>2. k \in Int /\ k <= k /\ ~(k <= i) /\ \A x \in K : x <= i => x <= k
    BY <2>1
  <2> QED BY <2>2
<1>3. Cardinality(B) <= Cardinality(C) /\ (Cardinality(C) = Cardinality(B) => C = B)
  BY <1>1, <1>2, FS_Subset
<1> HIDE DEF B, C
<1> QED BY <1>1, <1>2, <1>3

LEMMA RankIsBijective ==
  ASSUME NEW K \in SUBSET Int, IsFiniteSet(K)
  PROVE  /\ Cardinality(K) \in Nat
         /\ \A i \in K : Rank(K, i) \in 1..Cardinality(K)
         /\ \A i, k \in K : Rank(K, i) = Rank(K, k) => i = k
         /\ \A j \in 1..Cardinality(K) : \E i \in K : Rank(K, i) = j
<1> DEFINE n == Cardinality(K)
           f == [i \in K |-> Rank(K, i)]
<1>1. n \in Nat /\ \A i \in K : Rank(K, i) \in 1..n
  <2>1. n \in Nat
    BY FS_CardinalityType
  <2>2. ASSUME NEW i \in K PROVE Rank(K, i) \in 1..n
    <3>1. i \in Int /\ Rank(K, i) \in 0..n /\ Rank(K, i) # 0
      BY RankType
    <3> QED BY <2>1, <3>1
  <2> QED BY <2>1, <2>2
<1>2. \A i, k \in K : Rank(K, i) = Rank(K, k) => i = k
  <2> SUFFICES ASSUME NEW i \in K, NEW k \in K, Rank(K, i) = Rank(K, k), i # k PROVE FALSE
    OBVIOUS
  <2>1. i \in Int /\ k \in Int /\ Rank(K, i) \in Int /\ Rank(K, k) \in Int
    BY <1>1
  <2>2. i < k => Rank(K, i) < Rank(K, k)
    BY <2>1, RankGrows
  <2>3. k < i => Rank(K, k) < Rank(K, i)
    BY <2>1, RankGrows
  <2> QED BY <2>1, <2>2, <2>3
<1>3. f \in [K -> 1..n] /\ \A i \in K : f[i] = Rank(K, i)
  BY <1>1
<1> HIDE DEF f
<1>4. f \in Injection(K, 1..n)
  BY <1>2, <1>3 DEF Injection, IsInjective
<1>5. IsFiniteSet(1..n) /\ Cardinality(1..n) = n
  BY <1>1, FS_Interval
<1> HIDE DEF n
<1>6. f \in Surjection(K, 1..n)
  BY <1>4, <1>5, FS_Injection DEF n
<1>7. ASSUME NEW j \in 1..n PROVE \E i \in K : f[i] = j
  BY <1>6 DEF Surjection
<1> QED BY <1>1, <1>2, <1>3, <1>7 DEF n

(* The positions of a set in their order, by their ranks.                  *)
LEMMA InOrderIsInverse ==
  ASSUME NEW K \in SUBSET Int, IsFiniteSet(K)
  PROVE  /\ Cardinality(K) \in Nat
         /\ DOMAIN InOrder(K) = 1..Cardinality(K)
         /\ \A j \in 1..Cardinality(K) : InOrder(K)[j] \in K /\ Rank(K, InOrder(K)[j]) = j
         /\ \A i \in K : Rank(K, i) \in 1..Cardinality(K) /\ InOrder(K)[Rank(K, i)] = i
<1>1. /\ Cardinality(K) \in Nat
      /\ \A i \in K : Rank(K, i) \in 1..Cardinality(K)
      /\ \A i, k \in K : Rank(K, i) = Rank(K, k) => i = k
      /\ \A j \in 1..Cardinality(K) : \E i \in K : Rank(K, i) = j
  BY RankIsBijective
<1>2. InOrder(K) = [j \in 1..Cardinality(K) |-> CHOOSE i \in K : Rank(K, i) = j]
  BY DEF InOrder
<1>3. \A j \in 1..Cardinality(K) : InOrder(K)[j] \in K /\ Rank(K, InOrder(K)[j]) = j
  BY <1>1, <1>2
<1>4. \A i \in K : InOrder(K)[Rank(K, i)] = i
  BY <1>1, <1>3
<1> QED BY <1>1, <1>2, <1>3, <1>4

(* What of a sequence is in a set: the same members, in a sequence that is *)
(* no longer, and each once if they were.                                  *)
LEMMA FilteredIsWithin ==
  ASSUME NEW X, NEW s \in Seq(X), NEW S
  PROVE  /\ Filtered(s, S) \in Seq(X)
         /\ ToSet(Filtered(s, S)) = ToSet(s) \cap S
         /\ (\A i, j \in DOMAIN s : s[i] = s[j] => i = j) =>
              \A i, j \in DOMAIN Filtered(s, S) :
                Filtered(s, S)[i] = Filtered(s, S)[j] => i = j
<1> DEFINE K == {i \in DOMAIN s : s[i] \in S}
           order == InOrder(K)
           n == Cardinality(K)
           F == Filtered(s, S)
<1>1. K \in SUBSET Int /\ IsFiniteSet(K) /\ K \subseteq DOMAIN s /\ DOMAIN s = 1..Len(s)
      /\ Len(s) \in Nat
  <2>1. DOMAIN s = 1..Len(s) /\ Len(s) \in Nat
    OBVIOUS
  <2>2. IsFiniteSet(1..Len(s))
    BY <2>1, FS_Interval
  <2>3. K \in SUBSET (1..Len(s))
    BY <2>1
  <2> QED BY <2>1, <2>2, <2>3, FS_Subset
<1>2. /\ n \in Nat /\ DOMAIN order = 1..n
      /\ \A j \in 1..n : order[j] \in K /\ Rank(K, order[j]) = j
      /\ \A i \in K : Rank(K, i) \in 1..n /\ order[Rank(K, i)] = i
  BY <1>1, InOrderIsInverse
<1>3. F = [j \in 1..n |-> s[order[j]]]
  BY <1>2 DEF Filtered
<1>4. \A i \in K : i \in DOMAIN s /\ s[i] \in S /\ s[i] \in X
  BY <1>1
<1>5. \A i \in DOMAIN s : s[i] \in S => i \in K
  OBVIOUS
<1> HIDE DEF K, order, n, F
<1>6. F \in Seq(X) /\ DOMAIN F = 1..n
  <2>1. F \in [1..n -> X]
    BY <1>2, <1>3, <1>4
  <2> QED BY <1>2, <2>1
<1>7. ToSet(F) = ToSet(s) \cap S
  <2>1. ASSUME NEW x \in ToSet(F) PROVE x \in ToSet(s) \cap S
    <3>1. PICK j \in 1..n : x = s[order[j]]
      BY <1>3, <1>6, <2>1 DEF ToSet
    <3> QED BY <1>2, <1>4, <3>1 DEF ToSet
  <2>2. ASSUME NEW x \in ToSet(s) \cap S PROVE x \in ToSet(F)
    <3>1. PICK i \in DOMAIN s : x = s[i]
      BY <2>2 DEF ToSet
    <3>2. i \in K
      BY <1>5, <2>2, <3>1
    <3>3. Rank(K, i) \in 1..n /\ F[Rank(K, i)] = x
      BY <1>2, <1>3, <3>1, <3>2
    <3> QED BY <1>6, <3>3 DEF ToSet
  <2> QED BY <2>1, <2>2
<1>8. ASSUME \A i, j \in DOMAIN s : s[i] = s[j] => i = j,
             NEW i \in DOMAIN F, NEW j \in DOMAIN F, F[i] = F[j]
      PROVE  i = j
  <2>1. order[i] \in K /\ order[j] \in K /\ s[order[i]] = s[order[j]]
    BY <1>2, <1>3, <1>6, <1>8
  <2>2. order[i] = order[j]
    BY <1>4, <1>8, <2>1
  <2> QED BY <1>2, <1>6, <1>8, <2>2
<1> QED BY <1>6, <1>7, <1>8 DEF F

(* A sequence is as long as what it holds, if it holds everything once.    *)
LEMMA DistinctCount ==
  ASSUME NEW X, NEW s \in Seq(X), \A i, j \in DOMAIN s : s[i] = s[j] => i = j
  PROVE  IsFiniteSet(ToSet(s)) /\ Cardinality(ToSet(s)) = Len(s)
<1>1. DOMAIN s = 1..Len(s) /\ Len(s) \in Nat /\ s \in [1..Len(s) -> ToSet(s)]
  BY DEF ToSet
<1>2. IsFiniteSet(1..Len(s)) /\ Cardinality(1..Len(s)) = Len(s)
  BY <1>1, FS_Interval
<1>3. s \in Surjection(1..Len(s), ToSet(s))
  BY <1>1 DEF Surjection, ToSet
<1>4. s \in Injection(1..Len(s), ToSet(s))
  BY <1>1 DEF Injection, IsInjective
<1> QED BY <1>2, <1>3, <1>4, FS_Surjection

-----------------------------------------------------------------------------
(* The sizes a picture is encoded in.                                      *)
LEMMA Quotient ==
  ASSUME NEW a \in Nat, NEW b \in Nat, b > 0
  PROVE  a \div b \in Nat /\ b * (a \div b) <= a /\ a < b * (a \div b) + b
OBVIOUS

LEMMA Cancel ==
  \A x, y, z \in Nat : z > 0 /\ x * z <= y * z => x <= y
OBVIOUS

LEMMA Monotone ==
  \A x, y, z \in Nat : x <= y => x * z <= y * z
OBVIOUS

LEMMA Reorder ==
  \A x, y, z \in Nat : (x * y) * z = (x * z) * y
OBVIOUS

Fraction == [num : Nat \ {0}, den : Nat \ {0}]
NoMore(s, t) == s.num * t.den <= t.num * s.den

LEMMA NoMoreIsTransitive ==
  ASSUME NEW r \in Fraction, NEW s \in Fraction, NEW t \in Fraction, NoMore(r, s), NoMore(s, t)
  PROVE  NoMore(r, t)
<1> DEFINE a == r.num  b == r.den  c == s.num  d == s.den  e == t.num  f == t.den
<1>1. /\ a \in Nat /\ b \in Nat /\ c \in Nat /\ d \in Nat /\ e \in Nat /\ f \in Nat
      /\ b > 0 /\ d > 0 /\ f > 0
  BY DEF Fraction
<1>2. a * d <= c * b /\ c * f <= e * d
  BY DEF NoMore
<1> HIDE DEF a, b, c, d, e, f
<1>p. /\ a * d \in Nat /\ c * b \in Nat /\ c * f \in Nat /\ e * d \in Nat /\ a * f \in Nat
      /\ e * b \in Nat
  BY <1>1
<1>3. (a * d) * f <= (c * b) * f
  BY <1>1, <1>2, <1>p, Monotone
<1>4. (c * f) * b <= (e * d) * b
  BY <1>1, <1>2, <1>p, Monotone
<1>5. (a * d) * f = (a * f) * d /\ (c * b) * f = (c * f) * b /\ (e * d) * b = (e * b) * d
  BY <1>1, Reorder
<1>m. (a * f) * d \in Nat /\ (c * f) * b \in Nat /\ (e * b) * d \in Nat
  BY <1>1, <1>p
<1>6. (a * f) * d <= (e * b) * d
  BY <1>3, <1>4, <1>5, <1>m
<1>7. a * f <= e * b
  BY <1>1, <1>6, <1>p, Cancel
<1> QED BY <1>7 DEF NoMore, a, b, e, f

LEMMA LesserOfTwo ==
  ASSUME NEW s \in Fraction, NEW t \in Fraction
  PROVE  NoMore(s, s) /\ (NoMore(s, t) \/ NoMore(t, s))
<1> DEFINE x == s.num * t.den
           y == t.num * s.den
<1>1. x \in Nat /\ y \in Nat /\ s.num * s.den \in Nat
  BY DEF Fraction
<1>2. NoMore(s, s)
  BY <1>1 DEF NoMore
<1>3. (NoMore(s, t) <=> x <= y) /\ (NoMore(t, s) <=> y <= x)
  BY DEF NoMore
<1> HIDE DEF x, y
<1> QED BY <1>1, <1>2, <1>3

LEMMA LeastScaleIsLeast ==
  ASSUME NEW a \in Fraction, NEW b \in Fraction, NEW c \in Fraction, NEW d \in Fraction
  PROVE  LET s == LeastScale({a, b, c, d})
         IN  s \in Fraction /\ \A t \in {a, b, c, d} : NoMore(s, t)
<1> DEFINE All == {a, b, c, d}
<1>1. \E m \in {a, b} : NoMore(m, a) /\ NoMore(m, b)
  BY LesserOfTwo
<1>2. \E m \in {c, d} : NoMore(m, c) /\ NoMore(m, d)
  BY LesserOfTwo
<1>3. PICK m \in {a, b} : NoMore(m, a) /\ NoMore(m, b)
  BY <1>1
<1>4. PICK k \in {c, d} : NoMore(k, c) /\ NoMore(k, d)
  BY <1>2
<1>5. m \in Fraction /\ k \in Fraction
  OBVIOUS
<1>6. \E s \in {m, k} : NoMore(s, m) /\ NoMore(s, k)
  BY <1>5, LesserOfTwo
<1>7. PICK s \in {m, k} : NoMore(s, m) /\ NoMore(s, k)
  BY <1>6
<1>8. NoMore(s, a) /\ NoMore(s, b) /\ NoMore(s, c) /\ NoMore(s, d)
  BY <1>3, <1>4, <1>5, <1>7, NoMoreIsTransitive
<1>9. s \in All /\ \A t \in All : NoMore(s, t)
  BY <1>8
<1>10. LeastScale(All) \in All /\ \A t \in All : NoMore(LeastScale(All), t)
  BY <1>9 DEF LeastScale, NoMore
<1> QED BY <1>10

LEMMA ScaledFits ==
  ASSUME NEW side \in Nat, side > 0, NEW most \in Nat, most > 0, NEW s \in Fraction,
         side * s.num <= most * s.den
  PROVE  LET k == Scaled(side, s) IN k \in Nat /\ 1 <= k /\ k <= side /\ k <= most
<1> DEFINE n == s.num  d == s.den
           a == 2 * side * n + d
           b == 2 * d
           q == a \div b
           k == Min({side, q})
<1>1. n \in Nat /\ d \in Nat /\ d > 0
  BY DEF Fraction
<1>2. side * n <= most * d /\ side * n \in Nat /\ most * d \in Nat
  BY <1>1
<1>3. 2 * side * n = 2 * (side * n)
  BY <1>1
<1> HIDE DEF n, d
<1>4. a \in Nat /\ b \in Nat /\ b > 0
  BY <1>1, <1>2, <1>3
<1>5. q \in Nat /\ b * q <= a
  <2> HIDE DEF a, b
  <2> QED BY <1>4, Quotient
<1>6. q <= most
  <2> SUFFICES ASSUME q >= most + 1 PROVE FALSE
    BY <1>5
  <2> HIDE DEF q
  <2>1. (most + 1) * b <= q * b
    BY <1>4, <1>5, Monotone
  <2>2. q * b = b * q /\ (most + 1) * b = 2 * (most * d) + 2 * d
    BY <1>1, <1>4, <1>5
  <2>3. b * q <= 2 * (side * n) + d /\ b * q \in Nat /\ (most + 1) * b \in Nat
    BY <1>3, <1>4, <1>5
  <2>4. 2 * (most * d) + 2 * d <= 2 * (side * n) + d
    <3> HIDE DEF a, b
    <3> QED BY <1>1, <1>2, <2>1, <2>2, <2>3
  <2> QED BY <1>1, <1>2, <2>4
<1>7. Scaled(side, s) = Max({1, k})
  BY DEF Scaled, n, d
<1> HIDE DEF a, b, q
<1>8. k = IF side <= q THEN side ELSE q
  BY <1>5, MinOfTwo
<1>9. k \in Nat /\ k <= side /\ k <= most
  BY <1>5, <1>6, <1>8
<1> HIDE DEF k
<1>10. Max({1, k}) = IF 1 >= k THEN 1 ELSE k
  BY <1>9, MaxOfTwo
<1> QED BY <1>7, <1>9, <1>10

(* A picture is not enlarged, and no side is longer than it may be.        *)
Sized(k, side, most) == k \in Nat /\ 1 <= k /\ k <= side /\ k <= most

LEMMA TargetFits ==
  ASSUME NEW width \in Nat, width > 0, NEW height \in Nat, height > 0,
         NEW opts, opts.width \in Nat \ {0}, opts.height \in Nat \ {0}, opts.scale \in Fraction
  PROVE  LET t == TargetDimensions(width, height, opts)
         IN  /\ t \in Nat \X Nat
             /\ Sized(t[1], width, opts.width) /\ Sized(t[2], height, opts.height)
<1> DEFINE one == [num |-> 1, den |-> 1]
           w == [num |-> opts.width, den |-> width]
           h == [num |-> opts.height, den |-> height]
           s == LeastScale({opts.scale, one, w, h})
<1>1. one \in Fraction /\ w \in Fraction /\ h \in Fraction
  BY DEF Fraction
<1>2. s \in Fraction /\ NoMore(s, w) /\ NoMore(s, h)
  <2> HIDE DEF one, w, h
  <2> QED BY <1>1, LeastScaleIsLeast
<1>3. TargetDimensions(width, height, opts) = <<Scaled(width, s), Scaled(height, s)>>
  BY DEF TargetDimensions
<1> HIDE DEF s
<1>4. s.num \in Nat /\ s.den \in Nat
  BY <1>2 DEF Fraction
<1>5. s.num * width <= opts.width * s.den /\ s.num * height <= opts.height * s.den
  BY <1>2 DEF NoMore
<1>6. s.num * width = width * s.num /\ s.num * height = height * s.num
  BY <1>4
<1>7. width * s.num <= opts.width * s.den /\ height * s.num <= opts.height * s.den
  BY <1>5, <1>6
<1>8. opts.width \in Nat /\ opts.width > 0 /\ opts.height \in Nat /\ opts.height > 0
  OBVIOUS
<1>9. Sized(Scaled(width, s), width, opts.width)
  BY <1>2, <1>7, <1>8, ScaledFits DEF Sized
<1>10. Sized(Scaled(height, s), height, opts.height)
  BY <1>2, <1>7, <1>8, ScaledFits DEF Sized
<1> QED BY <1>3, <1>9, <1>10 DEF Sized

LEMMA MaxIsGreatest ==
  ASSUME NEW n \in Nat, NEW T \in SUBSET (0..n), T # {}
  PROVE  Max(T) \in T /\ \A y \in T : y <= Max(T)
<1>1. PICK x \in T : \A y \in T : y <= x
  BY Greatest
<1>2. \A y \in T : y \in Int /\ x >= y
  BY <1>1
<1> QED BY <1>1, <1>2 DEF Max

LEMMA ShrunkFits ==
  ASSUME NEW side \in Nat, side > 0, NEW bytes, NEW cap
  PROVE  Sized(Shrunk(side, bytes, cap), side, side)
<1> DEFINE T == {1} \cup {k \in 1..side : /\ 20 * k <= 19 * side
                                          /\ \/ 100 * k * k * bytes <= 81 * side * side * cap
                                             \/ 10 * k <= side}
<1>1. Shrunk(side, bytes, cap) = Max(T)
  BY DEF Shrunk
<1>2. 1 \in T /\ T \subseteq 1..side /\ 1..side \subseteq 0..side
  OBVIOUS
<1> HIDE DEF T
<1>3. Max(T) \in T
  BY <1>2, MaxIsGreatest
<1>4. Max(T) \in 1..side
  BY <1>2, <1>3
<1> QED BY <1>1, <1>4 DEF Sized

-----------------------------------------------------------------------------
(* Types, and the sizes of the pictures.                                   *)
SizeInv(c) ==
  /\ pc[c] = "fit" \/ shot[c] = "done" =>
       /\ Sized(dims[c][1], picture[c].size, ask[c].opts.width)
       /\ Sized(dims[c][2], Height, ask[c].opts.height)
  /\ shot[c] = "done" => Bytes(dims[c]) <= ask[c].opts.cap

TypesInv == OwnershipInv /\ TypeOK /\ \A c \in Call : SizeInv(c)

LEMMA OptionsType ==
  ASSUME ask \in Plans, NEW c \in Call
  PROVE  /\ ask[c].opts.width \in Nat \ {0} /\ ask[c].opts.height \in Nat \ {0}
         /\ ask[c].opts.scale \in Fraction
         /\ ask[c].nodes \in Nat \ {0} /\ ask[c].depth \in Nat
<1>1. ask[c] \in Requests
  BY AppStateAssumption
<1> QED BY <1>1 DEF Requests, Fraction

LEMMA NextWorldTypes ==
  ASSUME TypeOK, [Next]_vars
  PROVE  /\ focus' \in Window \cup {None}
         /\ kids' \in [Obj -> Seq(Obj)] /\ gone' \subseteq Obj
         /\ events' \in 0..MaxEvents /\ events' >= events
         /\ events' = 0 => kids' = kids
<1>1. /\ focus \in Window \cup {None} /\ kids \in [Obj -> Seq(Obj)] /\ gone \subseteq Obj
      /\ events \in 0..MaxEvents /\ events \in Nat
  BY AppStateAssumption DEF TypeOK
<1>2. ASSUME NEW c \in Call,
             Proceeds(c) \/ Filter(c) \/ TakeHandle(c) \/ PortalFails(c) \/ Answers(c)
      PROVE  UNCHANGED <<kids, gone, events>> /\ focus' \in Window \cup {None}
  <2>1. CASE LookForShot(c)
    <3>1. Targeted(c) => ask[c].target \in Window
      BY RequestType DEF Targeted, TypeOK
    <3>2. UNCHANGED <<kids, gone, events>>
      BY <2>1 DEF LookForShot
    <3>3. focus' = focus \/ (Targeted(c) /\ focus' = ask[c].target)
      BY <2>1 DEF LookForShot
    <3> QED BY <1>1, <3>1, <3>2, <3>3
  <2>2. CASE ~LookForShot(c)
    <3>1. UNCHANGED worldVars
      BY <1>2, <2>2 DEF Proceeds, Filter, TakeHandle, PortalFails, Answers, PortalTimeout,
         TreeTimeout, LookForState, Subscribe, CallPortal, HearAnother, HearPicture,
         HearRefusal, Crop, Fit, Roots, Open, ReadChild, Push, WalkEnds, Still
    <3> QED BY <1>1, <3>1 DEF worldVars
  <2> QED BY <2>1, <2>2
<1>3. CASE Event
  <2>1. events < MaxEvents /\ events' = events + 1
    BY <1>3 DEF Event
  <2>2. events' \in 0..MaxEvents /\ events' >= events /\ events' # 0
    BY <1>1, <2>1, AppStateAssumption
  <2>3. ASSUME NEW w \in Window, Placed(w) \/ Focused(w) \/ Hidden(w)
        PROVE  UNCHANGED <<kids, gone>> /\ focus' \in Window \cup {None}
    BY <1>1, <2>3 DEF Placed, Focused, Hidden
  <2>4. CASE Resized
    BY <1>1, <2>2, <2>4 DEF Resized
  <2>5. ASSUME NEW o \in Mortal, Gone(o)
        PROVE  kids' \in [Obj -> Seq(Obj)] /\ gone' \subseteq Obj /\ focus' = focus
    <3>1. o \in Obj
      BY AppStateAssumption
    <3>2. \A p \in Obj : Filtered(kids[p], Obj \ {o}) \in Seq(Obj)
      <4> SUFFICES ASSUME NEW p \in Obj PROVE Filtered(kids[p], Obj \ {o}) \in Seq(Obj)
        OBVIOUS
      <4>1. kids[p] \in Seq(Obj)
        BY <1>1
      <4> QED BY <4>1, FilteredIsWithin
    <3>3. \A p \in Obj : (IF p = o THEN <<>> ELSE Filtered(kids[p], Obj \ {o})) \in Seq(Obj)
      <4> SUFFICES ASSUME NEW p \in Obj
                   PROVE  (IF p = o THEN <<>> ELSE Filtered(kids[p], Obj \ {o})) \in Seq(Obj)
        OBVIOUS
      <4>1. <<>> \in Seq(Obj)
        OBVIOUS
      <4>2. Filtered(kids[p], Obj \ {o}) \in Seq(Obj)
        BY <3>2
      <4> QED BY <4>1, <4>2
    <3> QED BY <1>1, <2>5, <3>1, <3>3 DEF Gone
  <2>6. ASSUME NEW o \in Mortal, NEW p \in Hosts, Added(o, p)
        PROVE  kids' \in [Obj -> Seq(Obj)] /\ gone' \subseteq Obj /\ focus' = focus
    <3>1. o \in Obj /\ p \in Obj
      BY AppStateAssumption
    <3>2. kids[p] \in Seq(Obj)
      BY <1>1, <3>1
    <3>3. <<o>> \o kids[p] \in Seq(Obj)
      BY <3>1, <3>2
    <3> QED BY <1>1, <2>6, <3>3 DEF Added
  <2> QED BY <1>1, <1>3, <2>2, <2>3, <2>4, <2>5, <2>6 DEF Event
<1>4. CASE UNCHANGED vars
  BY <1>1, <1>4 DEF vars, worldVars
<1> QED BY <1>1, <1>2, <1>3, <1>4 DEF Next

LEMMA NextFailures ==
  ASSUME failures \in 0..MaxFailures, [Next]_vars
  PROVE  failures' \in 0..MaxFailures /\ failures' >= failures
<1>1. Works \/ Fails
  <2>1. ASSUME NEW c \in Call,
             Proceeds(c) \/ Filter(c) \/ TakeHandle(c) \/ PortalFails(c) \/ Answers(c)
        PROVE  Works \/ Fails
    <3>1. CASE Roots(c)
      <4>1. PICK listed : IF listed = Apps THEN Works ELSE Fails
        BY <3>1 DEF Roots
      <4> QED BY <4>1
    <3>2. CASE Answers(c)
      <4>1. PICK ok \in BOOLEAN : IF ok THEN Works ELSE Fails
        BY <3>2 DEF Answers
      <4> QED BY <4>1
    <3>3. CASE ~Roots(c) /\ ~Answers(c)
      BY <2>1, <3>3 DEF Proceeds, Filter, TakeHandle, PortalFails, PortalTimeout, TreeTimeout,
         LookForState, LookForShot, Subscribe, CallPortal, HearAnother, HearPicture,
         HearRefusal, Crop, Fit, Open, ReadChild, Push, WalkEnds
    <3> QED BY <3>1, <3>2, <3>3
  <2>2. CASE Event
    BY <2>2 DEF Event
  <2>3. CASE UNCHANGED vars
    BY <2>3 DEF vars, Works
  <2> QED BY <2>1, <2>2, <2>3 DEF Next
<1> QED BY <1>1, AppStateAssumption DEF Works, Fails

(* The steps that end a picture.                                           *)
LEMMA EndingTypes ==
  ASSUME TypeOK, NEW c \in Call, NEW how \in {"refused", "failed", "done"}, PictureEnds(c, how)
  PROVE  /\ shot' \in [Call -> {"none", "refused", "failed", "done"}]
         /\ access' \in [Call -> {"none", "failed", "done"}]
         /\ win' = win
<1>1. /\ shot \in [Call -> {"none", "refused", "failed", "done"}]
      /\ access \in [Call -> {"none", "failed", "done"}]
  BY DEF TypeOK
<1>2. shot' = [shot EXCEPT ![c] = how] /\ win' = win
  BY DEF PictureEnds
<1>3. \E a \in {"none", "failed", "done"} : access' = [access EXCEPT ![c] = a]
  BY <1>1 DEF PictureEnds
<1> QED BY <1>1, <1>2, <1>3

LEMMA NextEndTypes ==
  ASSUME TypeOK, [Next]_vars
  PROVE  /\ shot' \in [Call -> {"none", "refused", "failed", "done"}]
         /\ access' \in [Call -> {"none", "failed", "done"}]
         /\ win' \in [Call -> Listings \cup {None}]
<1>1. /\ shot \in [Call -> {"none", "refused", "failed", "done"}]
      /\ access \in [Call -> {"none", "failed", "done"}]
      /\ win \in [Call -> Listings \cup {None}]
      /\ desk \in [Window -> Views] /\ ask \in Plans
  BY DEF TypeOK
<1>2. ASSUME NEW c \in Call, LookForState(c)
      PROVE  shot' = shot /\ access' = access /\ win' \in [Call -> Listings \cup {None}]
  <2>1. shot' = shot /\ access' = access
    BY <1>2 DEF LookForState, pictureVars, treeVars
  <2>2. Targeted(c) => Listed(ask[c].target) \in Listings
    BY <1>1, RequestType, ListedType DEF Targeted
  <2>3. win' = win \/ \E r \in Listings \cup {None} : win' = [win EXCEPT ![c] = r]
    BY <1>2, <2>2 DEF LookForState
  <2> QED BY <1>1, <2>1, <2>3
<1>3. ASSUME NEW c \in Call, LookForShot(c)
      PROVE  /\ shot' \in [Call -> {"none", "refused", "failed", "done"}]
             /\ access' = access /\ win' \in [Call -> Listings \cup {None}]
  <2> DEFINE w == ask[c].target
             seen == [Listed(w) EXCEPT !.focused = ask[c].raise \/ @, !.hidden = FALSE]
  <2>1. access' = access /\ (shot' = shot \/ shot' = [shot EXCEPT ![c] = "refused"])
    BY <1>3 DEF LookForShot, treeVars
  <2>2. Targeted(c) => Listed(w) \in Listings
    BY <1>1, RequestType, ListedType DEF Targeted
  <2>3. ask[c].raise \in BOOLEAN
    <3>1. ask[c] \in Requests
      BY <1>1, AppStateAssumption
    <3> QED BY <3>1 DEF Requests
  <2>4. Targeted(c) => seen \in Listings
    BY <2>2, <2>3 DEF Listings
  <2>5. win' = win \/ (Targeted(c) /\ win' = [win EXCEPT ![c] = seen])
    BY <1>3 DEF LookForShot
  <2> HIDE DEF seen
  <2> QED BY <1>1, <2>1, <2>4, <2>5
<1>4. ASSUME NEW c \in Call, Crop(c) \/ Fit(c) \/ HearRefusal(c) \/ PortalTimeout(c) \/ PortalFails(c)
      PROVE  /\ shot' \in [Call -> {"none", "refused", "failed", "done"}]
             /\ access' \in [Call -> {"none", "failed", "done"}]
             /\ win' = win
  <2>1. \/ PictureEnds(c, "refused") \/ PictureEnds(c, "failed") \/ PictureEnds(c, "done")
        \/ UNCHANGED <<shot, access, win>>
    BY <1>4 DEF Crop, Fit, HearRefusal, PortalTimeout, PortalFails
  <2>2. CASE PictureEnds(c, "refused")
    BY <2>2, EndingTypes
  <2>3. CASE PictureEnds(c, "failed")
    BY <2>3, EndingTypes
  <2>4. CASE PictureEnds(c, "done")
    BY <2>4, EndingTypes
  <2>5. CASE UNCHANGED <<shot, access, win>>
    BY <1>1, <2>5
  <2> QED BY <2>1, <2>2, <2>3, <2>4, <2>5
<1>5. ASSUME NEW c \in Call, \/ Filter(c) \/ TreeTimeout(c) \/ Roots(c) \/ WalkEnds(c)
                             \/ Open(c) \/ ReadChild(c) \/ Push(c)
      PROVE  shot' = shot /\ win' = win /\ access' \in [Call -> {"none", "failed", "done"}]
  <2>1. shot' = shot /\ win' = win
    BY <1>5 DEF Filter, TreeTimeout, Roots, WalkEnds, Open, ReadChild, Push, pictureVars
  <2>2. access' = access \/ \E a \in {"none", "failed", "done"} : access' = [access EXCEPT ![c] = a]
    BY <1>1, <1>5 DEF Filter, TreeTimeout, Roots, WalkEnds, Open, ReadChild, Push, treeVars
  <2> QED BY <1>1, <2>1, <2>2
<1>6. ASSUME NEW c \in Call, \/ Subscribe(c) \/ CallPortal(c) \/ TakeHandle(c) \/ Answers(c)
                             \/ HearAnother(c) \/ HearPicture(c)
      PROVE  shot' = shot /\ win' = win /\ access' = access
  BY <1>6 DEF Subscribe, CallPortal, TakeHandle, Answers, HearAnother, HearPicture, pictureVars,
              treeVars
<1>7. CASE Event \/ UNCHANGED vars
  BY <1>1, <1>7 DEF Event, vars, pictureVars, treeVars
<1> QED BY <1>1, <1>2, <1>3, <1>4, <1>5, <1>6, <1>7 DEF Next, Proceeds

(* The numbers of a picture.                                               *)
PictureNumbers ==
  /\ desktopSize \in Desktops \cup {0} /\ raw \in [Call -> Desktops \cup {0}]
  /\ picture \in [Call -> [of : Call \cup {None}, from : Nat, size : Nat]]
  /\ crop \in [Call -> [at : Nat, size : Nat]] /\ dims \in [Call -> Nat \X Nat]
  /\ offNote \in [Call -> BOOLEAN]

LEMMA HearPictureTypes ==
  ASSUME TypesInv, NEW c \in Call, HearPicture(c)
  PROVE  PictureNumbers'
<1>1. PictureNumbers
  BY DEF TypesInv, TypeOK, PictureNumbers
<1>2. heard[c] \in Seq(Response) /\ heard[c] # <<>>
  BY DEF TypesInv, OwnershipInv, CaptureInv, PictureInv, HearPicture
<1>3. heard[c][1] \in Response
  BY <1>2
<1> DEFINE p == heard[c][1].picture
<1>4. p \in [of : Call, from : {0}, size : Desktops]
  BY <1>3 DEF Response
<1>5. /\ picture' = [picture EXCEPT ![c] = p] /\ UNCHANGED <<crop, dims, offNote>>
      /\ raw' = [raw EXCEPT ![c] = picture'[c].size] /\ desktopSize' = picture'[c].size
  BY DEF HearPicture
<1> HIDE DEF p
<1>6. p \in [of : Call \cup {None}, from : Nat, size : Nat] /\ p.size \in Desktops
  <2>1. p.of \in Call /\ p.from = 0 /\ p.size \in Desktops
        /\ p = [of |-> p.of, from |-> p.from, size |-> p.size]
    BY <1>4
  <2>2. p.size \in Nat
    BY <2>1, AppStateAssumption
  <2> QED BY <2>1, <2>2
<1>7. picture'[c] = p
  BY <1>1, <1>5 DEF PictureNumbers
<1> QED BY <1>1, <1>5, <1>6, <1>7 DEF PictureNumbers

LEMMA CropTypes ==
  ASSUME TypesInv, NEW c \in Call, Crop(c)
  PROVE  PictureNumbers' /\ SizeInv(c)'
<1>1. /\ PictureNumbers /\ Shapes /\ PictureInv(c) /\ pc[c] = "crop" /\ ask \in Plans
      /\ pc \in [Call -> Step] /\ shot \in [Call -> {"none", "refused", "failed", "done"}]
      /\ shot[c] # "done" /\ UNCHANGED <<raw, desktopSize>>
  BY DEF TypesInv, OwnershipInv, CaptureInv, TypeOK, PictureNumbers, PictureInv, Crop, Later
<1>2. CASE Fits(c)
  <2> DEFINE K == Cut(c)
             C == IF ask[c].region = None THEN Rect(c) ELSE Shifted(Region(c), Rect(c).at)
             T == TargetDimensions(K.size, Height, ask[c].opts)
             N == /\ ToolOf(c) = "shot" /\ CropsToWindow(c)
                  /\ OffScreen(win[c].place, desktopSize)
  <2>1. /\ picture' = [picture EXCEPT ![c].from = K.from, ![c].size = K.size]
        /\ crop' = [crop EXCEPT ![c] = C] /\ pc' = [pc EXCEPT ![c] = "fit"]
        /\ dims' = [dims EXCEPT ![c] = T] /\ offNote' = [offNote EXCEPT ![c] = N]
        /\ UNCHANGED <<ask, win, shot>>
    BY <1>1, <1>2 DEF Crop, Goto
  <2>2. Agrees(c)' /\ K.from \in Nat /\ K.size \in Nat /\ crop'[c] \in [at : Nat, size : Nat]
    BY <1>1, <1>2, <2>1, CutAgrees
  <2>3. N \in BOOLEAN
    OBVIOUS
  <2> HIDE DEF K, C, N
  <2>4. picture'[c].size = K.size
    BY <1>1, <2>1 DEF PictureNumbers
  <2>5. K.size > 0
    BY <2>2, <2>4 DEF Agrees
  <2>6. /\ ask[c].opts.width \in Nat \ {0} /\ ask[c].opts.height \in Nat \ {0}
        /\ ask[c].opts.scale \in Fraction /\ Height \in Nat /\ Height > 0
    BY <1>1, OptionsType, AppStateAssumption
  <2>7. /\ T \in Nat \X Nat /\ Sized(T[1], K.size, ask[c].opts.width)
        /\ Sized(T[2], Height, ask[c].opts.height)
    BY <2>2, <2>5, <2>6, TargetFits
  <2> HIDE DEF T
  <2>8. crop' \in [Call -> [at : Nat, size : Nat]]
    BY <1>1, <2>1, <2>2 DEF PictureNumbers
  <2>p. picture' \in [Call -> [of : Call \cup {None}, from : Nat, size : Nat]]
    <3>1. picture \in [Call -> [of : Call \cup {None}, from : Nat, size : Nat]]
      BY <1>1 DEF PictureNumbers
    <3> QED BY <2>1, <2>2, <3>1
  <2>d. dims' \in [Call -> Nat \X Nat]
    BY <1>1, <2>1, <2>7 DEF PictureNumbers
  <2>o. offNote' \in [Call -> BOOLEAN]
    BY <1>1, <2>1, <2>3 DEF PictureNumbers
  <2>9. PictureNumbers'
    BY <1>1, <2>8, <2>p, <2>d, <2>o DEF PictureNumbers
  <2>10. dims'[c] = T
    BY <1>1, <2>1 DEF PictureNumbers
  <2>11. SizeInv(c)'
    BY <1>1, <2>1, <2>4, <2>7, <2>10 DEF SizeInv
  <2> QED BY <2>9, <2>11
<1>3. CASE ~Fits(c)
  <2>1. PictureEnds(c, "refused") /\ UNCHANGED <<picture, crop, dims, offNote>>
    BY <1>3 DEF Crop
  <2>2. shot'[c] = "refused" /\ pc'[c] = AfterPicture(c)
    BY <1>1, <2>1 DEF PictureEnds, Goto
  <2>3. pc'[c] # "fit"
    BY <2>2 DEF AfterPicture
  <2> QED BY <1>1, <2>1, <2>2, <2>3 DEF PictureNumbers, SizeInv
<1> QED BY <1>2, <1>3

LEMMA FitTypes ==
  ASSUME TypesInv, NEW c \in Call, Fit(c)
  PROVE  PictureNumbers' /\ SizeInv(c)'
<1>1. /\ PictureNumbers /\ PictureInv(c) /\ SizeInv(c) /\ pc[c] = "fit" /\ ask' = ask
      /\ pc \in [Call -> Step] /\ shot \in [Call -> {"none", "refused", "failed", "done"}]
      /\ UNCHANGED <<raw, desktopSize, picture, crop, offNote>>
  BY DEF TypesInv, OwnershipInv, CaptureInv, TypeOK, PictureNumbers, Fit, PictureEnds
<1>2. shot[c] # "done"
  BY <1>1 DEF PictureInv, Later
<1>3. /\ Sized(dims[c][1], picture[c].size, ask[c].opts.width)
      /\ Sized(dims[c][2], Height, ask[c].opts.height)
  BY <1>1 DEF SizeInv
<1>4. CASE Bytes(dims[c]) <= ask[c].opts.cap /\ PictureEnds(c, "done") /\ UNCHANGED dims
  BY <1>1, <1>3, <1>4 DEF PictureNumbers, SizeInv, Bytes
<1>5. CASE PictureEnds(c, "failed") /\ UNCHANGED dims
  <2>1. shot'[c] = "failed" /\ pc'[c] = AfterPicture(c)
    BY <1>1, <1>5 DEF PictureEnds, Goto
  <2>2. pc'[c] # "fit"
    BY <2>1 DEF AfterPicture
  <2> QED BY <1>1, <1>5, <2>1, <2>2 DEF PictureNumbers, SizeInv
<1>6. CASE /\ dims' = [dims EXCEPT ![c] = NextDimensions(@, Bytes(@), ask[c].opts.cap)]
           /\ UNCHANGED <<ask, pc, shot>>
  <2> DEFINE b == Bytes(dims[c])
             k == ask[c].opts.cap
             x == Shrunk(dims[c][1], b, k)
             y == Shrunk(dims[c][2], b, k)
  <2>1. dims' = [dims EXCEPT ![c] = <<x, y>>] /\ dims'[c] = <<x, y>>
    BY <1>1, <1>6 DEF NextDimensions, PictureNumbers
  <2>2. /\ dims[c][1] \in Nat /\ dims[c][1] > 0 /\ dims[c][2] \in Nat /\ dims[c][2] > 0
    BY <1>3 DEF Sized
  <2> HIDE DEF b, k
  <2>3. Sized(x, dims[c][1], dims[c][1]) /\ Sized(y, dims[c][2], dims[c][2])
    BY <2>2, ShrunkFits
  <2> HIDE DEF x, y
  <2>4. /\ picture[c].size \in Nat /\ ask[c].opts.width \in Nat
        /\ Height \in Nat /\ ask[c].opts.height \in Nat
    BY <1>1, OptionsType, AppStateAssumption DEF PictureNumbers, TypesInv, TypeOK
  <2>5. Sized(x, picture[c].size, ask[c].opts.width) /\ Sized(y, Height, ask[c].opts.height)
    BY <1>3, <2>2, <2>3, <2>4 DEF Sized
  <2>6. x \in Nat /\ y \in Nat
    BY <2>3 DEF Sized
  <2> QED BY <1>1, <1>2, <1>6, <2>1, <2>5, <2>6 DEF PictureNumbers, SizeInv
<1> QED BY <1>4, <1>5, <1>6 DEF Fit

(* A picture whose end is another's business stays as it is.               *)
LEMMA SizeGoesOn ==
  ASSUME NEW c \in Call, SizeInv(c), dims'[c] = dims[c], picture'[c] = picture[c],
         ask'[c] = ask[c],
         pc'[c] = "fit" => pc[c] = "fit", shot'[c] = "done" => shot[c] = "done"
  PROVE  SizeInv(c)'
BY DEF SizeInv, Bytes

LEMMA NextNumbers ==
  ASSUME TypesInv, [Next]_vars
  PROVE  PictureNumbers' /\ \A d \in Call : SizeInv(d)'
<1>1. /\ PictureNumbers /\ pc \in [Call -> Step]
      /\ shot \in [Call -> {"none", "refused", "failed", "done"}]
      /\ \A d \in Call : SizeInv(d) /\ PictureInv(d)
  BY DEF TypesInv, OwnershipInv, CaptureInv, TypeOK, PictureNumbers
<1>2. ASSUME NEW c \in Call, HearPicture(c)
      PROVE  PictureNumbers' /\ \A d \in Call : SizeInv(d)'
  <2>1. PictureNumbers'
    BY <1>2, HearPictureTypes
  <2>2. /\ pc[c] = "wait" /\ pc' = [pc EXCEPT ![c] = "crop"]
        /\ picture' = [picture EXCEPT ![c] = heard[c][1].picture]
        /\ UNCHANGED <<ask, dims, shot>>
    BY <1>2 DEF HearPicture, Goto
  <2>3. shot[c] # "done"
    BY <1>1, <2>2 DEF PictureInv, Later
  <2>4. SizeInv(c)'
    BY <1>1, <2>2, <2>3 DEF SizeInv
  <2>5. ASSUME NEW d \in Call, d # c PROVE SizeInv(d)'
    <3>1. pc'[d] = pc[d] /\ picture'[d] = picture[d]
      BY <1>1, <2>2, <2>5 DEF PictureNumbers
    <3> QED BY <1>1, <2>2, <3>1, SizeGoesOn
  <2> QED BY <2>1, <2>4, <2>5
<1>3. ASSUME NEW c \in Call, Crop(c) \/ Fit(c)
      PROVE  PictureNumbers' /\ \A d \in Call : SizeInv(d)'
  <2>1. PictureNumbers' /\ SizeInv(c)'
    BY <1>3, CropTypes, FitTypes
  <2>2. ASSUME NEW d \in Call, d # c PROVE SizeInv(d)'
    <3>1. /\ pc'[d] = pc[d] /\ ask' = ask /\ shot'[d] = shot[d]
      BY <1>1, <1>3, <2>2 DEF Crop, Fit, PictureEnds, Goto
    <3>2. dims'[d] = dims[d]
      BY <1>1, <1>3, <2>2 DEF Crop, Fit, PictureNumbers
    <3>3. picture'[d] = picture[d]
      <4>1. CASE Fit(c)
        BY <4>1 DEF Fit
      <4>2. CASE Crop(c)
        <5> DEFINE cut == Cut(c)
        <5>1. \/ picture' = picture
              \/ picture' = [picture EXCEPT ![c].from = cut.from, ![c].size = cut.size]
          BY <4>2 DEF Crop
        <5> HIDE DEF cut
        <5> QED BY <1>1, <2>2, <5>1 DEF PictureNumbers
      <4> QED BY <1>3, <4>1, <4>2
    <3> QED BY <1>1, <3>1, <3>2, <3>3, SizeGoesOn
  <2> QED BY <2>1, <2>2
<1>4. ASSUME NEW c \in Call,
             Proceeds(c) \/ Filter(c) \/ TakeHandle(c) \/ PortalFails(c) \/ Answers(c),
             ~HearPicture(c), ~Crop(c), ~Fit(c)
      PROVE  PictureNumbers' /\ \A d \in Call : SizeInv(d)'
  <2>1. /\ UNCHANGED <<desktopSize, raw, picture, crop, dims, offNote, ask>>
    BY <1>4 DEF Proceeds, Filter, TakeHandle, PortalFails, Answers, PortalTimeout,
         TreeTimeout, LookForState, LookForShot, Subscribe, CallPortal, HearAnother,
         HearRefusal, Roots, Open, ReadChild, Push, WalkEnds, pictureVars, PictureEnds
  <2>2. ASSUME NEW d \in Call
        PROVE  pc'[d] = "fit" => pc[d] = "fit"
    <3>1. pc' = pc \/ \E s \in Step \ {"fit"} : pc' = [pc EXCEPT ![c] = s]
      BY <1>4 DEF Proceeds, Filter, TakeHandle, PortalFails, Answers, PortalTimeout,
         TreeTimeout, LookForState, LookForShot, Subscribe, CallPortal, HearAnother,
         HearRefusal, Roots, Open, ReadChild, Push, WalkEnds, Goto, PictureEnds, AfterPicture,
         Step
    <3> QED BY <1>1, <3>1
  <2>3. ASSUME NEW d \in Call
        PROVE  shot'[d] = "done" => shot[d] = "done"
    <3>1. \/ shot' = shot \/ shot' = [shot EXCEPT ![c] = "refused"]
          \/ shot' = [shot EXCEPT ![c] = "failed"]
      BY <1>4 DEF Proceeds, Filter, TakeHandle, PortalFails, Answers, PortalTimeout,
         TreeTimeout, LookForState, LookForShot, Subscribe, CallPortal, HearAnother,
         HearRefusal, Roots, Open, ReadChild, Push, WalkEnds, PictureEnds, pictureVars
    <3> QED BY <1>1, <3>1
  <2> QED BY <1>1, <2>1, <2>2, <2>3, SizeGoesOn DEF PictureNumbers
<1>5. CASE Event \/ UNCHANGED vars
  <2>1. UNCHANGED <<pictureVars, ask, pc>>
    BY <1>5 DEF Event, vars
  <2> QED BY <1>1, <2>1, SizeGoesOn DEF pictureVars, PictureNumbers
<1> QED BY <1>2, <1>3, <1>4, <1>5 DEF Next

LEMMA NextTypes == TypesInv /\ [Next]_vars => TypesInv'
<1> SUFFICES ASSUME TypesInv, [Next]_vars PROVE TypesInv'
  OBVIOUS
<1>1. OwnershipInv'
  BY NextOwnership DEF TypesInv
<1>2. /\ focus' \in Window \cup {None}
      /\ kids' \in [Obj -> Seq(Obj)] /\ gone' \subseteq Obj /\ events' \in 0..MaxEvents
  BY NextWorldTypes DEF TypesInv
<1>3. failures' \in 0..MaxFailures
  BY NextFailures DEF TypesInv, TypeOK
<1>4. /\ shot' \in [Call -> {"none", "refused", "failed", "done"}]
      /\ access' \in [Call -> {"none", "failed", "done"}]
      /\ win' \in [Call -> Listings \cup {None}]
  BY NextEndTypes DEF TypesInv
<1>5. PictureNumbers' /\ \A d \in Call : SizeInv(d)'
  BY NextNumbers
<1>6. /\ desk' \in [Window -> Views] /\ display' \in Desktops /\ ask' \in Plans
      /\ pc' \in [Call -> Step] /\ portal' \in [Call -> {"none", "asked", "answered"}]
  BY <1>1 DEF OwnershipInv, CaptureInv, Shapes
<1>7. TypeOK'
  BY <1>2, <1>3, <1>4, <1>5, <1>6 DEF TypeOK, PictureNumbers
<1> QED BY <1>1, <1>5, <1>7 DEF TypesInv

LEMMA InitTypes == Init => TypesInv
<1> SUFFICES ASSUME Init PROVE TypesInv
  OBVIOUS
<1>1. OwnershipInv
  <2>1. \A c \in Call : pc[c] \in {"end", "look"} /\ portal[c] = "none" /\ shot[c] = "none"
    BY DEF Init
  <2> QED BY <2>1, InitCapture DEF Init, OwnershipInv, OwnInv, Early, Holding
<1>2. TypeOK
  <2>1. /\ desk \in [Window -> Views] /\ display \in Desktops /\ ask \in Plans
        /\ pc \in [Call -> Step]
    BY <1>1 DEF OwnershipInv, CaptureInv, Shapes
  <2>2. NoPicture \in [of : Call \cup {None}, from : Nat, size : Nat]
        /\ NoRect \in [at : Nat, size : Nat] /\ <<1, 1>> \in Nat \X Nat
    BY DEF NoPicture, NoRect
  <2> QED BY <2>1, <2>2, AppStateAssumption DEF Init, TypeOK
<1>3. \A c \in Call : SizeInv(c)
  BY DEF Init, SizeInv
<1> QED BY <1>1, <1>2, <1>3 DEF TypesInv

LEMMA SizesSuffice == TypesInv => FitsPayload
<1> SUFFICES ASSUME TypesInv, NEW c \in Call, shot[c] = "done"
             PROVE  /\ Bytes(dims[c]) <= ask[c].opts.cap
                    /\ dims[c][1] \in 1..Min({picture[c].size, ask[c].opts.width})
                    /\ dims[c][2] \in 1..Min({Height, ask[c].opts.height})
  BY DEF FitsPayload
<1>1. /\ Bytes(dims[c]) <= ask[c].opts.cap
      /\ Sized(dims[c][1], picture[c].size, ask[c].opts.width)
      /\ Sized(dims[c][2], Height, ask[c].opts.height)
  BY DEF TypesInv, SizeInv
<1>2. /\ picture[c].size \in Int /\ ask[c].opts.width \in Int
      /\ Height \in Int /\ ask[c].opts.height \in Int
  BY OptionsType, AppStateAssumption DEF TypesInv, TypeOK
<1>3. Min({picture[c].size, ask[c].opts.width}) =
        IF picture[c].size <= ask[c].opts.width THEN picture[c].size ELSE ask[c].opts.width
  BY <1>2, MinOfTwo
<1>4. Min({Height, ask[c].opts.height}) =
        IF Height <= ask[c].opts.height THEN Height ELSE ask[c].opts.height
  BY <1>2, MinOfTwo
<1> QED BY <1>1, <1>2, <1>3, <1>4 DEF Sized

-----------------------------------------------------------------------------
(* The walk through the tree.                                              *)
LEMMA HeadAndTail ==
  ASSUME NEW X, NEW q \in Seq(X), q # <<>>
  PROVE  /\ Head(q) \in X /\ Head(q) = q[1] /\ Len(q) \in Nat /\ Len(q) > 0
         /\ Tail(q) \in Seq(X) /\ Len(Tail(q)) = Len(q) - 1
         /\ \A k \in 1..(Len(q) - 1) : k + 1 \in 1..Len(q) /\ Tail(q)[k] = q[k + 1]
OBVIOUS

LEMMA Appended ==
  ASSUME NEW X, NEW q \in Seq(X), NEW x \in X
  PROVE  /\ Append(q, x) \in Seq(X) /\ Len(Append(q, x)) = Len(q) + 1 /\ Len(q) \in Nat
         /\ \A k \in 1..Len(q) : Append(q, x)[k] = q[k]
         /\ Append(q, x)[Len(q) + 1] = x
OBVIOUS

LEMMA Joined ==
  ASSUME NEW X, NEW q \in Seq(X), NEW r \in Seq(X)
  PROVE  /\ q \o r \in Seq(X) /\ Len(q \o r) = Len(q) + Len(r)
         /\ Len(q) \in Nat /\ Len(r) \in Nat
         /\ \A k \in 1..Len(q) : (q \o r)[k] = q[k]
         /\ \A k \in 1..Len(r) : (q \o r)[Len(q) + k] = r[k]
         /\ \A k \in (Len(q) + 1)..(Len(q) + Len(r)) :
              k - Len(q) \in 1..Len(r) /\ (q \o r)[k] = r[k - Len(q)]
OBVIOUS

LEMMA MinOfThree ==
  \A a, b, c \in Int : /\ Min({a, b, c}) \in {a, b, c}
                       /\ Min({a, b, c}) <= a /\ Min({a, b, c}) <= b /\ Min({a, b, c}) <= c
<1> SUFFICES ASSUME NEW a \in Int, NEW b \in Int, NEW c \in Int
             PROVE  /\ Min({a, b, c}) \in {a, b, c}
                    /\ Min({a, b, c}) <= a /\ Min({a, b, c}) <= b /\ Min({a, b, c}) <= c
  OBVIOUS
<1> DEFINE k == IF a <= b THEN a ELSE b
           m == IF k <= c THEN k ELSE c
<1>1. m \in {a, b, c} /\ \A y \in {a, b, c} : m <= y
  OBVIOUS
<1> HIDE DEF m
<1>2. Min({a, b, c}) \in {a, b, c} /\ \A y \in {a, b, c} : Min({a, b, c}) <= y
  BY <1>1 DEF Min
<1> QED BY <1>2

Item == [obj : Obj, depth : Nat, parent : Nat]
Node == [obj : Obj, depth : Nat, parent : Nat, live : BOOLEAN]

Walks == [queue : Seq(Item), tried : Nat, reads : Nat, nodes : Seq(Node), root : Seq(Obj),
          now : [obj : Obj \cup {None}, depth : Nat, parent : Nat], want : Nat, index : Nat,
          got : Seq(Obj)]

(* An object is below a node that was read before it, one level deeper.    *)
Hangs(x, n, deep) ==
  /\ x.parent \in 0..Len(n) /\ x.depth <= deep
  /\ x.depth = IF x.parent = 0 THEN 0 ELSE n[x.parent].depth + 1

(* A walk that may have so many nodes, so many levels deep. The objects    *)
(* that wait are those of two levels, the deepest node's or the next.      *)
Shape(w, most, deep) ==
  /\ w \in Walks
  /\ w.tried + Len(w.queue) <= most /\ Len(w.nodes) <= w.tried
  /\ \A i \in 1..Len(w.nodes) : Hangs(w.nodes[i], w.nodes, deep) /\ w.nodes[i].parent < i
  /\ \A i, j \in 1..Len(w.nodes) : j <= i => w.nodes[j].depth <= w.nodes[i].depth
  /\ \A k \in 1..Len(w.queue) : Hangs(w.queue[k], w.nodes, deep)
  /\ \A k, l \in 1..Len(w.queue) :
       k <= l => /\ w.queue[k].depth <= w.queue[l].depth
                 /\ w.queue[l].depth <= w.queue[k].depth + 1
  /\ \A i \in 1..Len(w.nodes), k \in 1..Len(w.queue) : w.nodes[i].depth <= w.queue[k].depth

(* The object whose children are read.                                     *)
Reading(w, deep) ==
  /\ Len(w.nodes) < w.tried /\ w.now \in Item /\ Hangs(w.now, w.nodes, deep)
  /\ \A k \in 1..Len(w.queue) : /\ w.now.depth <= w.queue[k].depth
                                /\ w.queue[k].depth <= w.now.depth + 1
  /\ \A i \in 1..Len(w.nodes) : w.nodes[i].depth <= w.now.depth
  /\ w.index <= w.want /\ Len(w.got) <= w.index
  /\ w.want # 0 => w.now.depth < deep

WalkInv(c) == /\ Shape(walk[c], ask[c].nodes, ask[c].depth)
              /\ pc[c] = "kids" => Reading(walk[c], ask[c].depth)

(* The next object is taken from the queue; its node is pushed, and its    *)
(* children wait behind the others.                                        *)
Takes(w, v) ==
  v.queue = Tail(w.queue) /\ v.tried = w.tried + 1 /\ v.nodes = w.nodes

Pushes(w, v, live, kid) ==
  /\ v.queue = w.queue \o kid /\ v.tried = w.tried
  /\ v.nodes = Append(w.nodes, [obj |-> w.now.obj, depth |-> w.now.depth,
                                parent |-> w.now.parent, live |-> live])
  /\ \A k \in 1..Len(kid) : kid[k].depth = w.now.depth + 1 /\ kid[k].parent = Len(w.nodes) + 1

LEMMA TakenKeepsShape ==
  ASSUME NEW most \in Nat, NEW deep \in Nat, NEW w, Shape(w, most, deep),
         w.queue # <<>>, w.tried < most,
         NEW v \in Walks, Takes(w, v)
  PROVE  Shape(v, most, deep)
<1>1. /\ w.queue \in Seq(Item) /\ w.nodes \in Seq(Node) /\ w.tried \in Nat
  BY DEF Shape, Walks
<1>2. /\ Len(w.queue) \in Nat /\ Len(w.queue) > 0 /\ Len(v.queue) = Len(w.queue) - 1
      /\ v.tried = w.tried + 1 /\ v.nodes = w.nodes
      /\ \A k \in 1..(Len(w.queue) - 1) :
           k + 1 \in 1..Len(w.queue) /\ v.queue[k] = w.queue[k + 1]
  BY <1>1, HeadAndTail DEF Takes
<1>3. v.tried + Len(v.queue) <= most /\ Len(v.nodes) <= v.tried
  BY <1>1, <1>2 DEF Shape
<1>4. \A k, l \in 1..Len(v.queue) :
        k <= l => /\ v.queue[k].depth <= v.queue[l].depth
                  /\ v.queue[l].depth <= v.queue[k].depth + 1
  <2> SUFFICES ASSUME NEW k \in 1..Len(v.queue), NEW l \in 1..Len(v.queue), k <= l
               PROVE  /\ v.queue[k].depth <= v.queue[l].depth
                      /\ v.queue[l].depth <= v.queue[k].depth + 1
    OBVIOUS
  <2>1. /\ k + 1 \in 1..Len(w.queue) /\ v.queue[k] = w.queue[k + 1]
        /\ l + 1 \in 1..Len(w.queue) /\ v.queue[l] = w.queue[l + 1] /\ k + 1 <= l + 1
    BY <1>2
  <2> QED BY <1>2, <2>1 DEF Shape
<1>5. \A k \in 1..Len(v.queue) :
        /\ Hangs(v.queue[k], v.nodes, deep)
        /\ \A i \in 1..Len(v.nodes) : v.nodes[i].depth <= v.queue[k].depth
  <2> SUFFICES ASSUME NEW k \in 1..Len(v.queue)
               PROVE  /\ Hangs(v.queue[k], v.nodes, deep)
                      /\ \A i \in 1..Len(v.nodes) : v.nodes[i].depth <= v.queue[k].depth
    OBVIOUS
  <2>1. k + 1 \in 1..Len(w.queue) /\ v.queue[k] = w.queue[k + 1]
    BY <1>2
  <2> QED BY <1>2, <2>1 DEF Shape
<1> QED BY <1>2, <1>3, <1>4, <1>5 DEF Shape

LEMMA OpenedIsReading ==
  ASSUME NEW most \in Nat, NEW deep \in Nat, NEW w, Shape(w, most, deep),
         w.queue # <<>>, w.tried < most,
         NEW v \in Walks, Takes(w, v),
         v.now = Head(w.queue), v.index = 0, v.got = <<>>, v.want # 0 => v.now.depth < deep
  PROVE  Reading(v, deep)
<1>1. /\ w.queue \in Seq(Item) /\ w.nodes \in Seq(Node) /\ w.tried \in Nat
      /\ v.want \in Nat
  BY DEF Shape, Walks
<1>2. /\ Len(w.queue) \in Nat /\ Len(w.queue) > 0 /\ Len(v.queue) = Len(w.queue) - 1
      /\ v.tried = w.tried + 1 /\ v.nodes = w.nodes
      /\ v.now \in Item /\ v.now = w.queue[1]
      /\ \A k \in 1..(Len(w.queue) - 1) :
           k + 1 \in 1..Len(w.queue) /\ v.queue[k] = w.queue[k + 1]
  BY <1>1, HeadAndTail DEF Takes
<1>3. Len(v.nodes) < v.tried /\ Len(v.got) <= v.index /\ v.index <= v.want
  BY <1>1, <1>2 DEF Shape
<1>4. /\ Hangs(v.now, v.nodes, deep)
      /\ \A i \in 1..Len(v.nodes) : v.nodes[i].depth <= v.now.depth
  <2>1. 1 \in 1..Len(w.queue)
    BY <1>2
  <2> QED BY <1>2, <2>1 DEF Shape
<1>5. \A k \in 1..Len(v.queue) : /\ v.now.depth <= v.queue[k].depth
                                 /\ v.queue[k].depth <= v.now.depth + 1
  <2> SUFFICES ASSUME NEW k \in 1..Len(v.queue)
               PROVE  /\ v.now.depth <= v.queue[k].depth
                      /\ v.queue[k].depth <= v.now.depth + 1
    OBVIOUS
  <2>1. /\ k + 1 \in 1..Len(w.queue) /\ v.queue[k] = w.queue[k + 1]
        /\ 1 \in 1..Len(w.queue) /\ 1 <= k + 1
    BY <1>2
  <2> QED BY <1>2, <2>1 DEF Shape
<1> QED BY <1>2, <1>3, <1>4, <1>5 DEF Reading

LEMMA PushedKeepsShape ==
  ASSUME NEW most \in Nat, NEW deep \in Nat, NEW w, Shape(w, most, deep), Reading(w, deep),
         NEW live \in BOOLEAN, NEW kid \in Seq(Item),
         Len(kid) <= Len(w.got), w.tried + Len(w.queue) + Len(kid) <= most,
         NEW v \in Walks, Pushes(w, v, live, kid)
  PROVE  Shape(v, most, deep)
<1> DEFINE node == [obj |-> w.now.obj, depth |-> w.now.depth,
                    parent |-> w.now.parent, live |-> live]
           m == Len(w.nodes)
           q == w.queue
<1>1. /\ q \in Seq(Item) /\ w.nodes \in Seq(Node) /\ w.tried \in Nat /\ w.now \in Item
      /\ w.got \in Seq(Obj) /\ w.index \in Nat /\ w.want \in Nat
  BY DEF Shape, Walks, Reading
<1>2. node \in Node /\ node.depth = w.now.depth /\ node.parent = w.now.parent
      /\ w.now.depth \in Nat /\ w.now.parent \in Nat
  BY <1>1 DEF Node, Item
<1>d. w.now.depth \in Nat /\ w.now.depth + 1 \in Nat
  BY <1>2
<1> HIDE DEF node
<1>3. /\ Len(v.nodes) = m + 1 /\ m \in Nat /\ v.nodes[m + 1] = node
      /\ \A i \in 1..m : v.nodes[i] = w.nodes[i] /\ w.nodes[i] \in Node
  BY <1>1, <1>2, Appended DEF node, Pushes
<1>n. Len(v.nodes) = m + 1 /\ m \in Nat /\ \A i \in 1..(m + 1) : v.nodes[i].depth \in Nat
  <2>1. Len(v.nodes) = m + 1 /\ m \in Nat
    BY <1>3
  <2>2. ASSUME NEW i \in 1..(m + 1) PROVE v.nodes[i].depth \in Nat
    <3>1. i = m + 1 \/ i \in 1..m
      BY <2>1
    <3> QED BY <1>2, <1>3, <3>1 DEF Node
  <2> QED BY <2>1, <2>2
<1>4. /\ Len(v.queue) = Len(q) + Len(kid) /\ Len(q) \in Nat /\ Len(kid) \in Nat
      /\ \A k \in 1..Len(q) : v.queue[k] = q[k] /\ q[k] \in Item
      /\ \A k \in (Len(q) + 1)..(Len(q) + Len(kid)) :
           k - Len(q) \in 1..Len(kid) /\ v.queue[k] = kid[k - Len(q)]
  BY <1>1, Joined, SMTT(30) DEF Pushes
<1>5. v.tried + Len(v.queue) <= most /\ Len(v.nodes) <= v.tried
  BY <1>1, <1>3, <1>4 DEF Reading, Pushes
<1>6. \A x : x.parent \in Nat /\ Hangs(x, w.nodes, deep) => Hangs(x, v.nodes, deep)
  BY <1>3 DEF Hangs
<1>7. Hangs(node, v.nodes, deep) /\ node.parent < m + 1
  BY <1>2, <1>3, <1>6, SMTT(30) DEF Hangs, Reading
<1>8. \A i \in 1..Len(v.nodes) : Hangs(v.nodes[i], v.nodes, deep) /\ v.nodes[i].parent < i
  <2> SUFFICES ASSUME NEW i \in 1..Len(v.nodes)
               PROVE  Hangs(v.nodes[i], v.nodes, deep) /\ v.nodes[i].parent < i
    OBVIOUS
  <2>1. CASE i = m + 1
    BY <1>3, <1>7, <2>1
  <2>2. CASE i # m + 1
    <3>1. i \in 1..m
      BY <1>3, <2>2
    <3>2. Hangs(w.nodes[i], w.nodes, deep) /\ w.nodes[i].parent < i /\ w.nodes[i].parent \in Nat
      BY <1>3, <3>1 DEF Shape, Node
    <3> QED BY <1>3, <1>6, <3>1, <3>2
  <2> QED BY <2>1, <2>2
<1>9. \A i, j \in 1..Len(v.nodes) : j <= i => v.nodes[j].depth <= v.nodes[i].depth
  <2> SUFFICES ASSUME NEW i \in 1..Len(v.nodes), NEW j \in 1..Len(v.nodes), j <= i
               PROVE  v.nodes[j].depth <= v.nodes[i].depth
    OBVIOUS
  <2>1. CASE i = m + 1
    <3>1. j = m + 1 \/ j \in 1..m
      BY <1>3
    <3>2. j \in 1..m => w.nodes[j].depth <= w.now.depth
      BY DEF Reading
    <3>3. v.nodes[j].depth <= w.now.depth
      <4>1. CASE j = m + 1
        BY <1>2, <1>3, <1>d, <4>1
      <4>2. CASE j \in 1..m
        BY <1>3, <3>2, <4>2
      <4> QED BY <3>1, <4>1, <4>2
    <3> QED BY <1>2, <1>3, <2>1, <3>3
  <2>2. CASE i # m + 1
    <3>1. i \in 1..m /\ j \in 1..m
      <4> HIDE DEF m
      <4> QED BY <1>n, <2>2
    <3> QED BY <1>3, <3>1 DEF Shape
  <2> QED BY <2>1, <2>2
<1>10. Len(kid) # 0 => w.now.depth + 1 <= deep
  <2>1. Len(w.got) \in Nat /\ Len(w.got) <= w.index /\ w.index <= w.want
        /\ (w.want # 0 => w.now.depth < deep)
    BY <1>1 DEF Reading
  <2>2. Len(kid) # 0 => w.want # 0
    BY <1>1, <1>4, <2>1
  <2> QED BY <1>2, <2>1, <2>2
<1>11. \A k \in 1..Len(v.queue) :
         \/ k \in 1..Len(q) /\ v.queue[k] = q[k]
         \/ /\ k \in (Len(q) + 1)..(Len(q) + Len(kid)) /\ w.now.depth + 1 <= deep
            /\ v.queue[k].depth = w.now.depth + 1 /\ v.queue[k].parent = m + 1
  <2> SUFFICES ASSUME NEW k \in 1..Len(v.queue), k \notin 1..Len(q)
               PROVE  /\ k \in (Len(q) + 1)..(Len(q) + Len(kid)) /\ w.now.depth + 1 <= deep
                      /\ v.queue[k].depth = w.now.depth + 1 /\ v.queue[k].parent = m + 1
    BY <1>4
  <2>1. k \in (Len(q) + 1)..(Len(q) + Len(kid))
    BY <1>4
  <2>2. k - Len(q) \in 1..Len(kid) /\ v.queue[k] = kid[k - Len(q)] /\ Len(kid) # 0
    BY <1>4, <2>1
  <2> QED BY <1>10, <2>1, <2>2 DEF Pushes
<1>12. \A k \in 1..Len(v.queue) :
         /\ Hangs(v.queue[k], v.nodes, deep)
         /\ \A i \in 1..Len(v.nodes) : v.nodes[i].depth <= v.queue[k].depth
  <2> SUFFICES ASSUME NEW k \in 1..Len(v.queue)
               PROVE  /\ Hangs(v.queue[k], v.nodes, deep)
                      /\ \A i \in 1..Len(v.nodes) : v.nodes[i].depth <= v.queue[k].depth
    OBVIOUS
  <2>1. CASE k \in 1..Len(q) /\ v.queue[k] = q[k]
    <3>1. Hangs(q[k], w.nodes, deep) /\ q[k].parent \in Nat
      BY <1>4, <2>1 DEF Shape, Item
    <3>2. ASSUME NEW i \in 1..Len(v.nodes) PROVE v.nodes[i].depth <= q[k].depth
      <4>1. CASE i = m + 1
        BY <1>2, <1>3, <2>1, <4>1 DEF Reading
      <4>2. CASE i # m + 1
        <5>1. i \in 1..m
          BY <1>3, <4>2
        <5> QED BY <1>3, <2>1, <5>1 DEF Shape
      <4> QED BY <4>1, <4>2
    <3> QED BY <1>6, <2>1, <3>1, <3>2
  <2>2. CASE /\ w.now.depth + 1 <= deep
             /\ v.queue[k].depth = w.now.depth + 1 /\ v.queue[k].parent = m + 1
    <3>1. Hangs(v.queue[k], v.nodes, deep)
      BY <1>2, <1>3, <2>2, SMTT(30) DEF Hangs
    <3>2. ASSUME NEW i \in 1..Len(v.nodes) PROVE v.nodes[i].depth <= v.queue[k].depth
      <4>1. m + 1 \in 1..Len(v.nodes) /\ i <= m + 1
        BY <1>3
      <4>2. v.nodes[i].depth <= w.now.depth
        BY <1>2, <1>3, <1>9, <4>1
      <4>3. v.nodes[i].depth \in Nat
        BY <1>n
      <4> QED BY <1>d, <2>2, <4>2, <4>3, SMTT(30)
    <3> QED BY <3>1, <3>2
  <2> QED BY <1>11, <2>1, <2>2
<1>13. \A k, l \in 1..Len(v.queue) :
         k <= l => /\ v.queue[k].depth <= v.queue[l].depth
                   /\ v.queue[l].depth <= v.queue[k].depth + 1
  <2> SUFFICES ASSUME NEW k \in 1..Len(v.queue), NEW l \in 1..Len(v.queue), k <= l
               PROVE  /\ v.queue[k].depth <= v.queue[l].depth
                      /\ v.queue[l].depth <= v.queue[k].depth + 1
    OBVIOUS
  <2>1. CASE l \in 1..Len(q)
    <3>1. k \in 1..Len(q)
      BY <1>4, <2>1
    <3> QED BY <1>4, <2>1, <3>1 DEF Shape
  <2>2. CASE l \notin 1..Len(q)
    <3>1. v.queue[l].depth = w.now.depth + 1
      BY <1>11, <2>2
    <3>2. CASE k \in 1..Len(q)
      <4>1. v.queue[k] = q[k] /\ q[k].depth \in Nat
        BY <1>4, <3>2 DEF Item
      <4>2. w.now.depth <= q[k].depth /\ q[k].depth <= w.now.depth + 1
        BY <3>2 DEF Reading
      <4>3. q[k].depth <= w.now.depth + 1
        BY <4>2
      <4>4. w.now.depth + 1 <= q[k].depth + 1
        <5> HIDE DEF q
        <5>1. q[k].depth \in Nat
          BY <4>1
        <5> QED BY <1>d, <4>2, <5>1
      <4> QED BY <3>1, <4>1, <4>3, <4>4
    <3>3. CASE k \notin 1..Len(q)
      <4>1. v.queue[k].depth = w.now.depth + 1
        BY <1>11, <3>3
      <4> QED BY <1>d, <3>1, <4>1
    <3> QED BY <3>2, <3>3
  <2> QED BY <2>1, <2>2
<1> HIDE DEF m, q
<1> QED BY <1>5, <1>8, <1>9, <1>12, <1>13 DEF Shape

-----------------------------------------------------------------------------
(* Every walk has the shape of a tree.                                     *)
WalksInv == DOMAIN walk = Call /\ \A c \in Call : WalkInv(c)

(* What is left of the applications.                                       *)
Distinct(s) == \A i, j \in DOMAIN s : s[i] = s[j] => i = j

LEMMA SelectRootsIsWithin ==
  ASSUME NEW roots \in Seq(Obj), NEW kd, NEW pid, NEW text
  PROVE  LET r == SelectRoots(roots, kd, pid, text)
         IN  /\ r \in Seq(Obj) /\ ToSet(r) \subseteq ToSet(roots)
             /\ Distinct(roots) => Distinct(r)
             /\ pid # None /\ (\E o \in ToSet(roots) : PidOf[o] = pid) =>
                  \A o \in ToSet(r) : PidOf[o] = pid
<1> DEFINE A == {o \in Obj : pid # None /\ PidOf[o] = pid}
           B == {o \in Obj : text # None /\ RootMatches(o, kd, text)}
           C == {o \in Obj : text # None => RootMatches(o, kd, text)}
           own  == Filtered(roots, A)
           best == Filtered(own, B)
           rest == Filtered(roots, C)
           r    == SelectRoots(roots, kd, pid, text)
<1>1. r = IF best # <<>> THEN best ELSE IF own # <<>> THEN own ELSE rest
  BY DEF SelectRoots
<1>2. /\ own \in Seq(Obj) /\ ToSet(own) = ToSet(roots) \cap A
      /\ Distinct(roots) => Distinct(own)
  <2> HIDE DEF A
  <2> QED BY FilteredIsWithin DEF Distinct
<1>3. /\ rest \in Seq(Obj) /\ ToSet(rest) = ToSet(roots) \cap C
      /\ Distinct(roots) => Distinct(rest)
  <2> HIDE DEF C
  <2> QED BY FilteredIsWithin DEF Distinct
<1>4. /\ best \in Seq(Obj) /\ ToSet(best) = ToSet(own) \cap B
      /\ Distinct(own) => Distinct(best)
  <2> HIDE DEF B, own
  <2> QED BY <1>2, FilteredIsWithin DEF Distinct
<1>5. pid # None /\ (\E o \in ToSet(roots) : PidOf[o] = pid) => own # <<>>
  <2> SUFFICES ASSUME pid # None, NEW o \in ToSet(roots), PidOf[o] = pid PROVE own # <<>>
    OBVIOUS
  <2>1. o \in Obj
    BY DEF ToSet
  <2>2. o \in ToSet(own)
    BY <1>2, <2>1
  <2> HIDE DEF own
  <2>3. PICK i \in DOMAIN own : own[i] = o
    BY <2>2 DEF ToSet
  <2> QED BY <2>3
<1>6. \A o \in A : pid # None /\ PidOf[o] = pid
  OBVIOUS
<1> HIDE DEF A, B, C, own, best, rest, r
<1>7. r \in Seq(Obj) /\ ToSet(r) \subseteq ToSet(roots)
  BY <1>1, <1>2, <1>3, <1>4
<1>8. Distinct(roots) => Distinct(r)
  BY <1>1, <1>2, <1>3, <1>4
<1>9. own # <<>> => \A o \in ToSet(r) : PidOf[o] = pid
  BY <1>1, <1>2, <1>4, <1>6
<1> QED BY <1>5, <1>7, <1>8, <1>9 DEF r

LEMMA ListedApps ==
  ASSUME NEW listed \in {Apps} \cup Drops(Apps)
  PROVE  listed \in Seq(Obj)
<1>1. Apps \in Seq(Obj)
  BY AppStateAssumption
<1>2. CASE listed \in Drops(Apps)
  <2>1. PICK D \in SUBSET ToSet(Apps) : listed = Filtered(Apps, Obj \ D)
    BY <1>2 DEF Drops
  <2> QED BY <1>1, <2>1, FilteredIsWithin
<1> QED BY <1>1, <1>2

(* The walk starts with the first applications.                            *)
Starting(roots, most) == SubSeq(roots, 1, Min({Len(roots), most}))

StartOf(roots, most) ==
  [NoWalk EXCEPT !.root = roots, !.reads = most, !.queue =
     [i \in 1..Len(Starting(roots, most)) |->
        [obj |-> Starting(roots, most)[i], depth |-> 0, parent |-> 0]]]

LEMMA FirstOfThem ==
  ASSUME NEW roots \in Seq(Obj), NEW most \in Nat
  PROVE  LET s == Starting(roots, most)
         IN  /\ Len(roots) \in Nat /\ Len(s) = Min({Len(roots), most})
             /\ Len(s) \in Nat /\ Len(s) <= Len(roots) /\ Len(s) <= most
             /\ Len(s) = Len(roots) \/ Len(s) = most
             /\ \A i \in 1..Len(s) : i \in 1..Len(roots) /\ s[i] = roots[i] /\ s[i] \in Obj
<1> DEFINE m == Min({Len(roots), most})
<1>1. m = (IF Len(roots) <= most THEN Len(roots) ELSE most) /\ Len(roots) \in Nat
  BY MinOfTwo
<1>2. m \in Nat /\ m <= Len(roots) /\ m <= most /\ (m = Len(roots) \/ m = most)
  BY <1>1
<1> HIDE DEF m
<1>3. /\ Len(SubSeq(roots, 1, m)) = m
      /\ \A i \in 1..m : i \in 1..Len(roots) /\ SubSeq(roots, 1, m)[i] = roots[i]
                         /\ roots[i] \in Obj
  BY <1>1, <1>2
<1> QED BY <1>1, <1>2, <1>3 DEF Starting, m

LEMMA StartKeepsShape ==
  ASSUME NEW roots \in Seq(Obj), NEW most \in Nat, NEW deep \in Nat
  PROVE  Shape(StartOf(roots, most), most, deep)
<1> DEFINE s == Starting(roots, most)
           q == [i \in 1..Len(s) |-> [obj |-> s[i], depth |-> 0, parent |-> 0]]
           w == StartOf(roots, most)
<1>1. /\ Len(s) \in Nat /\ Len(s) <= most /\ \A i \in 1..Len(s) : s[i] \in Obj
  BY FirstOfThem
<1> HIDE DEF s
<1>2. q \in [1..Len(s) -> Item]
  BY <1>1 DEF Item
<1>3. q \in Seq(Item) /\ Len(q) = Len(s)
      /\ \A k \in 1..Len(q) : q[k].depth = 0 /\ q[k].parent = 0
  BY <1>1, <1>2
<1>4. w = [queue |-> q, tried |-> 0, reads |-> most, nodes |-> <<>>, root |-> roots,
           now |-> [obj |-> None, depth |-> 0, parent |-> 0], want |-> 0, index |-> 0,
           got |-> <<>>]
  <2> HIDE DEF q
  <2>1. NoWalk = [queue |-> <<>>, tried |-> 0, reads |-> 0, nodes |-> <<>>, root |-> <<>>,
                  now |-> [obj |-> None, depth |-> 0, parent |-> 0], want |-> 0, index |-> 0,
                  got |-> <<>>]
    BY DEF NoWalk
  <2>2. w = [NoWalk EXCEPT !.root = roots, !.reads = most, !.queue = q]
    BY DEF StartOf, s, q
  <2> QED BY <2>1, <2>2
<1> HIDE DEF q, w
<1>5. w \in Walks
  BY <1>3, <1>4 DEF Walks
<1>6. Len(w.nodes) = 0 /\ Len(w.queue) = Len(s)
  BY <1>3, <1>4
<1> QED BY <1>1, <1>3, <1>4, <1>5, <1>6 DEF Shape, Hangs, w

LEMMA NothingHasShape ==
  ASSUME NEW most \in Nat, NEW deep \in Nat
  PROVE  Shape(NoWalk, most, deep)
BY DEF Shape, Walks, NoWalk

-----------------------------------------------------------------------------
(* The steps of a walk keep its shape.                                     *)
LEMMA WalkGoesOn ==
  ASSUME NEW c \in Call, WalkInv(c), walk'[c] = walk[c], ask' = ask,
         pc'[c] = "kids" => pc[c] = "kids"
  PROVE  WalkInv(c)'
BY DEF WalkInv

LEMMA RootsKeepsWalk ==
  ASSUME TypeOK, WalksInv, NEW c \in Call, Roots(c)
  PROVE  WalkInv(c)' /\ DOMAIN walk' = Call /\ \A d \in Call : d # c => walk'[d] = walk[d]
<1>1. /\ DOMAIN walk = Call /\ WalkInv(c) /\ pc \in [Call -> Step] /\ pc[c] = "roots"
      /\ ask' = ask /\ ask[c].nodes \in Nat /\ ask[c].depth \in Nat
  BY OptionsType DEF TypeOK, WalksInv, Roots
<1>2. PICK listed \in {Apps} \cup Drops(Apps) :
        LET roots == SelectRoots(listed, kids, PidOfWindow(c), needle[c])
        IN  \/ /\ walk' = [walk EXCEPT ![c] = StartOf(roots, ask[c].nodes)]
               /\ pc' = [pc EXCEPT ![c] = "walk"]
            \/ /\ pc' = [pc EXCEPT ![c] = "end"]
               /\ UNCHANGED walk
  BY DEF Roots, Goto, StartOf, Starting
<1> DEFINE roots == SelectRoots(listed, kids, PidOfWindow(c), needle[c])
<1>3. roots \in Seq(Obj)
  BY ListedApps, SelectRootsIsWithin
<1>4. pc'[c] # "kids"
  BY <1>1, <1>2
<1>5. \/ walk' = [walk EXCEPT ![c] = StartOf(roots, ask[c].nodes)]
      \/ walk' = walk
  BY <1>2
<1> HIDE DEF roots
<1>6. Shape(walk'[c], ask[c].nodes, ask[c].depth)
  BY <1>1, <1>3, <1>5, StartKeepsShape DEF WalkInv
<1> QED BY <1>1, <1>4, <1>5, <1>6 DEF WalkInv

LEMMA OpenKeepsWalk ==
  ASSUME TypeOK, WalksInv, NEW c \in Call, Open(c)
  PROVE  WalkInv(c)' /\ DOMAIN walk' = Call /\ \A d \in Call : d # c => walk'[d] = walk[d]
<1> DEFINE w == walk[c]
           most == ask[c].nodes
           deep == ask[c].depth
           next == Head(w.queue)
           opened == [w EXCEPT !.queue = Tail(@), !.tried = @ + 1]
           room == Remaining(c)
           want == IF next.depth < deep THEN Min({Len(kids[next.obj]), room, w.reads}) ELSE 0
           v == [opened EXCEPT !.now = next, !.want = want, !.index = 0, !.got = <<>>,
                               !.reads = @ - want]
<1>1. /\ DOMAIN walk = Call /\ Shape(w, most, deep) /\ pc \in [Call -> Step] /\ pc[c] = "walk"
      /\ ask' = ask /\ most \in Nat /\ deep \in Nat /\ kids \in [Obj -> Seq(Obj)]
      /\ w.queue # <<>> /\ w.tried < most
  BY OptionsType DEF TypeOK, WalksInv, WalkInv, Open
<1>2. \/ walk' = [walk EXCEPT ![c] = v] /\ pc' = [pc EXCEPT ![c] = "kids"]
      \/ walk' = [walk EXCEPT ![c] = opened] /\ pc' = pc
  BY DEF Open, Goto
<1>3. w \in Walks /\ w.queue \in Seq(Item) /\ w.tried \in Nat /\ w.reads \in Nat
  BY <1>1 DEF Shape, Walks
<1>4. next \in Item /\ Tail(w.queue) \in Seq(Item)
  BY <1>1, <1>3, HeadAndTail
<1>5. room \in Nat
  BY <1>1, <1>3 DEF Shape, Remaining
<1>6. want \in Nat /\ want <= w.reads /\ (want # 0 => next.depth < deep)
  <2>1. next.obj \in Obj
    BY <1>4 DEF Item
  <2>2. Len(kids[next.obj]) \in Nat
    BY <1>1, <2>1
  <2> DEFINE k == Len(kids[next.obj])
             m == Min({k, room, w.reads})
  <2> HIDE DEF room, k
  <2>3. m \in {k, room, w.reads} /\ m <= w.reads
    <3>1. room \in Int /\ k \in Int /\ w.reads \in Int
      BY <1>3, <1>5, <2>2 DEF k
    <3> QED BY <3>1, MinOfThree
  <2> HIDE DEF m
  <2>4. want = IF next.depth < deep THEN m ELSE 0
    BY DEF m, k, room
  <2> HIDE DEF want, next
  <2> QED BY <1>3, <1>5, <2>2, <2>3, <2>4 DEF k
<1> HIDE DEF w, next, want, room
<1> DEFINE tail == Tail(w.queue)
           t == w.tried + 1
<1>7. opened \in Walks /\ Takes(w, opened) /\ opened.reads = w.reads
  <2>1. opened = [w EXCEPT !.queue = tail, !.tried = t]
    BY <1>3 DEF Walks
  <2>2. tail \in Seq(Item) /\ t \in Nat
    BY <1>3, <1>4
  <2>3. /\ opened.queue = Tail(w.queue) /\ opened.tried = w.tried + 1
        /\ opened.nodes = w.nodes /\ opened.reads = w.reads
    BY <1>3 DEF Walks
  <2> HIDE DEF tail, t
  <2>4. opened \in Walks
    <3> HIDE DEF opened
    <3> QED BY <1>3, <2>1, <2>2 DEF Walks
  <2> HIDE DEF opened
  <2> QED BY <2>3, <2>4 DEF Takes
<1> HIDE DEF opened
<1> DEFINE r == opened.reads - want
<1>8. /\ v \in Walks /\ Takes(w, v) /\ v.now = next /\ v.want = want /\ v.index = 0
      /\ v.got = <<>>
  <2>1. r \in Nat
    BY <1>3, <1>6, <1>7
  <2>2. next \in [obj : Obj \cup {None}, depth : Nat, parent : Nat]
    BY <1>4 DEF Item
  <2>3. v = [opened EXCEPT !.now = next, !.want = want, !.index = 0, !.got = <<>>,
                           !.reads = r]
    BY <1>7 DEF Walks
  <2>4. v.now = next /\ v.want = want /\ v.index = 0 /\ v.got = <<>>
        /\ v.queue = opened.queue /\ v.tried = opened.tried /\ v.nodes = opened.nodes
    BY <1>7 DEF Walks
  <2> HIDE DEF r
  <2> DEFINE u == [opened EXCEPT !.now = next, !.want = want]
             x == [u EXCEPT !.index = 0, !.reads = r]
  <2>5. u \in Walks
    BY <1>6, <1>7, <2>2 DEF Walks
  <2>6. v = [x EXCEPT !.got = <<>>]
    BY <1>7, <2>3 DEF Walks
  <2> HIDE DEF u, v
  <2>7. x \in Walks
    BY <2>1, <2>5 DEF Walks
  <2> HIDE DEF x
  <2>8. <<>> \in Seq(Obj)
    OBVIOUS
  <2>9. v \in Walks
    BY <2>6, <2>7, <2>8 DEF Walks
  <2> HIDE DEF v
  <2> QED BY <1>7, <2>4, <2>9 DEF Takes
<1> HIDE DEF v
<1>9. Shape(opened, most, deep) /\ Shape(v, most, deep)
  <2> HIDE DEF most, deep
  <2> QED BY <1>1, <1>7, <1>8, TakenKeepsShape
<1>10. Reading(v, deep)
  <2> HIDE DEF most, deep
  <2> QED BY <1>1, <1>6, <1>8, OpenedIsReading DEF next
<1> QED BY <1>1, <1>2, <1>9, <1>10 DEF WalkInv

LEMMA ReadChildKeepsWalk ==
  ASSUME TypeOK, WalksInv, NEW c \in Call, ReadChild(c)
  PROVE  WalkInv(c)' /\ DOMAIN walk' = Call /\ \A d \in Call : d # c => walk'[d] = walk[d]
<1> DEFINE w == walk[c]
           deep == ask[c].depth
           here == kids[w.now.obj]
           i == w.index + 1
           v == [w EXCEPT !.index = i, !.got = Append(@, here[i])]
           u == [w EXCEPT !.index = i]
<1>1. /\ DOMAIN walk = Call /\ Shape(w, ask[c].nodes, deep) /\ Reading(w, deep)
      /\ w.index < w.want /\ ask' = ask /\ pc' = pc /\ kids \in [Obj -> Seq(Obj)]
  BY DEF TypeOK, WalksInv, WalkInv, ReadChild
<1>2. \/ walk' = [walk EXCEPT ![c] = v] /\ i <= Len(here)
      \/ walk' = [walk EXCEPT ![c] = u]
  BY DEF ReadChild
<1>3. w \in Walks /\ w.got \in Seq(Obj) /\ w.index \in Nat /\ w.want \in Nat /\ w.now \in Item
  BY <1>1 DEF Shape, Walks, Reading
<1>4. here \in Seq(Obj)
  BY <1>1, <1>3 DEF Item
<1>5. i <= Len(here) => Append(w.got, here[i]) \in Seq(Obj)
                        /\ Len(Append(w.got, here[i])) = Len(w.got) + 1
  <2> SUFFICES ASSUME i <= Len(here)
               PROVE  Append(w.got, here[i]) \in Seq(Obj)
                      /\ Len(Append(w.got, here[i])) = Len(w.got) + 1
    OBVIOUS
  <2> HIDE DEF here
  <2>1. here[i] \in Obj
    BY <1>3, <1>4
  <2> QED BY <1>3, <2>1, Appended
<1> HIDE DEF w, here
<1>6. i \in Nat /\ i <= w.want /\ Len(w.got) \in Nat /\ Len(w.got) <= w.index
  BY <1>1, <1>3 DEF Reading
<1>7. u \in Walks /\ Shape(u, ask[c].nodes, deep) /\ Reading(u, deep)
  <2>1. u \in Walks
    BY <1>3, <1>6 DEF Walks
  <2>2. /\ u.queue = w.queue /\ u.tried = w.tried /\ u.nodes = w.nodes /\ u.now = w.now
        /\ u.want = w.want /\ u.index = i /\ u.got = w.got
    BY <1>3 DEF Walks
  <2> HIDE DEF u, i
  <2>3. Len(u.got) <= u.index
    BY <1>3, <1>6, <2>2 DEF i
  <2> QED BY <1>1, <1>6, <2>1, <2>2, <2>3 DEF Shape, Reading
<1>8. i <= Len(here) => v \in Walks /\ Shape(v, ask[c].nodes, deep) /\ Reading(v, deep)
  <2> SUFFICES ASSUME i <= Len(here)
               PROVE  v \in Walks /\ Shape(v, ask[c].nodes, deep) /\ Reading(v, deep)
    OBVIOUS
  <2>1. v \in Walks
    BY <1>3, <1>5, <1>6 DEF Walks
  <2>2. /\ v.queue = w.queue /\ v.tried = w.tried /\ v.nodes = w.nodes /\ v.now = w.now
        /\ v.want = w.want /\ v.index = i /\ v.got = Append(w.got, here[i])
    BY <1>3 DEF Walks
  <2> HIDE DEF v, i
  <2>3. Len(v.got) <= v.index
    BY <1>3, <1>5, <1>6, <2>2 DEF i
  <2> QED BY <1>1, <1>6, <2>1, <2>2, <2>3 DEF Shape, Reading
<1> HIDE DEF u, v, i
<1>9. \/ walk' = [walk EXCEPT ![c] = v] /\ Shape(v, ask[c].nodes, deep) /\ Reading(v, deep)
      \/ walk' = [walk EXCEPT ![c] = u] /\ Shape(u, ask[c].nodes, deep) /\ Reading(u, deep)
  BY <1>2, <1>7, <1>8
<1> QED BY <1>1, <1>9 DEF WalkInv

(* The children that are queued are the first that were read, as many as   *)
(* there is room for.                                                      *)
KidItems(w, room) ==
  [i \in 1..Min({Len(w.got), room}) |->
    [obj |-> w.got[i], depth |-> w.now.depth + 1, parent |-> Len(w.nodes) + 1]]

LEMMA KidItemsType ==
  ASSUME NEW w \in Walks, NEW room \in Nat
  PROVE  LET kid == KidItems(w, room)
         IN  /\ kid \in Seq(Item) /\ Len(kid) \in Nat
             /\ Len(kid) <= Len(w.got) /\ Len(kid) <= room
             /\ Len(kid) = Len(w.got) \/ Len(kid) = room
             /\ \A k \in 1..Len(kid) :
                  /\ k \in 1..Len(w.got) /\ kid[k].obj = w.got[k]
                  /\ kid[k].depth = w.now.depth + 1 /\ kid[k].parent = Len(w.nodes) + 1
<1> DEFINE m == Min({Len(w.got), room})
           d == w.now.depth + 1
           p == Len(w.nodes) + 1
           g == w.got
           kid == [i \in 1..m |-> [obj |-> g[i], depth |-> d, parent |-> p]]
<1>1. g \in Seq(Obj) /\ Len(g) \in Nat /\ d \in Nat /\ p \in Nat
  BY DEF Walks
<1>2. m = IF Len(g) <= room THEN Len(g) ELSE room
  BY <1>1, MinOfTwo
<1>3. m \in Nat /\ m <= Len(g) /\ m <= room /\ (m = Len(g) \/ m = room)
  BY <1>1, <1>2
<1>4. \A k \in 1..m : k \in 1..Len(g) /\ g[k] \in Obj
  BY <1>1, <1>3
<1>5. KidItems(w, room) = kid
  BY DEF KidItems
<1> HIDE DEF m, d, p, g
<1>6. kid \in [1..m -> Item]
  BY <1>1, <1>4 DEF Item
<1>7. kid \in Seq(Item) /\ Len(kid) = m
  BY <1>3, <1>6
<1>8. \A k \in 1..m : kid[k].obj = g[k] /\ kid[k].depth = d /\ kid[k].parent = p
  OBVIOUS
<1> HIDE DEF kid
<1> QED BY <1>3, <1>4, <1>5, <1>7, <1>8 DEF g, d, p

LEMMA PushKeepsWalk ==
  ASSUME TypeOK, WalksInv, NEW c \in Call, Push(c)
  PROVE  WalkInv(c)' /\ DOMAIN walk' = Call /\ \A d \in Call : d # c => walk'[d] = walk[d]
<1> DEFINE w == walk[c]
           most == ask[c].nodes
           deep == ask[c].depth
           live == w.now.obj \notin gone
           node == [obj |-> w.now.obj, depth |-> w.now.depth, parent |-> w.now.parent,
                    live |-> live]
           room == Remaining(c)
           kid == KidItems(w, room)
           v == [w EXCEPT !.nodes = Append(@, node), !.queue = @ \o kid]
<1>1. /\ DOMAIN walk = Call /\ Shape(w, most, deep) /\ Reading(w, deep)
      /\ pc \in [Call -> Step] /\ ask' = ask /\ most \in Nat /\ deep \in Nat
      /\ w.index = w.want
  BY OptionsType DEF TypeOK, WalksInv, WalkInv, Push
<1>2. walk' = [walk EXCEPT ![c] = v] /\ pc' = [pc EXCEPT ![c] = "walk"]
  BY DEF Push, Goto, KidItems
<1>3. /\ w \in Walks /\ w.queue \in Seq(Item) /\ w.nodes \in Seq(Node) /\ w.now \in Item
      /\ w.tried \in Nat
  BY <1>1 DEF Shape, Walks, Reading
<1>4. room \in Nat /\ w.tried + Len(w.queue) + room = most
  BY <1>1, <1>3 DEF Shape, Remaining
<1> HIDE DEF room
<1>5. /\ kid \in Seq(Item) /\ Len(kid) \in Nat /\ Len(kid) <= Len(w.got) /\ Len(kid) <= room
      /\ \A k \in 1..Len(kid) : kid[k].depth = w.now.depth + 1
                                /\ kid[k].parent = Len(w.nodes) + 1
  BY <1>3, <1>4, KidItemsType
<1>6. node \in Node /\ live \in BOOLEAN
  BY <1>3 DEF Item, Node
<1> HIDE DEF kid
<1>7. w.tried + Len(w.queue) + Len(kid) <= most
  BY <1>1, <1>3, <1>4, <1>5
<1> DEFINE nodes == Append(w.nodes, node)
           queue == w.queue \o kid
<1>8. nodes \in Seq(Node) /\ queue \in Seq(Item)
  <2> HIDE DEF node, w
  <2> QED BY <1>3, <1>5, <1>6, Appended, Joined
<1>9. v = [w EXCEPT !.nodes = nodes, !.queue = queue]
  BY <1>3 DEF Walks
<1>10. v.queue = w.queue \o kid /\ v.tried = w.tried /\ v.nodes = Append(w.nodes, node)
  BY <1>3 DEF Walks
<1> HIDE DEF nodes, queue
<1>11. v \in Walks
  <2> HIDE DEF v
  <2> QED BY <1>3, <1>8, <1>9 DEF Walks
<1> HIDE DEF v
<1>12. Pushes(w, v, live, kid)
  BY <1>5, <1>10 DEF Pushes
<1>13. Shape(v, most, deep)
  <2> HIDE DEF w, most, deep, live
  <2> QED BY <1>1, <1>5, <1>6, <1>7, <1>11, <1>12, PushedKeepsShape
<1>14. walk'[c] = v /\ pc'[c] = "walk"
  BY <1>1, <1>2
<1> QED BY <1>1, <1>2, <1>13, <1>14 DEF WalkInv

LEMMA NextWalk ==
  ASSUME TypeOK, WalksInv, [Next]_vars
  PROVE  WalksInv'
<1>1. DOMAIN walk = Call /\ pc \in [Call -> Step] /\ \A d \in Call : WalkInv(d)
  BY DEF WalksInv, TypeOK
<1>2. ASSUME NEW c \in Call, Roots(c) \/ Open(c) \/ ReadChild(c) \/ Push(c)
      PROVE  WalksInv'
  <2>1. WalkInv(c)' /\ DOMAIN walk' = Call /\ \A d \in Call : d # c => walk'[d] = walk[d]
    BY <1>2, RootsKeepsWalk, OpenKeepsWalk, ReadChildKeepsWalk, PushKeepsWalk
  <2>2. ask' = ask /\ (pc' = pc \/ \E s \in Step : pc' = [pc EXCEPT ![c] = s])
    BY <1>2 DEF Roots, Open, ReadChild, Push, Goto, Step
  <2>3. ASSUME NEW d \in Call, d # c PROVE WalkInv(d)'
    <3>1. pc'[d] = pc[d]
      BY <1>1, <2>2, <2>3
    <3> QED BY <1>1, <2>1, <2>2, <2>3, <3>1, WalkGoesOn
  <2> QED BY <2>1, <2>3 DEF WalksInv
<1>3. ASSUME NEW c \in Call,
             Proceeds(c) \/ Filter(c) \/ TakeHandle(c) \/ PortalFails(c) \/ Answers(c),
             ~Roots(c), ~Open(c), ~ReadChild(c), ~Push(c)
      PROVE  WalksInv'
  <2>1. UNCHANGED <<walk, ask>>
    BY <1>3 DEF Proceeds, Filter, TakeHandle, PortalFails, Answers, PortalTimeout,
         TreeTimeout, LookForState, LookForShot, Subscribe, CallPortal, HearAnother,
         HearPicture, HearRefusal, Crop, Fit, WalkEnds, treeVars, PictureEnds
  <2>2. pc' = pc \/ \E s \in Step \ {"kids"} : pc' = [pc EXCEPT ![c] = s]
    BY <1>3 DEF Proceeds, Filter, TakeHandle, PortalFails, Answers, PortalTimeout,
       TreeTimeout, LookForState, LookForShot, Subscribe, CallPortal, HearAnother, HearPicture,
       HearRefusal, Crop, Fit, WalkEnds, Goto, PictureEnds, AfterPicture, Step
  <2>3. ASSUME NEW d \in Call PROVE WalkInv(d)'
    <3>1. pc'[d] = "kids" => pc[d] = "kids"
      BY <1>1, <2>2
    <3> QED BY <1>1, <2>1, <3>1, WalkGoesOn
  <2> QED BY <1>1, <2>1, <2>3 DEF WalksInv
<1>4. CASE Event \/ UNCHANGED vars
  <2>1. UNCHANGED <<walk, ask, pc>>
    BY <1>4 DEF Event, vars, treeVars
  <2> QED BY <1>1, <2>1, WalkGoesOn DEF WalksInv
<1> QED BY <1>2, <1>3, <1>4 DEF Next, Proceeds

LEMMA InitWalk == Init => WalksInv
<1> SUFFICES ASSUME Init PROVE WalksInv
  OBVIOUS
<1>1. DOMAIN walk = Call
  BY DEF Init
<1>2. ASSUME NEW c \in Call PROVE WalkInv(c)
  <2>1. ask \in Plans /\ walk[c] = NoWalk /\ pc[c] # "kids"
    BY DEF Init
  <2>2. ask[c].nodes \in Nat /\ ask[c].depth \in Nat
    BY <2>1, OptionsType
  <2> QED BY <2>1, <2>2, NothingHasShape DEF WalkInv
<1> QED BY <1>1, <1>2 DEF WalksInv

LEMMA ShapeSuffices == WalksInv => TreeShaped
<1> SUFFICES ASSUME WalksInv, NEW c \in Call
             PROVE  LET w == walk[c]  n == walk[c].nodes
                    IN  /\ w.tried + Len(w.queue) <= ask[c].nodes /\ Len(n) <= w.tried
                        /\ w.reads >= 0
                        /\ \A i \in 1..Len(n) :
                             /\ n[i].parent \in 0..(i - 1) /\ n[i].depth <= ask[c].depth
                             /\ n[i].depth = IF n[i].parent = 0 THEN 0
                                             ELSE n[n[i].parent].depth + 1
                             /\ \A j \in 1..i : n[j].depth <= n[i].depth
  BY DEF TreeShaped
<1> DEFINE w == walk[c]
           n == w.nodes
<1>1. Shape(w, ask[c].nodes, ask[c].depth)
  BY DEF WalksInv, WalkInv
<1> HIDE DEF w
<1>2. w.tried + Len(w.queue) <= ask[c].nodes /\ Len(n) <= w.tried /\ w.reads \in Nat
      /\ Len(n) \in Nat
  BY <1>1 DEF Shape, Walks
<1>3. ASSUME NEW i \in 1..Len(n)
      PROVE  /\ n[i].parent \in 0..(i - 1) /\ n[i].depth <= ask[c].depth
             /\ n[i].depth = IF n[i].parent = 0 THEN 0 ELSE n[n[i].parent].depth + 1
             /\ \A j \in 1..i : n[j].depth <= n[i].depth
  <2>1. Hangs(n[i], n, ask[c].depth) /\ n[i].parent < i
    BY <1>1 DEF Shape
  <2>2. \A j \in 1..i : j \in 1..Len(n) /\ j <= i
    BY <1>2
  <2>3. \A j \in 1..i : n[j].depth <= n[i].depth
    BY <1>1, <2>2 DEF Shape
  <2> QED BY <1>2, <2>1, <2>3 DEF Hangs
<1> QED BY <1>2, <1>3 DEF w

-----------------------------------------------------------------------------
(* A walk on which nothing fails, through a forest that stays as it is:    *)
(* every object it knows of, in the order in which it came to know it. The *)
(* nodes come first, then the object whose children are read, if any, then *)
(* those that wait.                                                        *)
Bare(x) == [obj |-> x.obj, depth |-> x.depth, parent |-> x.parent]

Line(w, b) ==
  [i \in 1..(Len(w.nodes) + b + Len(w.queue)) |->
    IF i <= Len(w.nodes) THEN Bare(w.nodes[i])
    ELSE IF i = Len(w.nodes) + b THEN w.now
    ELSE w.queue[i - (Len(w.nodes) + b)]]

(* Each object is known once, and for being an application or a child.     *)
Grown(L, roots) ==
  /\ \A i, j \in 1..Len(L) : L[i].obj = L[j].obj => i = j
  /\ \A i \in 1..Len(L) :
       \/ L[i].parent = 0 /\ L[i].obj \in ToSet(roots)
       \/ /\ L[i].parent \in 1..Len(L)
          /\ L[i].obj \in ToSet(FirstKids[L[L[i].parent].obj])

Knows(L, o, depth) == \E i \in 1..Len(L) : L[i].obj = o /\ L[i].depth = depth

(* The applications and the children of the first so many are known.       *)
Complete(L, p, roots, deep) ==
  /\ \A o \in ToSet(roots) : Knows(L, o, 0)
  /\ \A i \in 1..p : L[i].depth < deep =>
       \A o \in ToSet(FirstKids[L[i].obj]) : Knows(L, o, L[i].depth + 1)

LEMMA LineType ==
  ASSUME NEW w \in Walks, NEW b \in {0, 1}, b = 1 => w.now \in Item
  PROVE  LET n == Len(w.nodes)
         IN  /\ Line(w, b) \in Seq(Item) /\ n \in Nat /\ Len(w.queue) \in Nat
             /\ Len(Line(w, b)) = n + b + Len(w.queue)
             /\ \A i \in 1..n : Line(w, b)[i] = Bare(w.nodes[i]) /\ Bare(w.nodes[i]) \in Item
             /\ b = 1 => Line(w, b)[n + 1] = w.now
             /\ \A k \in 1..Len(w.queue) : Line(w, b)[n + b + k] = w.queue[k]
<1> DEFINE n == Len(w.nodes)
           q == w.queue
           l == Len(q)
           m == n + b + l
           L == Line(w, b)
<1>1. w.nodes \in Seq(Node) /\ q \in Seq(Item) /\ n \in Nat /\ l \in Nat
  BY DEF Walks
<1>2. ASSUME NEW i \in 1..n PROVE Bare(w.nodes[i]) \in Item
  <2>1. w.nodes[i] \in Node
    BY <1>1
  <2> QED BY <2>1 DEF Node, Item, Bare
<1>3. L = [i \in 1..m |-> IF i <= n THEN Bare(w.nodes[i])
                          ELSE IF i = n + b THEN w.now ELSE q[i - (n + b)]]
  BY DEF Line
<1>b. b \in Nat /\ (b = 0 \/ b = 1)
  OBVIOUS
<1>q. \A k \in 1..l : q[k] \in Item
  BY <1>1
<1> HIDE DEF L, n, l, q
<1>m. m \in Nat
  BY <1>1, <1>b
<1>4. \A i \in 1..m : \/ i \in 1..n
                      \/ b = 1 /\ i = n + b /\ ~(i <= n)
                      \/ i - (n + b) \in 1..l /\ ~(i <= n) /\ i # n + b
  BY <1>1, <1>b
<1>5. ASSUME NEW i \in 1..m PROVE L[i] \in Item
  <2> HIDE DEF m
  <2>1. CASE i \in 1..n
    <3>1. i <= n
      BY <2>1
    <3> QED BY <1>2, <1>3, <2>1, <3>1
  <2>2. CASE b = 1 /\ i = n + b /\ ~(i <= n)
    BY <1>3, <2>2
  <2>3. CASE i - (n + b) \in 1..l /\ ~(i <= n) /\ i # n + b
    <3>1. L[i] = q[i - (n + b)]
      BY <1>3, <2>3
    <3> QED BY <1>q, <2>3, <3>1
  <2> QED BY <1>4, <2>1, <2>2, <2>3
<1>6. L \in [1..m -> Item]
  <2> HIDE DEF m
  <2> QED BY <1>3, <1>5
<1>7. L \in Seq(Item) /\ Len(L) = m
  BY <1>6, <1>m
<1>8. ASSUME NEW i \in 1..n PROVE L[i] = Bare(w.nodes[i])
  <2>1. i \in 1..m /\ i <= n
    BY <1>1, <1>b
  <2> HIDE DEF m
  <2> QED BY <1>3, <2>1
<1>9. b = 1 => L[n + 1] = w.now
  <2> SUFFICES ASSUME b = 1 PROVE L[n + 1] = w.now
    OBVIOUS
  <2>1. n + 1 \in 1..m /\ ~(n + 1 <= n) /\ n + 1 = n + b
    BY <1>1, <1>b
  <2> HIDE DEF m
  <2> QED BY <1>3, <2>1
<1>10. ASSUME NEW k \in 1..l PROVE L[n + b + k] = q[k]
  <2> DEFINE i == n + b + k
  <2>1. i \in 1..m /\ ~(i <= n) /\ i # n + b /\ i - (n + b) = k
    BY <1>1, <1>b
  <2> HIDE DEF m, i
  <2>2. L[i] = q[k]
    BY <1>3, <2>1
  <2> QED BY <2>2 DEF i
<1> QED BY <1>1, <1>2, <1>7, <1>8, <1>9, <1>10 DEF L, n, l, q

(* Taking an object from the queue leaves the line as it is.               *)
LEMMA SameLine ==
  ASSUME NEW w \in Walks, NEW v \in Walks, w.queue # <<>>, Takes(w, v), v.now = Head(w.queue)
  PROVE  Line(v, 1) = Line(w, 0) /\ v.now \in Item
<1> DEFINE n == Len(w.nodes)  q == w.queue
<1>1. q \in Seq(Item) /\ w.nodes \in Seq(Node) /\ n \in Nat
  BY DEF Walks
<1>2. /\ Len(q) \in Nat /\ Len(q) > 0 /\ Len(v.queue) = Len(q) - 1 /\ v.nodes = w.nodes
      /\ v.now \in Item /\ v.now = q[1]
      /\ \A k \in 1..(Len(q) - 1) : k + 1 \in 1..Len(q) /\ v.queue[k] = q[k + 1]
  BY <1>1, HeadAndTail DEF Takes
<1> HIDE DEF n, q
<1>3. n + 1 + Len(v.queue) = n + 0 + Len(q)
  BY <1>1, <1>2
<1>4. ASSUME NEW i \in 1..(n + 0 + Len(q))
      PROVE  (IF i <= n THEN Bare(v.nodes[i])
              ELSE IF i = n + 1 THEN v.now ELSE v.queue[i - (n + 1)])
             = (IF i <= n THEN Bare(w.nodes[i])
                ELSE IF i = n + 0 THEN w.now ELSE q[i - (n + 0)])
  <2>1. CASE i <= n
    BY <1>2, <2>1
  <2>2. CASE i = n + 1
    <3>1. ~(i <= n) /\ i # n + 0 /\ i - (n + 0) = 1
      BY <1>1, <2>2
    <3> QED BY <1>2, <2>2, <3>1
  <2>3. CASE ~(i <= n) /\ i # n + 1
    <3>1. i - (n + 1) \in 1..(Len(q) - 1) /\ i - (n + 1) + 1 = i - (n + 0) /\ i # n + 0
      BY <1>1, <1>2, <2>3
    <3>2. v.queue[i - (n + 1)] = q[i - (n + 0)]
      BY <1>2, <3>1
    <3> QED BY <2>3, <3>1, <3>2
  <2> QED BY <1>1, <2>1, <2>2, <2>3
<1>5. Line(v, 1) = [i \in 1..(n + 0 + Len(q)) |->
                      IF i <= n THEN Bare(v.nodes[i])
                      ELSE IF i = n + 1 THEN v.now ELSE v.queue[i - (n + 1)]]
  BY <1>2, <1>3 DEF Line, n
<1>6. Line(w, 0) = [i \in 1..(n + 0 + Len(q)) |->
                      IF i <= n THEN Bare(w.nodes[i])
                      ELSE IF i = n + 0 THEN w.now ELSE q[i - (n + 0)]]
  BY DEF Line, n, q
<1> QED BY <1>2, <1>4, <1>5, <1>6

(* Pushing a node appends its children.                                    *)
LEMMA LongerLine ==
  ASSUME NEW w \in Walks, NEW v \in Walks, w.now \in Item, NEW live, NEW kid \in Seq(Item),
         live \in BOOLEAN, Pushes(w, v, live, kid)
  PROVE  /\ Len(Line(v, 0)) = Len(Line(w, 1)) + Len(kid)
         /\ \A i \in 1..Len(Line(w, 1)) : Line(v, 0)[i] = Line(w, 1)[i]
         /\ \A k \in 1..Len(kid) : Line(v, 0)[Len(Line(w, 1)) + k] = kid[k]
<1> DEFINE n == Len(w.nodes)  q == w.queue
           node == [obj |-> w.now.obj, depth |-> w.now.depth,
                    parent |-> w.now.parent, live |-> live]
<1>1. q \in Seq(Item) /\ w.nodes \in Seq(Node) /\ n \in Nat /\ Len(q) \in Nat /\ Len(kid) \in Nat
  <2>1. q \in Seq(Item) /\ w.nodes \in Seq(Node)
    BY DEF Walks
  <2> HIDE DEF q
  <2> QED BY <2>1
<1>2. node \in Node /\ Bare(node) = w.now
  BY DEF Node, Item, Bare
<1> HIDE DEF node
<1>3. /\ Len(v.nodes) = n + 1 /\ v.nodes[n + 1] = node
      /\ \A i \in 1..n : v.nodes[i] = w.nodes[i]
  BY <1>1, <1>2, Appended DEF Pushes, node
<1>4. /\ Len(v.queue) = Len(q) + Len(kid)
      /\ \A k \in 1..Len(q) : v.queue[k] = q[k]
      /\ \A k \in 1..Len(kid) : v.queue[Len(q) + k] = kid[k]
  BY <1>1, Joined DEF Pushes
<1> DEFINE K == Line(v, 0)  L == Line(w, 1)
<1>5. /\ Len(L) = n + 1 + Len(q)
      /\ \A i \in 1..n : L[i] = Bare(w.nodes[i])
      /\ L[n + 1] = w.now
      /\ \A k \in 1..Len(q) : L[n + 1 + k] = q[k]
  BY LineType
<1>6. /\ Len(K) = Len(v.nodes) + 0 + Len(v.queue)
      /\ \A i \in 1..Len(v.nodes) : K[i] = Bare(v.nodes[i])
      /\ \A k \in 1..Len(v.queue) : K[Len(v.nodes) + 0 + k] = v.queue[k]
  <2> DEFINE none == 0
  <2>1. none \in {0, 1} /\ none # 1
    OBVIOUS
  <2> HIDE DEF none
  <2>2. /\ Len(Line(v, none)) = Len(v.nodes) + none + Len(v.queue)
        /\ \A i \in 1..Len(v.nodes) : Line(v, none)[i] = Bare(v.nodes[i])
        /\ \A k \in 1..Len(v.queue) : Line(v, none)[Len(v.nodes) + none + k] = v.queue[k]
    BY <2>1, LineType
  <2> QED BY <2>2 DEF none
<1> HIDE DEF K, L, n, q
<1>7. Len(K) = Len(L) + Len(kid)
  BY <1>1, <1>3, <1>4, <1>5, <1>6
<1>8. ASSUME NEW i \in 1..Len(L) PROVE K[i] = L[i]
  <2>1. CASE i \in 1..n
    <3>1. i \in 1..Len(v.nodes)
      BY <1>1, <1>3, <2>1
    <3> QED BY <1>3, <1>5, <1>6, <2>1, <3>1
  <2>2. CASE i = n + 1
    <3>1. n + 1 \in 1..Len(v.nodes)
      BY <1>1, <1>3
    <3> QED BY <1>2, <1>3, <1>5, <1>6, <2>2, <3>1
  <2>3. CASE i \notin 1..n /\ i # n + 1
    <3> DEFINE k == i - (n + 1)
    <3>1. k \in 1..Len(q) /\ k \in 1..Len(v.queue) /\ n + 1 + k = i
          /\ Len(v.nodes) + 0 + k = i
      BY <1>1, <1>3, <1>4, <1>5, <2>3
    <3> HIDE DEF k
    <3>2. L[i] = q[k]
      BY <1>5, <3>1
    <3>3. K[i] = v.queue[k]
      BY <1>6, <3>1
    <3>4. v.queue[k] = q[k]
      BY <1>4, <3>1
    <3> QED BY <3>2, <3>3, <3>4
  <2> QED BY <2>1, <2>2, <2>3
<1>9. ASSUME NEW k \in 1..Len(kid) PROVE K[Len(L) + k] = kid[k]
  <2>1. Len(q) + k \in 1..Len(v.queue) /\ Len(v.nodes) + 0 + (Len(q) + k) = Len(L) + k
    BY <1>1, <1>3, <1>4, <1>5
  <2> QED BY <1>4, <1>6, <2>1
<1> QED BY <1>7, <1>8, <1>9 DEF K, L

(* The children that are going to be read are all of them, or as many as   *)
(* there is room for; those that were read are the first ones.             *)
Asking(w, room, deep) ==
  /\ w.want <= room /\ room <= w.reads + w.want
  /\ w.want <= Len(FirstKids[w.now.obj])
  /\ w.now.depth < deep => w.want = Len(FirstKids[w.now.obj]) \/ w.want = room
  /\ Len(w.got) = w.index
  /\ \A i \in 1..w.index : w.got[i] = FirstKids[w.now.obj][i]

Calm(w, b, most, deep) ==
  /\ w.tried = Len(w.nodes) + b
  /\ Distinct(w.root) /\ ToSet(w.root) \subseteq ToSet(Apps)
  /\ \A i \in 1..Len(Line(w, b)) : Line(w, b)[i].parent <= Len(w.nodes)
  /\ Grown(Line(w, b), w.root)
  /\ Len(Line(w, b)) = most \/ Complete(Line(w, b), Len(w.nodes), w.root, deep)
  /\ b = 0 => most - Len(Line(w, b)) <= w.reads
  /\ b = 1 => w.now \in Item /\ Asking(w, most - Len(Line(w, b)), deep)

LEMMA StartIsCalm ==
  ASSUME NEW roots \in Seq(Obj), NEW most \in Nat, NEW deep \in Nat,
         Distinct(roots), ToSet(roots) \subseteq ToSet(Apps)
  PROVE  Calm(StartOf(roots, most), 0, most, deep)
<1> DEFINE s == Starting(roots, most)
           w == StartOf(roots, most)
           none == 0
           L == Line(w, none)
<1>1. /\ Len(s) \in Nat /\ Len(s) <= Len(roots) /\ Len(s) <= most /\ Len(roots) \in Nat
      /\ Len(s) = Len(roots) \/ Len(s) = most
      /\ \A i \in 1..Len(s) : i \in 1..Len(roots) /\ s[i] = roots[i] /\ s[i] \in Obj
  BY FirstOfThem
<1>2. w \in Walks
  BY StartKeepsShape DEF Shape
<1> HIDE DEF s
<1> DEFINE q == [i \in 1..Len(s) |-> [obj |-> s[i], depth |-> 0, parent |-> 0]]
<1>3. w.queue = q /\ w.tried = 0 /\ w.reads = most /\ w.nodes = <<>> /\ w.root = roots
  BY DEF StartOf, NoWalk, s
<1>4. /\ Len(w.queue) = Len(s) /\ Len(w.nodes) = 0
      /\ \A k \in 1..Len(s) : /\ w.queue[k].obj = roots[k] /\ w.queue[k].depth = 0
                              /\ w.queue[k].parent = 0
  BY <1>1, <1>3
<1> HIDE DEF w, q
<1>5. none \in {0, 1} /\ none # 1 /\ none = 0
  OBVIOUS
<1> HIDE DEF none
<1>6. /\ Len(L) = Len(w.nodes) + none + Len(w.queue)
      /\ \A k \in 1..Len(w.queue) : L[Len(w.nodes) + none + k] = w.queue[k]
  BY <1>2, <1>5, LineType
<1> HIDE DEF L
<1>7. Len(L) = Len(s)
  BY <1>1, <1>4, <1>5, <1>6
<1>8. ASSUME NEW k \in 1..Len(s)
      PROVE  /\ L[k].obj = roots[k] /\ L[k].depth = 0 /\ L[k].parent = 0
             /\ k \in DOMAIN roots
  <2>1. Len(w.nodes) + none + k = k
    BY <1>4, <1>5
  <2>2. L[k] = w.queue[k]
    BY <1>4, <1>6, <2>1
  <2> QED BY <1>1, <1>4, <2>2
<1>9. Grown(L, w.root)
  BY <1>3, <1>7, <1>8 DEF Grown, Distinct, ToSet
<1>10. Len(L) = most \/ Complete(L, Len(w.nodes), w.root, deep)
  <2> SUFFICES ASSUME Len(s) = Len(roots) PROVE Complete(L, Len(w.nodes), w.root, deep)
    BY <1>1, <1>7
  <2>1. ASSUME NEW o \in ToSet(roots) PROVE Knows(L, o, 0)
    <3>1. PICK k \in 1..Len(roots) : roots[k] = o
      BY DEF ToSet
    <3> QED BY <1>7, <1>8, <3>1 DEF Knows
  <2>2. 1..Len(w.nodes) = {}
    BY <1>4
  <2> QED BY <1>3, <2>1, <2>2 DEF Complete
<1>11. w.tried = Len(w.nodes) + none /\ most - Len(L) <= w.reads
  BY <1>1, <1>3, <1>4, <1>5, <1>7
<1>12. \A i \in 1..Len(L) : L[i].parent <= Len(w.nodes)
  BY <1>4, <1>7, <1>8
<1>13. Calm(w, none, most, deep)
  BY <1>3, <1>5, <1>9, <1>10, <1>11, <1>12 DEF Calm, L
<1> QED BY <1>5, <1>13 DEF w

LEMMA OpenIsCalm ==
  ASSUME NEW most \in Nat, NEW deep \in Nat, NEW w \in Walks, Calm(w, 0, most, deep),
         w.queue # <<>>, w.tried + Len(w.queue) <= most,
         NEW v \in Walks, Takes(w, v), v.now = Head(w.queue), v.root = w.root,
         v.index = 0, v.got = <<>>, v.reads = w.reads - v.want,
         v.want = IF v.now.depth < deep
                  THEN Min({Len(FirstKids[v.now.obj]), most - w.tried - Len(w.queue), w.reads})
                  ELSE 0
  PROVE  Calm(v, 1, most, deep)
<1> DEFINE none == 0
           one == 1
           L == Line(w, none)
           f == Len(FirstKids[v.now.obj])
           room == most - Len(L)
           m == Min({f, room, w.reads})
<1>1. Line(v, one) = L /\ v.now \in Item
  BY SameLine
<1>2. none = 0 /\ none # 1 /\ one = 1 /\ none \in {0, 1} /\ one \in {0, 1}
  OBVIOUS
<1> HIDE DEF none, one
<1>3. /\ Len(L) = Len(w.nodes) + none + Len(w.queue) /\ Len(w.nodes) \in Nat
      /\ Len(w.queue) \in Nat
  BY <1>2, LineType
<1>c. Calm(w, none, most, deep)
  BY <1>2
<1>4. w.tried = Len(w.nodes) + none /\ w.tried \in Nat /\ w.reads \in Nat /\ v.reads \in Nat
      /\ v.want \in Nat
  BY <1>c DEF Calm, Walks
<1> HIDE DEF L
<1>5. Len(L) = w.tried + Len(w.queue) /\ Len(L) \in Nat /\ room \in Nat
      /\ room = most - w.tried - Len(w.queue)
  <2>1. Len(w.nodes) + none + Len(w.queue) = w.tried + Len(w.queue)
    BY <1>2, <1>3, <1>4
  <2>2. Len(w.queue) \in Nat /\ w.tried \in Nat /\ w.tried + Len(w.queue) <= most
    BY <1>3, <1>4
  <2> QED BY <1>3, <2>1, <2>2
<1>6. f \in Nat
  <2>1. v.now.obj \in Obj
    BY <1>1 DEF Item
  <2>2. FirstKids[v.now.obj] \in Seq(Obj)
    BY <2>1, AppStateAssumption
  <2> QED BY <2>2
<1>7. v.want = IF v.now.depth < deep THEN m ELSE 0
  BY <1>5
<1>8. room <= w.reads
  BY <1>2, <1>c DEF Calm, L
<1>d. DOMAIN v.got = {} /\ Len(v.got) = v.index /\ 1..v.index = {}
  OBVIOUS
<1> HIDE DEF f, room
<1>9. m \in {f, room, w.reads} /\ m <= f /\ m <= room /\ m <= w.reads
  <2>1. f \in Int /\ room \in Int /\ w.reads \in Int
    BY <1>4, <1>5, <1>6
  <2> QED BY <2>1, MinOfThree
<1> HIDE DEF m
<1>10. m = f \/ m = room
  BY <1>4, <1>5, <1>6, <1>8, <1>9
<1>11. v.want <= room /\ v.want <= f
  BY <1>5, <1>6, <1>7, <1>9
<1>12. room <= v.reads + v.want
  BY <1>4, <1>5, <1>8
<1>13. Asking(v, room, deep)
  BY <1>7, <1>10, <1>11, <1>12, <1>d DEF Asking, f
<1>14. v.tried = Len(v.nodes) + one /\ v.nodes = w.nodes /\ v.queue = Tail(w.queue)
  BY <1>2, <1>3, <1>4 DEF Takes
<1>15. Calm(v, one, most, deep)
  BY <1>1, <1>2, <1>c, <1>13, <1>14 DEF Calm, L, room
<1> QED BY <1>2, <1>15

LEMMA ReadIsCalm ==
  ASSUME NEW most \in Nat, NEW deep \in Nat, NEW w \in Walks, Calm(w, 1, most, deep),
         w.index < w.want,
         NEW v \in Walks, v.queue = w.queue, v.tried = w.tried, v.nodes = w.nodes,
         v.now = w.now, v.root = w.root, v.want = w.want, v.reads = w.reads,
         v.index = w.index + 1,
         v.got = Append(w.got, FirstKids[w.now.obj][w.index + 1])
  PROVE  /\ Calm(v, 1, most, deep)
         /\ w.index + 1 <= Len(FirstKids[w.now.obj])
<1> DEFINE one == 1
           L == Line(w, one)
           s == FirstKids[w.now.obj]
           i == w.index + 1
           room == most - Len(L)
<1>1. one = 1 /\ one \in {0, 1} /\ Calm(w, one, most, deep)
  OBVIOUS
<1> HIDE DEF one
<1>2. Line(v, one) = L
  BY DEF Line
<1>3. w.now \in Item /\ Asking(w, room, deep)
  BY <1>1 DEF Calm
<1>4. s \in Seq(Obj)
  <2>1. w.now.obj \in Obj
    BY <1>3 DEF Item
  <2> QED BY <2>1, AppStateAssumption
<1> HIDE DEF L, s, room
<1>5. w.index \in Nat /\ w.want \in Nat /\ w.got \in Seq(Obj)
  BY DEF Walks
<1>6. /\ w.want <= Len(s) /\ Len(w.got) = w.index
      /\ \A k \in 1..w.index : w.got[k] = s[k]
  BY <1>3 DEF Asking, s
<1>7. i \in 1..Len(s) /\ Len(s) \in Nat
  BY <1>4, <1>5, <1>6
<1>8. s[i] \in Obj
  BY <1>4, <1>7
<1>9. /\ Len(v.got) = i /\ v.got[i] = s[i]
      /\ \A k \in 1..w.index : v.got[k] = s[k]
  <2> DEFINE x == s[i]  g == w.got
  <2>1. v.got = Append(g, x) /\ x \in Obj /\ g \in Seq(Obj) /\ Len(g) = w.index
    BY <1>5, <1>6, <1>8 DEF s
  <2> HIDE DEF x, g
  <2>2. /\ Len(v.got) = Len(g) + 1 /\ v.got[Len(g) + 1] = x
        /\ \A k \in 1..Len(g) : v.got[k] = g[k]
    BY <2>1, Appended
  <2>3. \A k \in 1..w.index : g[k] = s[k]
    BY <1>6 DEF g
  <2> QED BY <2>1, <2>2, <2>3 DEF x
<1>10. \A k \in 1..v.index : v.got[k] = s[k]
  <2> SUFFICES ASSUME NEW k \in 1..v.index PROVE v.got[k] = s[k]
    OBVIOUS
  <2>1. k = i \/ k \in 1..w.index
    BY <1>5
  <2> QED BY <1>9, <2>1
<1>11. Asking(v, room, deep)
  BY <1>3, <1>9, <1>10 DEF Asking, s
<1>12. Calm(v, one, most, deep)
  BY <1>1, <1>2, <1>3, <1>11 DEF Calm, L, room
<1> QED BY <1>1, <1>7, <1>12 DEF s

(* A child of an object is a child of no other and no application.         *)
LEMMA OneParent ==
  ASSUME Forest, NEW o \in Obj, NEW p \in Obj, NEW i \in 1..Len(FirstKids[o]),
         NEW j \in 1..Len(FirstKids[p]), FirstKids[o][i] = FirstKids[p][j]
  PROVE  o = p /\ i = j
<1>1. FirstKids[o] \in Seq(Obj) /\ FirstKids[p] \in Seq(Obj)
  BY AppStateAssumption
<1>2. i \in DOMAIN FirstKids[o] /\ j \in DOMAIN FirstKids[p]
  BY <1>1
<1> QED BY <1>2 DEF Forest

LEMMA NotAnApp ==
  ASSUME Forest, NEW o \in Obj, NEW i \in 1..Len(FirstKids[o])
  PROVE  FirstKids[o][i] \notin ToSet(Apps)
<1>1. FirstKids[o] \in Seq(Obj)
  BY AppStateAssumption
<1>2. FirstKids[o][i] \in ToSet(FirstKids[o])
  BY <1>1 DEF ToSet
<1> QED BY <1>2 DEF Forest

(* A line that is longer by the first children of one of its objects.      *)
LEMMA GrownLine ==
  ASSUME Forest, NEW L \in Seq(Item), NEW K \in Seq(Item), NEW roots,
         ToSet(roots) \subseteq ToSet(Apps), Grown(L, roots),
         NEW p \in 1..Len(L), \A i \in 1..Len(L) : L[i].parent < p,
         NEW kid \in Seq(Item), Len(kid) <= Len(FirstKids[L[p].obj]),
         \A k \in 1..Len(kid) : kid[k].obj = FirstKids[L[p].obj][k] /\ kid[k].parent = p,
         Len(K) = Len(L) + Len(kid), \A i \in 1..Len(L) : K[i] = L[i],
         \A k \in 1..Len(kid) : K[Len(L) + k] = kid[k]
  PROVE  Grown(K, roots)
<1> DEFINE o == L[p].obj
           s == FirstKids[o]
<1>1. /\ o \in Obj /\ s \in Seq(Obj) /\ Len(s) \in Nat
      /\ Len(L) \in Nat /\ Len(kid) \in Nat
  <2>1. L[p] \in Item
    OBVIOUS
  <2>2. o \in Obj
    BY <2>1 DEF Item
  <2>3. s \in Seq(Obj)
    BY <2>2, AppStateAssumption
  <2> HIDE DEF s
  <2> QED BY <2>2, <2>3
<1>2. \A i \in 1..Len(K) : \/ i \in 1..Len(L) /\ K[i] = L[i]
                           \/ /\ i - Len(L) \in 1..Len(kid) /\ i - Len(L) \in 1..Len(s)
                              /\ K[i].obj = s[i - Len(L)] /\ K[i].parent = p
  <2> SUFFICES ASSUME NEW i \in 1..Len(K), i \notin 1..Len(L)
               PROVE  /\ i - Len(L) \in 1..Len(kid) /\ i - Len(L) \in 1..Len(s)
                      /\ K[i].obj = s[i - Len(L)] /\ K[i].parent = p
    OBVIOUS
  <2> DEFINE k == i - Len(L)
  <2>1. k \in 1..Len(kid) /\ k \in 1..Len(s) /\ Len(L) + k = i
    BY <1>1
  <2> HIDE DEF k
  <2>2. K[i] = kid[k]
    BY <2>1
  <2> QED BY <2>1, <2>2 DEF k
<1>3. ASSUME NEW i \in 1..Len(L), NEW k \in 1..Len(s)
      PROVE  L[i].obj # s[k]
  <2> SUFFICES ASSUME L[i].obj = s[k] PROVE FALSE
    OBVIOUS
  <2>1. CASE L[i].parent = 0 /\ L[i].obj \in ToSet(roots)
    BY <1>1, <2>1, NotAnApp
  <2>2. CASE /\ L[i].parent \in 1..Len(L)
             /\ L[i].obj \in ToSet(FirstKids[L[L[i].parent].obj])
    <3> DEFINE j == L[i].parent
               q == L[j].obj
    <3>1. j \in 1..Len(L) /\ j < p /\ L[j] \in Item
      BY <2>2
    <3>2. q \in Obj
      BY <3>1 DEF Item
    <3>3. FirstKids[q] \in Seq(Obj)
      BY <3>2, AppStateAssumption
    <3>4. PICK m \in DOMAIN FirstKids[q] : FirstKids[q][m] = L[i].obj
      BY <2>2 DEF ToSet
    <3> HIDE DEF q
    <3>5. m \in 1..Len(FirstKids[q])
      BY <3>3, <3>4
    <3>6. q = o
      BY <1>1, <3>2, <3>4, <3>5, OneParent, SMTT(30)
    <3> HIDE DEF j, o, s
    <3>7. j = p
      BY <3>1, <3>6 DEF Grown, q, o
    <3> QED BY <3>1, <3>7
  <2> QED BY <2>1, <2>2 DEF Grown
<1>4. ASSUME NEW k \in 1..Len(s), NEW l \in 1..Len(s), s[k] = s[l] PROVE k = l
  BY <1>1, <1>4, OneParent
<1>5. ASSUME NEW k \in 1..Len(s) PROVE s[k] \in ToSet(s)
  BY <1>1 DEF ToSet
<1>6. ASSUME NEW i \in 1..Len(K), NEW j \in 1..Len(K), K[i].obj = K[j].obj
      PROVE  i = j
  <2> HIDE DEF s, o
  <2>1. CASE K[i] = L[i] /\ i \in 1..Len(L) /\ K[j] = L[j] /\ j \in 1..Len(L)
    BY <1>6, <2>1 DEF Grown
  <2>2. CASE K[i] = L[i] /\ i \in 1..Len(L) /\ j \notin 1..Len(L)
    BY <1>2, <1>3, <1>6, <2>2
  <2>3. CASE K[j] = L[j] /\ j \in 1..Len(L) /\ i \notin 1..Len(L)
    BY <1>2, <1>3, <1>6, <2>3
  <2>4. CASE i \notin 1..Len(L) /\ j \notin 1..Len(L)
    <3> DEFINE k == i - Len(L)  l == j - Len(L)
    <3>1. k \in 1..Len(s) /\ K[i].obj = s[k]
      BY <1>2, <2>4
    <3>2. l \in 1..Len(s) /\ K[j].obj = s[l]
      BY <1>2, <2>4
    <3>3. i = Len(L) + k /\ j = Len(L) + l
      BY <1>1
    <3> HIDE DEF k, l
    <3>4. s[k] = s[l]
      BY <1>6, <3>1, <3>2
    <3>5. k = l
      BY <1>4, <3>1, <3>2, <3>4
    <3> QED BY <3>3, <3>5
  <2> QED BY <1>2, <2>1, <2>2, <2>3, <2>4
<1>7. ASSUME NEW i \in 1..Len(K)
      PROVE  \/ K[i].parent = 0 /\ K[i].obj \in ToSet(roots)
             \/ /\ K[i].parent \in 1..Len(K)
                /\ K[i].obj \in ToSet(FirstKids[K[K[i].parent].obj])
  <2> HIDE DEF s
  <2>1. CASE i \in 1..Len(L) /\ K[i] = L[i]
    <3>1. CASE L[i].parent = 0 /\ L[i].obj \in ToSet(roots)
      BY <2>1, <3>1
    <3>2. CASE /\ L[i].parent \in 1..Len(L)
               /\ L[i].obj \in ToSet(FirstKids[L[L[i].parent].obj])
      <4>1. K[L[i].parent] = L[L[i].parent] /\ L[i].parent \in 1..Len(K)
        BY <1>1, <3>2
      <4> QED BY <2>1, <3>2, <4>1
    <3>3. \/ L[i].parent = 0 /\ L[i].obj \in ToSet(roots)
          \/ /\ L[i].parent \in 1..Len(L)
             /\ L[i].obj \in ToSet(FirstKids[L[L[i].parent].obj])
      BY <2>1 DEF Grown
    <3> QED BY <3>1, <3>2, <3>3
  <2>2. CASE /\ i - Len(L) \in 1..Len(s)
             /\ K[i].obj = s[i - Len(L)] /\ K[i].parent = p
    <3>1. K[p] = L[p] /\ p \in 1..Len(K)
      BY <1>1
    <3>2. K[i].obj \in ToSet(s)
      BY <1>5, <2>2
    <3> QED BY <2>2, <3>1, <3>2 DEF s
  <2> QED BY <1>2, <2>1, <2>2
<1> QED BY <1>6, <1>7 DEF Grown

LEMMA StillKnown ==
  ASSUME NEW L \in Seq(Item), NEW K \in Seq(Item), Len(K) >= Len(L),
         \A i \in 1..Len(L) : K[i] = L[i], NEW o, NEW d, Knows(L, o, d)
  PROVE  Knows(K, o, d)
<1>1. PICK i \in 1..Len(L) : L[i].obj = o /\ L[i].depth = d
  BY DEF Knows
<1>2. i \in 1..Len(K) /\ K[i] = L[i]
  OBVIOUS
<1> QED BY <1>1, <1>2 DEF Knows

LEMMA PushIsCalm ==
  ASSUME Forest, NEW most \in Nat, NEW deep \in Nat, NEW w \in Walks, Calm(w, 1, most, deep),
         Reading(w, deep), w.index = w.want, w.tried + Len(w.queue) <= most,
         NEW v \in Walks, NEW live \in BOOLEAN,
         Pushes(w, v, live, KidItems(w, most - w.tried - Len(w.queue))),
         v.root = w.root, v.reads = w.reads
  PROVE  Calm(v, 0, most, deep)
<1> DEFINE none == 0
           one == 1
           L == Line(w, one)
           K == Line(v, none)
           n == Len(w.nodes)
           o == w.now.obj
           s == FirstKids[o]
           room == most - w.tried - Len(w.queue)
           kid == KidItems(w, room)
<1>1. none = 0 /\ none # 1 /\ one = 1 /\ one # 0 /\ none \in {0, 1} /\ one \in {0, 1}
  OBVIOUS
<1>2. /\ Len(K) = Len(L) + Len(kid)
      /\ \A i \in 1..Len(L) : K[i] = L[i]
      /\ \A k \in 1..Len(kid) : K[Len(L) + k] = kid[k]
  <2>1. w.now \in Item
    BY DEF Reading
  <2>2. w.tried \in Nat /\ Len(w.queue) \in Nat
    BY DEF Walks
  <2>3. room \in Nat
    BY <2>2
  <2>4. kid \in Seq(Item)
    <3> HIDE DEF room
    <3> QED BY <2>3, KidItemsType
  <2> HIDE DEF kid
  <2> QED BY <2>1, <2>4, LongerLine DEF kid
<1> HIDE DEF none, one
<1>3. Calm(w, one, most, deep) /\ w.now \in Item
  BY <1>1 DEF Reading
<1>4. /\ L \in Seq(Item) /\ Len(L) = n + one + Len(w.queue) /\ n \in Nat /\ Len(w.queue) \in Nat
      /\ L[n + 1] = w.now
  BY <1>1, <1>3, LineType
<1>5. K \in Seq(Item)
  BY <1>1, LineType
<1> HIDE DEF L, K
<1>6. w.tried = n + one /\ w.tried \in Nat
  BY <1>3 DEF Calm, Walks
<1>7. Len(L) = w.tried + Len(w.queue) /\ Len(L) \in Nat /\ room \in Nat /\ room = most - Len(L)
      /\ n + 1 \in 1..Len(L)
  <2> DEFINE t == w.tried
             l == Len(w.queue)
  <2>1. l \in Nat /\ t \in Nat /\ t = n + one /\ one = 1 /\ n \in Nat /\ Len(L) = n + one + l
    BY <1>1, <1>4, <1>6
  <2>2. room = most - t - l /\ t + l <= most
    OBVIOUS
  <2> HIDE DEF n, t, l, room
  <2>3. Len(L) = t + l /\ Len(L) \in Nat /\ n + 1 \in 1..Len(L)
    BY <2>1
  <2>4. room \in Nat /\ room = most - Len(L)
    BY <2>1, <2>2, <2>3
  <2> QED BY <2>3, <2>4 DEF t, l
<1>8. Asking(w, room, deep) /\ o \in Obj /\ s \in Seq(Obj) /\ Len(s) \in Nat
  <2>1. o \in Obj
    BY <1>3 DEF Item
  <2>2. s \in Seq(Obj)
    BY <2>1, AppStateAssumption
  <2>3. Asking(w, room, deep)
    <3>1. Asking(w, most - Len(L), deep)
      BY <1>1, <1>3 DEF Calm, L
    <3> QED BY <1>7, <3>1
  <2> HIDE DEF s
  <2> QED BY <2>1, <2>2, <2>3
<1> HIDE DEF room
<1>9. /\ kid \in Seq(Item) /\ Len(kid) \in Nat
      /\ Len(kid) <= Len(w.got) /\ Len(kid) <= room
      /\ Len(kid) = Len(w.got) \/ Len(kid) = room
      /\ \A k \in 1..Len(kid) :
           /\ k \in 1..Len(w.got) /\ kid[k].obj = w.got[k]
           /\ kid[k].depth = w.now.depth + 1 /\ kid[k].parent = n + 1
  BY <1>7, KidItemsType
<1>10. Pushes(w, v, live, kid)
  BY DEF room
<1> HIDE DEF kid
<1>11. Len(w.got) = w.want /\ w.want \in Nat
  BY <1>8 DEF Asking, Walks
<1>12. Len(kid) = w.want
  BY <1>7, <1>8, <1>9, <1>11 DEF Asking
<1>13. \A k \in 1..Len(kid) : kid[k].obj = s[k] /\ k \in 1..Len(s)
  <2> SUFFICES ASSUME NEW k \in 1..Len(kid) PROVE kid[k].obj = s[k] /\ k \in 1..Len(s)
    OBVIOUS
  <2>1. k \in 1..w.index /\ k <= Len(s)
    BY <1>8, <1>11, <1>12 DEF Asking
  <2> QED BY <1>8, <1>9, <2>1 DEF Asking
<1>14. /\ Len(v.nodes) = n + 1 /\ v.tried = w.tried /\ \A i \in 1..n : v.nodes[i] = w.nodes[i]
  <2>1. [obj |-> w.now.obj, depth |-> w.now.depth, parent |-> w.now.parent, live |-> live]
          \in Node
    BY <1>3 DEF Item, Node
  <2>2. w.nodes \in Seq(Node)
    BY DEF Walks
  <2> QED BY <1>10, <2>1, <2>2, Appended DEF Pushes
<1>15. \A i \in 1..Len(L) : L[i].parent <= n /\ L[i].parent \in Nat
  <2>1. ASSUME NEW i \in 1..Len(L) PROVE L[i].parent \in Nat
    <3>1. L[i] \in Item
      BY <1>4
    <3> QED BY <3>1 DEF Item
  <2> QED BY <1>3, <2>1 DEF Calm, L
<1>16. Grown(K, w.root)
  <2>1. Grown(L, w.root) /\ ToSet(w.root) \subseteq ToSet(Apps)
    BY <1>3 DEF Calm, L
  <2> DEFINE p == n + 1
  <2>2. p \in 1..Len(L) /\ L[p].obj = o /\ \A i \in 1..Len(L) : L[i].parent < p
    BY <1>4, <1>7, <1>15
  <2>3. \A k \in 1..Len(kid) : kid[k].obj = s[k] /\ kid[k].parent = p
    BY <1>9, <1>13
  <2>4. Len(kid) <= Len(FirstKids[L[p].obj])
    BY <1>8, <1>12, <2>2 DEF Asking
  <2>5. \A k \in 1..Len(kid) : kid[k].obj = FirstKids[L[p].obj][k] /\ kid[k].parent = p
    BY <2>2, <2>3
  <2> HIDE DEF p
  <2> QED BY <1>2, <1>4, <1>5, <1>9, <2>1, <2>2, <2>4, <2>5, GrownLine
<1>17. \A i \in 1..Len(K) : K[i].parent <= n + 1
  <2> SUFFICES ASSUME NEW i \in 1..Len(K) PROVE K[i].parent <= n + 1
    OBVIOUS
  <2>1. CASE i \in 1..Len(L)
    BY <1>2, <1>4, <1>15, <2>1
  <2>2. CASE i \notin 1..Len(L)
    <3> DEFINE k == i - Len(L)
    <3>1. k \in 1..Len(kid) /\ Len(L) + k = i
      BY <1>2, <1>7, <1>9, <2>2
    <3> HIDE DEF k
    <3>2. K[i] = kid[k]
      BY <1>2, <3>1
    <3>3. K[i].parent = n + 1
      BY <1>9, <3>1, <3>2
    <3> QED BY <1>4, <3>3
  <2> QED BY <2>1, <2>2
<1>18. most - Len(K) <= v.reads
  <2>1. room <= w.reads + w.want /\ w.reads \in Nat
    BY <1>8 DEF Asking, Walks
  <2> QED BY <1>2, <1>7, <1>11, <1>12, <2>1
<1>19. Len(K) = most \/ Complete(K, n + 1, w.root, deep)
  <2>1. CASE Len(L) = most
    <3>1. Len(kid) = 0
      BY <1>7, <1>9, <2>1
    <3> QED BY <1>2, <1>7, <2>1, <3>1
  <2>2. CASE w.want = room
    BY <1>2, <1>7, <1>12, <2>2
  <2>3. CASE Complete(L, n, w.root, deep) /\ (w.now.depth < deep => w.want = Len(s))
    <3>1. Len(K) >= Len(L)
      BY <1>2, <1>7, <1>9
    <3>2. ASSUME NEW x \in ToSet(w.root) PROVE Knows(K, x, 0)
      BY <1>2, <1>4, <1>5, <2>3, <3>1, StillKnown DEF Complete
    <3>3. ASSUME NEW i \in 1..(n + 1), K[i].depth < deep, NEW x \in ToSet(FirstKids[K[i].obj])
          PROVE  Knows(K, x, K[i].depth + 1)
      <4>0. i \in 1..Len(L) /\ K[i] = L[i]
        BY <1>2, <1>4, <1>7
      <4>1. CASE i \in 1..n
        <5>1. Knows(L, x, L[i].depth + 1)
          BY <2>3, <3>3, <4>0, <4>1 DEF Complete
        <5> QED BY <1>2, <1>4, <1>5, <3>1, <4>0, <5>1, StillKnown
      <4>2. CASE i = n + 1
        <5>1. K[i] = w.now
          BY <1>4, <4>0, <4>2
        <5>2. PICK k \in DOMAIN s : s[k] = x
          BY <3>3, <5>1 DEF ToSet
        <5>3. k \in 1..Len(s) /\ Len(kid) = Len(s)
          BY <1>8, <1>12, <2>3, <3>3, <5>1
        <5> DEFINE j == Len(L) + k
        <5>6. k \in 1..Len(kid)
          BY <5>3
        <5>7. K[j] = kid[k]
          BY <1>2, <5>6
        <5>8. j \in 1..(Len(L) + Len(kid))
          BY <1>7, <1>9, <5>6
        <5>4. j \in 1..Len(K) /\ K[j] = kid[k]
          BY <1>2, <5>7, <5>8
        <5>5. K[j].obj = x /\ K[j].depth = w.now.depth + 1
          BY <1>9, <1>13, <5>2, <5>3, <5>4
        <5> HIDE DEF j
        <5> QED BY <5>1, <5>4, <5>5 DEF Knows
      <4> QED BY <1>4, <4>1, <4>2
    <3> QED BY <3>2, <3>3 DEF Complete
  <2>4. Len(L) = most \/ Complete(L, n, w.root, deep)
    BY <1>3 DEF Calm, L
  <2>5. w.now.depth < deep => w.want = Len(s) \/ w.want = room
    BY <1>8 DEF Asking
  <2> QED BY <2>1, <2>2, <2>3, <2>4, <2>5
<1>20. Calm(v, none, most, deep)
  <2>1. v.tried = Len(v.nodes) + none
    BY <1>1, <1>4, <1>6, <1>14
  <2>2. Distinct(v.root) /\ ToSet(v.root) \subseteq ToSet(Apps)
    BY <1>3 DEF Calm
  <2> HIDE DEF n
  <2> QED BY <1>1, <1>14, <1>16, <1>17, <1>18, <1>19, <2>1, <2>2 DEF Calm, K
<1> QED BY <1>1, <1>20

-----------------------------------------------------------------------------
(* The levels below some objects, one after the other.                     *)
NextLevel(level, kd) == UNION {ToSet(kd[o]) : o \in level}

Levels(level, objs, kd, deep) ==
  level = [k \in 0..deep |-> IF k = 0 THEN objs ELSE NextLevel(level[k - 1], kd)]

LEMMA LevelsExist ==
  ASSUME NEW objs, NEW kd, NEW deep \in Nat
  PROVE  \E level : Levels(level, objs, kd, deep)
<1> DEFINE S == {n \in Nat : \E level : Levels(level, objs, kd, n)}
<1>1. 0 \in S
  <2> DEFINE level == [k \in 0..0 |-> objs]
  <2>1. level = [k \in 0..0 |-> IF k = 0 THEN objs ELSE NextLevel(level[k - 1], kd)]
    OBVIOUS
  <2>2. Levels(level, objs, kd, 0)
    BY <2>1 DEF Levels
  <2> QED BY <2>2
<1>2. ASSUME NEW n \in Nat, n \in S PROVE n + 1 \in S
  <2>1. PICK level : Levels(level, objs, kd, n)
    BY <1>2
  <2> DEFINE F(k) == IF k = 0 THEN objs ELSE NextLevel(level[k - 1], kd)
             more == [k \in 0..(n + 1) |-> F(k)]
  <2>2. level = [k \in 0..n |-> F(k)]
    BY <2>1 DEF Levels
  <2>3. \A k \in 0..n : k \in 0..(n + 1)
    OBVIOUS
  <2> HIDE DEF F
  <2>4. \A k \in 0..n : level[k] = more[k]
    BY <2>2, <2>3
  <2>5. ASSUME NEW k \in 0..(n + 1)
        PROVE  F(k) = IF k = 0 THEN objs ELSE NextLevel(more[k - 1], kd)
    <3>1. k # 0 => k - 1 \in 0..n
      OBVIOUS
    <3>2. k # 0 => level[k - 1] = more[k - 1]
      BY <2>4, <3>1
    <3> HIDE DEF more
    <3> QED BY <3>2 DEF F
  <2>6. more = [k \in 0..(n + 1) |-> IF k = 0 THEN objs ELSE NextLevel(more[k - 1], kd)]
    <3> DEFINE G(k) == IF k = 0 THEN objs ELSE NextLevel(more[k - 1], kd)
    <3>1. \A k \in 0..(n + 1) : F(k) = G(k)
      BY <2>5
    <3> HIDE DEF G
    <3>2. more = [k \in 0..(n + 1) |-> G(k)]
      BY <3>1
    <3> QED BY <3>2 DEF G
  <2> HIDE DEF more
  <2>7. Levels(more, objs, kd, n + 1)
    BY <2>6 DEF Levels
  <2> QED BY <2>7
<1> HIDE DEF S
<1>3. deep \in S
  BY <1>1, <1>2, Induction
<1> QED BY <1>3 DEF S

LEMMA BelowIsOfLevels ==
  ASSUME NEW objs, NEW deep \in Nat
  PROVE  \E level : /\ Levels(level, objs, kids, deep)
                    /\ Below(objs, deep) = UNION {level[k] : k \in 0..deep}
<1> DEFINE level == CHOOSE g : Levels(g, objs, kids, deep)
<1>1. Levels(level, objs, kids, deep)
  BY LevelsExist
<1>2. Below(objs, deep) = UNION {level[k] : k \in 0..deep}
  BY DEF Below, Levels, NextLevel
<1> QED BY <1>1, <1>2

LEMMA LevelsAreObjects ==
  ASSUME NEW objs \in SUBSET Obj, NEW kd \in [Obj -> Seq(Obj)], NEW deep \in Nat, NEW level,
         Levels(level, objs, kd, deep)
  PROVE  \A k \in 0..deep : level[k] \subseteq Obj
<1> DEFINE S == {k \in Nat : k <= deep => level[k] \subseteq Obj}
<1>1. \A k \in 0..deep : level[k] = IF k = 0 THEN objs ELSE NextLevel(level[k - 1], kd)
  BY DEF Levels
<1>2. 0 \in S
  BY <1>1
<1>3. ASSUME NEW k \in Nat, k \in S PROVE k + 1 \in S
  <2> SUFFICES ASSUME k + 1 <= deep PROVE level[k + 1] \subseteq Obj
    OBVIOUS
  <2>1. k + 1 \in 0..deep /\ k + 1 # 0 /\ (k + 1) - 1 = k /\ k <= deep
    OBVIOUS
  <2>2. level[k + 1] = NextLevel(level[k], kd)
    BY <1>1, <2>1
  <2>3. level[k] \subseteq Obj
    BY <1>3, <2>1
  <2> QED BY <2>2, <2>3 DEF NextLevel, ToSet
<1> HIDE DEF S
<1>4. \A k \in Nat : k \in S
  BY <1>2, <1>3, Induction
<1> QED BY <1>4 DEF S

(* A calm walk that has come to its end.                                   *)
Ended(w, most) == w.queue = <<>> \/ w.tried = most

(* Its nodes are objects in its reach.                                     *)
LEMMA FoundIsBelow ==
  ASSUME NEW most \in Nat, NEW deep \in Nat, NEW w, Shape(w, most, deep),
         Calm(w, 0, most, deep), NEW level, Levels(level, ToSet(w.root), FirstKids, deep)
  PROVE  \A i \in 1..Len(w.nodes) : w.nodes[i].depth \in 0..deep
                                    /\ w.nodes[i].obj \in level[w.nodes[i].depth]
<1> DEFINE n == w.nodes
           none == 0
           L == Line(w, none)
           Fine(i) == n[i].depth \in 0..deep /\ n[i].obj \in level[n[i].depth]
           T == {i \in 1..Len(n) : ~Fine(i)}
<1>1. w \in Walks /\ n \in Seq(Node) /\ Len(n) \in Nat
  <2>1. w \in Walks /\ n \in Seq(Node)
    BY DEF Shape, Walks
  <2> HIDE DEF n
  <2> QED BY <2>1
<1>2. none = 0 /\ none # 1 /\ none \in {0, 1}
  OBVIOUS
<1> HIDE DEF none
<1>3. Calm(w, none, most, deep)
  BY <1>2
<1>4. /\ Len(L) = Len(n) + none + Len(w.queue) /\ Len(w.queue) \in Nat
      /\ \A i \in 1..Len(n) : L[i] = Bare(n[i])
  BY <1>1, <1>2, LineType
<1>5. Grown(L, w.root) /\ \A i \in 1..Len(L) : L[i].parent <= Len(n)
  BY <1>3 DEF Calm, L
<1> HIDE DEF L
<1>6. \A k \in 0..deep :
        level[k] = IF k = 0 THEN ToSet(w.root) ELSE NextLevel(level[k - 1], FirstKids)
  BY DEF Levels
<1>7. ASSUME NEW i \in 1..Len(n)
      PROVE  /\ i \in 1..Len(L) /\ n[i].depth \in Nat /\ Hangs(n[i], n, deep)
             /\ n[i].parent < i /\ L[i].obj = n[i].obj /\ L[i].parent = n[i].parent
  <2>1. n[i] \in Node
    BY <1>1
  <2>2. n[i].depth \in Nat
    BY <2>1 DEF Node
  <2>3. Hangs(n[i], n, deep) /\ n[i].parent < i
    BY DEF Shape
  <2>4. L[i] = Bare(n[i])
    BY <1>4
  <2>5. i \in 1..Len(L)
    <3> DEFINE l == Len(w.queue)
    <3>1. Len(L) = Len(n) + none + l /\ l \in Nat /\ none = 0 /\ Len(n) \in Nat
      BY <1>1, <1>2, <1>4
    <3> HIDE DEF l, n
    <3> QED BY <3>1
  <2> HIDE DEF n
  <2> QED BY <2>2, <2>3, <2>4, <2>5 DEF Bare
<1>8. ASSUME T # {} PROVE FALSE
  <2>1. T \in SUBSET Nat
    OBVIOUS
  <2>2. PICK i \in T : \A j \in T : i <= j
    BY <1>8, <2>1, Least
  <2>3. i \in 1..Len(n) /\ ~Fine(i)
    BY <2>2
  <2> DEFINE p == n[i].parent
             d == n[i].depth
  <2>4. /\ d \in Nat /\ d <= deep /\ p \in 0..Len(n) /\ p < i
        /\ d = IF p = 0 THEN 0 ELSE n[p].depth + 1
        /\ L[i].obj = n[i].obj /\ L[i].parent = p /\ i \in 1..Len(L)
    BY <1>7, <2>3 DEF Hangs
  <2>5. CASE L[i].parent = 0 /\ L[i].obj \in ToSet(w.root)
    <3>1. d = 0 /\ n[i].obj \in level[0]
      BY <1>6, <2>4, <2>5
    <3> QED BY <2>3, <2>4, <3>1
  <2>6. CASE /\ L[i].parent \in 1..Len(L)
             /\ L[i].obj \in ToSet(FirstKids[L[L[i].parent].obj])
    <3>1. p \in 1..Len(n) /\ p # 0
      BY <1>1, <2>4, <2>6
    <3>2. ~(i <= p) /\ p \notin T
      <4>1. p \in Nat /\ i \in Nat
        BY <1>1, <2>3, <3>1
      <4> HIDE DEF T, p
      <4> QED BY <2>2, <2>4, <4>1
    <3>3. Fine(p)
      BY <3>1, <3>2
    <3>4. L[p].obj = n[p].obj
      BY <1>7, <3>1
    <3>5. n[i].obj \in ToSet(FirstKids[n[p].obj])
      BY <2>4, <2>6, <3>4
    <3>6. d = n[p].depth + 1 /\ n[p].depth \in Nat /\ n[p].obj \in level[n[p].depth]
      BY <2>4, <3>1, <3>3
    <3> DEFINE e == n[p].depth
    <3>7. d \in 0..deep /\ d # 0 /\ d - 1 = e
      BY <2>4, <3>6
    <3> HIDE DEF d, e
    <3>8. level[d] = NextLevel(level[e], FirstKids)
      BY <1>6, <3>7
    <3>9. n[i].obj \in level[d]
      BY <3>5, <3>6, <3>8 DEF NextLevel, e
    <3> QED BY <2>3, <3>7, <3>9 DEF d
  <2> QED BY <1>5, <2>4, <2>5, <2>6 DEF Grown
<1> QED BY <1>8

(* All of them, if there is no end before they are.                        *)
LEMMA BelowIsFound ==
  ASSUME NEW most \in Nat, NEW deep \in Nat, NEW w \in Walks, w.queue = <<>>,
         Complete(Line(w, 0), Len(w.nodes), w.root, deep),
         NEW level, Levels(level, ToSet(w.root), FirstKids, deep),
         NEW k \in 0..deep, NEW o \in level[k]
  PROVE  \E i \in 1..Len(w.nodes) : w.nodes[i].obj = o
<1> DEFINE n == w.nodes
           none == 0
           L == Line(w, none)
           S == {m \in Nat : m <= deep => \A x \in level[m] : Knows(L, x, m)}
<1>1. none = 0 /\ none # 1 /\ none \in {0, 1}
  OBVIOUS
<1>2. Complete(L, Len(n), w.root, deep)
  OBVIOUS
<1> HIDE DEF none
<1>3. /\ Len(L) = Len(n) + none + Len(w.queue) /\ Len(n) \in Nat
      /\ \A i \in 1..Len(n) : L[i] = Bare(n[i])
  BY <1>1, LineType
<1>4. Len(L) = Len(n)
  BY <1>1, <1>3
<1> HIDE DEF L
<1>5. \A m \in 0..deep :
        level[m] = IF m = 0 THEN ToSet(w.root) ELSE NextLevel(level[m - 1], FirstKids)
  BY DEF Levels
<1>6. 0 \in S
  BY <1>2, <1>5 DEF Complete
<1>7. ASSUME NEW m \in Nat, m \in S PROVE m + 1 \in S
  <2> SUFFICES ASSUME m + 1 <= deep, NEW x \in level[m + 1] PROVE Knows(L, x, m + 1)
    OBVIOUS
  <2>1. m + 1 \in 0..deep /\ m + 1 # 0 /\ (m + 1) - 1 = m /\ m <= deep /\ m < deep
    OBVIOUS
  <2>2. level[m + 1] = NextLevel(level[m], FirstKids)
    BY <1>5, <2>1
  <2>3. PICK y \in level[m] : x \in ToSet(FirstKids[y])
    BY <2>2 DEF NextLevel
  <2>4. PICK i \in 1..Len(L) : L[i].obj = y /\ L[i].depth = m
    BY <1>7, <2>1 DEF Knows
  <2> QED BY <1>2, <1>4, <2>1, <2>3, <2>4 DEF Complete
<1> HIDE DEF S
<1>8. k \in S
  BY <1>6, <1>7, Induction
<1>9. Knows(L, o, k)
  BY <1>8 DEF S
<1>10. PICK i \in 1..Len(n) : L[i].obj = o
  BY <1>4, <1>9 DEF Knows
<1>11. L[i].obj = n[i].obj
  <2>1. L[i] = Bare(n[i])
    BY <1>3, <1>10
  <2> HIDE DEF n
  <2> QED BY <2>1 DEF Bare
<1> QED BY <1>10, <1>11

(* A calm walk that has ended is of as many objects in its reach as it may *)
(* have, each once.                                                        *)
LEMMA CalmIsWhole ==
  ASSUME NEW most \in Nat, NEW deep \in Nat, NEW w, Shape(w, most, deep),
         Calm(w, 0, most, deep), Ended(w, most), kids = FirstKids
  PROVE  LET n     == w.nodes
             all   == Below(ToSet(w.root), deep)
             found == {n[i].obj : i \in 1..Len(n)}
         IN  /\ found \subseteq all /\ Cardinality(found) = Len(n)
             /\ Len(n) = Min({most, Cardinality(all)})
<1> DEFINE n == w.nodes
           all == Below(ToSet(w.root), deep)
           found == {n[i].obj : i \in 1..Len(n)}
           none == 0
           L == Line(w, none)
           s == [i \in 1..Len(n) |-> n[i].obj]
<1>1. w \in Walks /\ n \in Seq(Node) /\ Len(n) \in Nat /\ w.root \in Seq(Obj)
  <2>1. w \in Walks /\ n \in Seq(Node) /\ w.root \in Seq(Obj)
    BY DEF Shape, Walks
  <2> HIDE DEF n
  <2> QED BY <2>1
<1>2. none = 0 /\ none # 1 /\ none \in {0, 1}
  OBVIOUS
<1> HIDE DEF none
<1>3. Calm(w, none, most, deep)
  BY <1>2
<1>4. /\ Len(L) = Len(n) + none + Len(w.queue) /\ Len(w.queue) \in Nat
      /\ \A i \in 1..Len(n) : L[i] = Bare(n[i])
  BY <1>1, <1>2, LineType
<1>5. /\ w.tried = Len(n) + none /\ Grown(L, w.root)
      /\ Len(L) = most \/ Complete(L, Len(n), w.root, deep)
  BY <1>3 DEF Calm, L
<1>6. PICK level : /\ Levels(level, ToSet(w.root), FirstKids, deep)
                   /\ all = UNION {level[k] : k \in 0..deep}
  <2> DEFINE objs == ToSet(w.root)
  <2> HIDE DEF objs
  <2>1. \E level : /\ Levels(level, objs, kids, deep)
                    /\ Below(objs, deep) = UNION {level[k] : k \in 0..deep}
    BY BelowIsOfLevels
  <2> QED BY <2>1 DEF objs
<1>7. all \subseteq Obj /\ IsFiniteSet(all)
  <2>1. ToSet(w.root) \in SUBSET Obj
    BY <1>1 DEF ToSet
  <2>2. FirstKids \in [Obj -> Seq(Obj)] /\ IsFiniteSet(Obj)
    BY AppStateAssumption
  <2>3. \A k \in 0..deep : level[k] \subseteq Obj
    BY <1>6, <2>1, <2>2, LevelsAreObjects
  <2> HIDE DEF all
  <2>4. all \in SUBSET Obj
    BY <1>6, <2>3
  <2> QED BY <2>2, <2>4, FS_Subset
<1>8. found \subseteq all
  <2>1. \A i \in 1..Len(n) : n[i].depth \in 0..deep /\ n[i].obj \in level[n[i].depth]
    BY <1>6, FoundIsBelow
  <2> HIDE DEF n, all
  <2> QED BY <1>6, <2>1
<1>9. s \in Seq(Obj) /\ DOMAIN s = 1..Len(n) /\ Len(s) = Len(n) /\ ToSet(s) = found
  <2>1. \A i \in 1..Len(n) : n[i] \in Node
    BY <1>1
  <2>2. \A i \in 1..Len(n) : n[i].obj \in Obj
    BY <2>1 DEF Node
  <2> HIDE DEF n
  <2> QED BY <1>1, <2>2 DEF ToSet
<1>10. \A i, j \in DOMAIN s : s[i] = s[j] => i = j
  <2> SUFFICES ASSUME NEW i \in 1..Len(n), NEW j \in 1..Len(n), n[i].obj = n[j].obj
               PROVE  i = j
    BY <1>9
  <2>1. L[i] = Bare(n[i]) /\ L[j] = Bare(n[j])
    BY <1>4
  <2>2. i \in 1..Len(L) /\ j \in 1..Len(L)
    <3> DEFINE l == Len(w.queue)
    <3>1. Len(L) = Len(n) + none + l /\ l \in Nat /\ none = 0 /\ Len(n) \in Nat
      BY <1>1, <1>2, <1>4
    <3> HIDE DEF l, n, L
    <3> QED BY <3>1
  <2>3. L[i].obj = L[j].obj
    <3> HIDE DEF n, L
    <3> QED BY <2>1 DEF Bare
  <2> HIDE DEF L, n
  <2> QED BY <1>5, <2>2, <2>3 DEF Grown
<1>11. Cardinality(found) = Len(n)
  <2> HIDE DEF s, found
  <2> QED BY <1>9, <1>10, DistinctCount
<1>12. Len(n) <= Cardinality(all) /\ Cardinality(all) \in Nat
  <2> HIDE DEF found, all
  <2>1. Cardinality(found) <= Cardinality(all) /\ Cardinality(all) \in Nat
    BY <1>7, <1>8, FS_Subset, FS_CardinalityType
  <2> QED BY <1>11, <2>1
<1>13. Len(n) <= most
  BY <1>1 DEF Shape, Walks
<1>14. Len(n) = most \/ Len(n) = Cardinality(all)
  <2>1. CASE w.tried = most
    BY <1>1, <1>2, <1>5, <2>1
  <2>2. CASE w.queue = <<>> /\ Len(L) = most
    BY <1>1, <1>2, <1>4, <2>2
  <2>3. CASE w.queue = <<>> /\ Complete(L, Len(n), w.root, deep)
    <3>1. Complete(Line(w, 0), Len(w.nodes), w.root, deep)
      BY <1>2, <2>3
    <3>2. ASSUME NEW o \in all PROVE o \in found
      <4>1. PICK k \in 0..deep : o \in level[k]
        BY <1>6, <3>2
      <4>2. \E i \in 1..Len(n) : n[i].obj = o
        BY <1>1, <1>6, <2>3, <3>1, <4>1, BelowIsFound
      <4> QED BY <4>2
    <3> HIDE DEF found, all
    <3>3. found = all
      BY <1>8, <3>2
    <3> QED BY <1>11, <3>3
  <2> QED BY <1>5, <2>1, <2>2, <2>3 DEF Ended
<1> HIDE DEF all, found, n
<1>15. Len(n) = Min({most, Cardinality(all)})
  <2>1. Min({most, Cardinality(all)})
          = IF most <= Cardinality(all) THEN most ELSE Cardinality(all)
    BY <1>12, MinOfTwo
  <2> QED BY <1>1, <1>12, <1>13, <1>14, <2>1
<1> QED BY <1>8, <1>11, <1>15 DEF all, found, n

-----------------------------------------------------------------------------
(* What a tree that is read, or has been read, is of. While nothing has    *)
(* changed and nothing has failed its walk is calm, and of the window's    *)
(* process if that is on the bus.                                          *)
Walking(c) == pc[c] \in {"walk", "kids"} \/ access[c] = "done"

Quiet == events = 0 /\ failures = 0 /\ Forest

OfProcess(pid, roots) ==
  pid # None /\ (\E o \in ToSet(Apps) : PidOf[o] = pid) =>
    \A o \in ToSet(roots) : PidOf[o] = pid

TreeInv(c) ==
  /\ access[c] # "none" => pc[c] = "end"
  /\ Walking(c) => pids[c] = RootPids(walk[c].root, MaxPids)
  /\ access[c] = "done" => Ended(walk[c], ask[c].nodes)
  /\ Walking(c) /\ Quiet =>
       /\ pc[c] = "kids" => Calm(walk[c], 1, ask[c].nodes, ask[c].depth)
       /\ pc[c] # "kids" => Calm(walk[c], 0, ask[c].nodes, ask[c].depth)
       /\ OfProcess(PidOfWindow(c), walk[c].root)

TreesInv ==
  /\ DOMAIN pids = Call
  /\ events = 0 => kids = FirstKids
  /\ \A c \in Call : TreeInv(c)

(* A request that is not at its tree, or is where it was.                  *)
Quits(c) ==
  /\ pc'[c] \notin {"walk", "kids"} /\ access'[c] # "done"
  /\ access'[c] # "none" => pc'[c] = "end"

Rests(c) ==
  /\ pc'[c] = pc[c] /\ access'[c] = access[c] /\ win'[c] = win[c]
  /\ walk'[c] = walk[c] /\ pids'[c] = pids[c]

LEMMA QuitsKeepsTree ==
  ASSUME NEW c \in Call, Quits(c)
  PROVE  TreeInv(c)'
BY DEF Quits, TreeInv, Walking

LEMMA RestsKeepsTree ==
  ASSUME NEW c \in Call, TreeInv(c), Rests(c), ask' = ask, Quiet' => Quiet
  PROVE  TreeInv(c)'
<1>1. PidOfWindow(c)' = PidOfWindow(c) /\ Walking(c)' = Walking(c)
  BY DEF Rests, PidOfWindow, Walking
<1>2. /\ access'[c] # "none" => pc'[c] = "end"
      /\ Walking(c)' => pids'[c] = RootPids(walk'[c].root, MaxPids)
      /\ access'[c] = "done" => Ended(walk'[c], ask'[c].nodes)
  BY <1>1 DEF Rests, TreeInv
<1>3. ASSUME Walking(c)', Quiet'
      PROVE  /\ pc'[c] = "kids" => Calm(walk'[c], 1, ask'[c].nodes, ask'[c].depth)
             /\ pc'[c] # "kids" => Calm(walk'[c], 0, ask'[c].nodes, ask'[c].depth)
             /\ OfProcess(PidOfWindow(c)', walk'[c].root)
  BY <1>1, <1>3 DEF Rests, TreeInv
<1> QED BY <1>2, <1>3 DEF TreeInv

(* Only the request that moves does.                                       *)
OnlyOne(c) ==
  /\ ask' = ask /\ DOMAIN pids' = DOMAIN pids
  /\ \A d \in Call : d # c => Rests(d)

LEMMA QuietWas ==
  ASSUME TypesInv, [Next]_vars
  PROVE  /\ Quiet' => Quiet
         /\ events' = 0 => events = 0 /\ kids' = kids
         /\ failures' = 0 => failures = 0
<1>1. events \in Nat /\ failures \in Nat /\ events' \in Nat /\ failures' \in Nat
      /\ events' >= events /\ failures' >= failures /\ (events' = 0 => kids' = kids)
  <2>1. /\ events \in 0..MaxEvents /\ failures \in 0..MaxFailures /\ MaxEvents \in Nat
        /\ MaxFailures \in Nat
    BY AppStateAssumption DEF TypesInv, TypeOK
  <2>2. /\ events' \in 0..MaxEvents /\ events' >= events
        /\ events' = 0 => kids' = kids
    BY NextWorldTypes DEF TypesInv
  <2>3. failures' \in 0..MaxFailures /\ failures' >= failures
    BY <2>1, NextFailures
  <2> QED BY <2>1, <2>2, <2>3
<1>2. events' = 0 => events = 0
  BY <1>1
<1>3. failures' = 0 => failures = 0
  BY <1>1
<1>4. Forest' = Forest
  BY DEF Forest
<1> QED BY <1>1, <1>2, <1>3, <1>4 DEF Quiet

LEMMA FailingIsNotQuiet ==
  ASSUME TypesInv, Fails
  PROVE  ~Quiet'
<1>1. failures \in Nat
  BY AppStateAssumption DEF TypesInv, TypeOK
<1>2. failures' # 0
  BY <1>1 DEF Fails
<1> QED BY <1>2 DEF Quiet

-----------------------------------------------------------------------------
(* The steps of a walk leave nothing out.                                  *)
LEMMA RootsKeepsTree ==
  ASSUME TypesInv, TreesInv, NEW c \in Call, Roots(c), DOMAIN walk = Call
  PROVE  TreeInv(c)' /\ OnlyOne(c)
<1>1. /\ pc \in [Call -> Step] /\ access \in [Call -> {"none", "failed", "done"}]
      /\ DOMAIN pids = Call /\ pc[c] = "roots" /\ ask' = ask /\ win' = win
      /\ TreeInv(c) /\ ask[c].nodes \in Nat /\ ask[c].depth \in Nat
  BY OptionsType DEF TypesInv, TypeOK, TreesInv, Roots
<1>2. access[c] = "none"
  BY <1>1 DEF TreeInv
<1>3. PICK listed \in {Apps} \cup Drops(Apps) :
        /\ IF listed = Apps THEN Works ELSE Fails
        /\ LET roots == SelectRoots(listed, kids, PidOfWindow(c), needle[c])
           IN  \/ /\ walk' = [walk EXCEPT ![c] = StartOf(roots, ask[c].nodes)]
                  /\ pids' = [pids EXCEPT ![c] = RootPids(roots, MaxPids)]
                  /\ pc' = [pc EXCEPT ![c] = "walk"]
                  /\ UNCHANGED access
               \/ /\ access' = [access EXCEPT ![c] = "failed"]
                  /\ pc' = [pc EXCEPT ![c] = "end"]
                  /\ UNCHANGED <<walk, pids>>
  BY DEF Roots, Goto, StartOf, Starting
<1> DEFINE roots == SelectRoots(listed, kids, PidOfWindow(c), needle[c])
           v == StartOf(roots, ask[c].nodes)
<1>4. OnlyOne(c)
  <2> HIDE DEF roots, v
  <2> QED BY <1>1, <1>3 DEF OnlyOne, Rests, roots, v
<1>5. CASE access' = [access EXCEPT ![c] = "failed"] /\ pc' = [pc EXCEPT ![c] = "end"]
  <2>1. Quits(c)
    BY <1>1, <1>5 DEF Quits
  <2> QED BY <1>4, <2>1, QuitsKeepsTree
<1>6. CASE /\ walk' = [walk EXCEPT ![c] = v]
           /\ pids' = [pids EXCEPT ![c] = RootPids(roots, MaxPids)]
           /\ pc' = [pc EXCEPT ![c] = "walk"]
           /\ UNCHANGED access
  <2>1. v.root = roots
    BY DEF StartOf, NoWalk
  <2>2. roots \in Seq(Obj) /\ (Distinct(listed) => Distinct(roots))
        /\ ToSet(roots) \subseteq ToSet(listed)
        /\ (PidOfWindow(c) # None /\ (\E o \in ToSet(listed) : PidOf[o] = PidOfWindow(c)) =>
              \A o \in ToSet(roots) : PidOf[o] = PidOfWindow(c))
    <3>1. listed \in Seq(Obj)
      BY ListedApps
    <3> QED BY <3>1, SelectRootsIsWithin
  <2>3. PidOfWindow(c)' = PidOfWindow(c)
    BY <1>1 DEF PidOfWindow
  <2> HIDE DEF roots
  <2>4. ASSUME Quiet' PROVE Calm(v, 0, ask[c].nodes, ask[c].depth)
                            /\ OfProcess(PidOfWindow(c), roots)
    <3>1. listed = Apps
      BY <1>3, <2>4, FailingIsNotQuiet
    <3>2. Distinct(Apps)
      BY <2>4 DEF Quiet, Forest, Distinct
    <3>3. Distinct(roots) /\ ToSet(roots) \subseteq ToSet(Apps)
      BY <2>2, <3>1, <3>2
    <3>4. Calm(v, 0, ask[c].nodes, ask[c].depth)
      BY <1>1, <2>2, <3>3, StartIsCalm
    <3> QED BY <2>2, <3>1, <3>4 DEF OfProcess
  <2> HIDE DEF v
  <2>5. /\ pc'[c] = "walk" /\ walk'[c] = v /\ pids'[c] = RootPids(roots, MaxPids)
        /\ access'[c] = "none"
    BY <1>1, <1>2, <1>6
  <2> QED BY <1>1, <1>4, <2>1, <2>3, <2>4, <2>5 DEF TreeInv
<1> QED BY <1>3, <1>5, <1>6

LEMMA OpenKeepsTree ==
  ASSUME TypesInv, WalksInv, TreesInv, NEW c \in Call, Open(c), WalkInv(c)'
  PROVE  TreeInv(c)' /\ OnlyOne(c)
<1> DEFINE w == walk[c]
           most == ask[c].nodes
           deep == ask[c].depth
           next == Head(w.queue)
           opened == [w EXCEPT !.queue = Tail(@), !.tried = @ + 1]
           want == IF next.depth < deep
                   THEN Min({Len(kids[next.obj]), most - w.tried - Len(w.queue), w.reads})
                   ELSE 0
           v == [opened EXCEPT !.now = next, !.want = want, !.index = 0, !.got = <<>>,
                               !.reads = @ - want]
<1>1. /\ pc \in [Call -> Step] /\ access \in [Call -> {"none", "failed", "done"}]
      /\ DOMAIN walk = Call /\ pc[c] = "walk" /\ ask' = ask
      /\ UNCHANGED <<win, pids, access>>
      /\ TreeInv(c) /\ most \in Nat /\ deep \in Nat /\ Shape(w, most, deep)
      /\ w.queue # <<>>
  BY OptionsType DEF TypesInv, TypeOK, TreesInv, WalksInv, WalkInv, Open
<1>2. \/ /\ walk' = [walk EXCEPT ![c] = v]
         /\ pc' = [pc EXCEPT ![c] = "kids"]
      \/ /\ Fails
         /\ walk' = [walk EXCEPT ![c] = opened]
         /\ pc' = pc
  BY DEF Open, Goto, Remaining
<1>3. w \in Walks /\ walk'[c] \in Walks /\ w.tried + Len(w.queue) <= most
  BY <1>1 DEF Shape, WalkInv
<1>4. /\ opened.root = w.root /\ v.root = w.root /\ Takes(w, v) /\ v.now = next
      /\ v.index = 0 /\ v.got = <<>> /\ v.reads = w.reads - v.want /\ v.want = want
  BY <1>3 DEF Walks, Takes
<1>5. access[c] = "none" /\ pids[c] = RootPids(w.root, MaxPids)
      /\ (Quiet => Calm(w, 0, most, deep) /\ OfProcess(PidOfWindow(c), w.root))
  BY <1>1 DEF TreeInv, Walking
<1>6. PidOfWindow(c)' = PidOfWindow(c)
  BY <1>1 DEF PidOfWindow
<1> HIDE DEF w, opened, next, want, v
<1>7. OnlyOne(c)
  BY <1>1, <1>2 DEF OnlyOne, Rests
<1>8. CASE /\ Fails
           /\ walk' = [walk EXCEPT ![c] = opened]
           /\ pc' = pc
  <2>1. ~Quiet'
    BY <1>8, FailingIsNotQuiet
  <2>2. walk'[c].root = w.root /\ pids'[c] = pids[c] /\ access'[c] = "none"
    BY <1>1, <1>4, <1>5, <1>8
  <2> QED BY <1>5, <1>7, <2>1, <2>2 DEF TreeInv
<1>9. CASE /\ walk' = [walk EXCEPT ![c] = v]
           /\ pc' = [pc EXCEPT ![c] = "kids"]
  <2>1. walk'[c] = v /\ pids'[c] = pids[c] /\ access'[c] = "none" /\ pc'[c] = "kids"
    BY <1>1, <1>5, <1>9
  <2>2. v \in Walks
    BY <1>3, <2>1
  <2>3. ASSUME Quiet' PROVE Calm(v, 1, most, deep) /\ OfProcess(PidOfWindow(c), v.root)
    <3>1. Quiet /\ kids = FirstKids
      BY <2>3, QuietWas DEF TreesInv, Quiet, Next, Proceeds
    <3>2. v.want = IF v.now.depth < deep
                   THEN Min({Len(FirstKids[v.now.obj]), most - w.tried - Len(w.queue), w.reads})
                   ELSE 0
      BY <1>4, <3>1 DEF want
    <3>3. v.now = Head(w.queue)
      BY <1>4 DEF next
    <3> HIDE DEF most, deep
    <3>4. Calm(v, 1, most, deep)
      BY <1>1, <1>3, <1>4, <1>5, <2>2, <3>1, <3>2, <3>3, OpenIsCalm
    <3> QED BY <1>4, <1>5, <3>1, <3>4
  <2> QED BY <1>1, <1>4, <1>5, <1>6, <1>7, <2>1, <2>3 DEF TreeInv
<1> QED BY <1>2, <1>8, <1>9

LEMMA ReadChildKeepsTree ==
  ASSUME TypesInv, WalksInv, TreesInv, NEW c \in Call, ReadChild(c), WalkInv(c)'
  PROVE  TreeInv(c)' /\ OnlyOne(c)
<1> DEFINE w == walk[c]
           most == ask[c].nodes
           deep == ask[c].depth
           here == kids[w.now.obj]
           i == w.index + 1
           v == [w EXCEPT !.index = i, !.got = Append(@, here[i])]
           u == [w EXCEPT !.index = i]
<1>1. /\ pc \in [Call -> Step] /\ access \in [Call -> {"none", "failed", "done"}]
      /\ DOMAIN walk = Call /\ pc[c] = "kids" /\ ask' = ask
      /\ UNCHANGED <<win, pids, access, pc>>
      /\ TreeInv(c) /\ most \in Nat /\ deep \in Nat /\ Shape(w, most, deep)
      /\ w.index < w.want
  BY OptionsType DEF TypesInv, TypeOK, TreesInv, WalksInv, WalkInv, ReadChild
<1>2. \/ walk' = [walk EXCEPT ![c] = v] /\ i <= Len(here)
      \/ walk' = [walk EXCEPT ![c] = u] /\ (~(i <= Len(here)) \/ Fails)
  <2>1. \/ walk' = [walk EXCEPT ![c] = v] /\ i <= Len(here)
        \/ walk' = [walk EXCEPT ![c] = u] /\ (i > Len(here) \/ Fails)
    BY DEF ReadChild
  <2> HIDE DEF v, u, i, here
  <2>2. ASSUME Len(here) \in Int, i \in Int PROVE i > Len(here) => ~(i <= Len(here))
    BY <2>2
  <2>3. Len(here) \in Int /\ i \in Int
    <3>1. w.now \in Item /\ w.index \in Nat
      BY <1>1 DEF WalksInv, WalkInv, Reading, Shape, Walks
    <3>2. w.now.obj \in Obj
      BY <3>1 DEF Item
    <3>3. kids[w.now.obj] \in Seq(Obj)
      BY <3>2 DEF TypesInv, TypeOK
    <3> QED BY <3>1, <3>3 DEF here, i
  <2> QED BY <2>1, <2>2, <2>3
<1>3. w \in Walks /\ walk'[c] \in Walks
  BY <1>1 DEF Shape, WalkInv
<1>4. /\ u.root = w.root /\ v.root = w.root
      /\ v.queue = w.queue /\ v.tried = w.tried /\ v.nodes = w.nodes
      /\ v.now = w.now /\ v.want = w.want /\ v.reads = w.reads
      /\ v.index = w.index + 1 /\ v.got = Append(w.got, here[i])
  BY <1>3 DEF Walks
<1>5. access[c] = "none" /\ pids[c] = RootPids(w.root, MaxPids)
      /\ (Quiet => Calm(w, 1, most, deep) /\ OfProcess(PidOfWindow(c), w.root))
  BY <1>1 DEF TreeInv, Walking
<1>6. PidOfWindow(c)' = PidOfWindow(c)
  BY <1>1 DEF PidOfWindow
<1> HIDE DEF w, u, v
<1>7. OnlyOne(c)
  BY <1>1, <1>2 DEF OnlyOne, Rests
<1>8. Quiet' => Quiet /\ kids = FirstKids
  BY QuietWas DEF TreesInv, Quiet, Next, Proceeds
<1>9. Quiet => i <= Len(here)
  <2> SUFFICES ASSUME Quiet PROVE i <= Len(here)
    OBVIOUS
  <2>1. kids = FirstKids
    BY DEF Quiet, TreesInv
  <2>2. w.want <= Len(FirstKids[w.now.obj]) /\ w.index \in Nat /\ w.want \in Nat
        /\ w.now \in Item
    BY <1>3, <1>5 DEF Calm, Asking, Walks
  <2>3. w.now.obj \in Obj
    BY <2>2 DEF Item
  <2>4. FirstKids[w.now.obj] \in Seq(Obj)
    BY <2>3, AppStateAssumption
  <2> DEFINE l == Len(FirstKids[w.now.obj])
  <2>5. l \in Nat
    BY <2>4
  <2> HIDE DEF l
  <2>6. w.index + 1 <= l
    BY <1>1, <2>2, <2>5 DEF l
  <2> QED BY <2>1, <2>6 DEF l
<1>10. CASE walk' = [walk EXCEPT ![c] = u] /\ (~(i <= Len(here)) \/ Fails)
  <2>1. ~Quiet'
    BY <1>8, <1>9, <1>10, FailingIsNotQuiet
  <2>2. walk'[c].root = w.root /\ pids'[c] = pids[c] /\ access'[c] = "none"
    BY <1>1, <1>4, <1>5, <1>10
  <2> QED BY <1>5, <1>7, <2>1, <2>2 DEF TreeInv
<1>11. CASE walk' = [walk EXCEPT ![c] = v]
  <2>1. walk'[c] = v /\ pids'[c] = pids[c] /\ access'[c] = "none" /\ pc'[c] = "kids"
    BY <1>1, <1>5, <1>11
  <2>2. v \in Walks
    BY <1>3, <2>1
  <2>3. ASSUME Quiet' PROVE Calm(v, 1, most, deep) /\ OfProcess(PidOfWindow(c), v.root)
    <3>1. Quiet /\ kids = FirstKids
      BY <1>8, <2>3
    <3>2. v.got = Append(w.got, FirstKids[w.now.obj][w.index + 1])
      BY <1>4, <3>1
    <3> HIDE DEF most, deep, i, here
    <3>3. Calm(v, 1, most, deep)
      BY <1>1, <1>3, <1>4, <1>5, <2>2, <3>1, <3>2, ReadIsCalm
    <3> QED BY <1>4, <1>5, <3>1, <3>3
  <2> QED BY <1>1, <1>4, <1>5, <1>6, <1>7, <2>1, <2>3 DEF TreeInv
<1> QED BY <1>2, <1>10, <1>11

LEMMA PushKeepsTree ==
  ASSUME TypesInv, WalksInv, TreesInv, NEW c \in Call, Push(c), WalkInv(c)'
  PROVE  TreeInv(c)' /\ OnlyOne(c)
<1> DEFINE w == walk[c]
           most == ask[c].nodes
           deep == ask[c].depth
           live == w.now.obj \notin gone
           node == [obj |-> w.now.obj, depth |-> w.now.depth, parent |-> w.now.parent,
                    live |-> live]
           room == most - w.tried - Len(w.queue)
           kid == KidItems(w, room)
           v == [w EXCEPT !.nodes = Append(@, node), !.queue = @ \o kid]
<1>1. /\ pc \in [Call -> Step] /\ access \in [Call -> {"none", "failed", "done"}]
      /\ DOMAIN walk = Call /\ pc[c] = "kids" /\ ask' = ask
      /\ UNCHANGED <<win, pids, access>>
      /\ TreeInv(c) /\ most \in Nat /\ deep \in Nat /\ Shape(w, most, deep)
      /\ Reading(w, deep) /\ w.index = w.want
  BY OptionsType DEF TypesInv, TypeOK, TreesInv, WalksInv, WalkInv, Push
<1>2. walk' = [walk EXCEPT ![c] = v] /\ pc' = [pc EXCEPT ![c] = "walk"]
  BY DEF Push, Goto, KidItems, Remaining
<1>3. w \in Walks /\ walk'[c] \in Walks /\ w.tried + Len(w.queue) <= most
      /\ w.tried \in Nat /\ Len(w.queue) \in Nat
  BY <1>1 DEF Shape, WalkInv, Walks
<1>4. /\ v.root = w.root /\ v.reads = w.reads /\ v.tried = w.tried
      /\ v.queue = w.queue \o kid /\ v.nodes = Append(w.nodes, node)
  BY <1>3 DEF Walks
<1>5. access[c] = "none" /\ pids[c] = RootPids(w.root, MaxPids)
      /\ (Quiet => Calm(w, 1, most, deep) /\ OfProcess(PidOfWindow(c), w.root))
  BY <1>1 DEF TreeInv, Walking
<1>6. PidOfWindow(c)' = PidOfWindow(c)
  BY <1>1 DEF PidOfWindow
<1> HIDE DEF v
<1>7. OnlyOne(c)
  BY <1>1, <1>2 DEF OnlyOne, Rests
<1>8. Quiet' => Quiet
  BY QuietWas DEF Next, Proceeds
<1>9. walk'[c] = v /\ pids'[c] = pids[c] /\ access'[c] = "none" /\ pc'[c] = "walk"
  BY <1>1, <1>2, <1>5
<1>10. room \in Nat
  <2> DEFINE t == w.tried  l == Len(w.queue)
  <2>1. t \in Nat /\ l \in Nat /\ most \in Nat /\ t + l <= most
    BY <1>1, <1>3
  <2> HIDE DEF t, l, most
  <2>2. most - t - l \in Nat
    BY <2>1
  <2> QED BY <2>2 DEF t, l
<1>11. Pushes(w, v, live, kid)
  <2>1. \A k \in 1..Len(kid) : kid[k].depth = w.now.depth + 1
                               /\ kid[k].parent = Len(w.nodes) + 1
    <3> HIDE DEF w, room
    <3> QED BY <1>3, <1>10, KidItemsType
  <2> HIDE DEF kid, w
  <2> QED BY <1>4, <2>1 DEF Pushes
<1> HIDE DEF w, most, deep
<1>12. ASSUME Quiet' PROVE Calm(v, 0, most, deep) /\ OfProcess(PidOfWindow(c), v.root)
  <2>1. Quiet /\ Forest /\ Calm(w, 1, most, deep)
    BY <1>5, <1>8, <1>12 DEF Quiet
  <2>2. v \in Walks /\ live \in BOOLEAN
    BY <1>3, <1>9
  <2> HIDE DEF live
  <2>3. Calm(v, 0, most, deep)
    BY <1>1, <1>3, <1>4, <1>11, <2>1, <2>2, PushIsCalm
  <2> QED BY <1>4, <1>5, <2>1, <2>3
<1> QED BY <1>1, <1>4, <1>5, <1>6, <1>7, <1>9, <1>12 DEF TreeInv, most, deep, w

-----------------------------------------------------------------------------
(* The end of a walk, and what is no part of it.                           *)
LEMMA EndingKeepsTree ==
  ASSUME TypesInv, TreesInv, NEW c \in Call, WalkEnds(c) \/ TreeTimeout(c)
  PROVE  TreeInv(c)' /\ OnlyOne(c)
<1>1. /\ pc \in [Call -> Step] /\ access \in [Call -> {"none", "failed", "done"}]
      /\ DOMAIN pids = Call /\ ask' = ask /\ UNCHANGED <<win, walk>> /\ TreeInv(c)
      /\ pc' = [pc EXCEPT ![c] = "end"]
  BY DEF TypesInv, TypeOK, TreesInv, WalkEnds, TreeTimeout, Goto
<1>2. CASE WalkEnds(c)
  <2>1. /\ pc[c] = "walk" /\ Ended(walk[c], ask[c].nodes)
        /\ access' = [access EXCEPT ![c] = "done"] /\ pids' = pids
    BY <1>2 DEF WalkEnds, Ended
  <2>2. OnlyOne(c)
    BY <1>1, <2>1 DEF OnlyOne, Rests
  <2>3. Quiet' => Quiet
    BY <1>2, QuietWas DEF Next, Proceeds
  <2>4. PidOfWindow(c)' = PidOfWindow(c)
    BY <1>1 DEF PidOfWindow
  <2>5. pids[c] = RootPids(walk[c].root, MaxPids)
        /\ (Quiet => /\ Calm(walk[c], 0, ask[c].nodes, ask[c].depth)
                     /\ OfProcess(PidOfWindow(c), walk[c].root))
    BY <1>1, <2>1 DEF TreeInv, Walking
  <2>6. pc'[c] = "end" /\ access'[c] = "done"
    BY <1>1, <2>1
  <2> QED BY <1>1, <2>1, <2>2, <2>3, <2>4, <2>5, <2>6 DEF TreeInv
<1>3. CASE TreeTimeout(c)
  <2>1. /\ access' = [access EXCEPT ![c] = "failed"]
        /\ pids' = [pids EXCEPT ![c] = {}]
    BY <1>3 DEF TreeTimeout
  <2>2. OnlyOne(c)
    BY <1>1, <2>1 DEF OnlyOne, Rests
  <2>3. Quits(c)
    BY <1>1, <2>1 DEF Quits
  <2> QED BY <2>2, <2>3, QuitsKeepsTree
<1> QED BY <1>2, <1>3

(* The steps before the tree.                                              *)
Elsewhere(c) ==
  \/ PortalTimeout(c) \/ LookForState(c) \/ LookForShot(c) \/ Subscribe(c) \/ CallPortal(c)
  \/ HearAnother(c) \/ HearPicture(c) \/ HearRefusal(c) \/ Crop(c) \/ Fit(c)
  \/ Filter(c) \/ TakeHandle(c) \/ PortalFails(c) \/ Answers(c)

Moves(c) ==
  /\ pc[c] \notin {"walk", "kids", "end"}
  /\ \/ /\ access' = access
        /\ \E s \in Step \ {"walk", "kids"} : pc' = [pc EXCEPT ![c] = s]
     \/ /\ access' = [access EXCEPT ![c] = "failed"]
        /\ pc' = [pc EXCEPT ![c] = "end"]
  /\ win' = win \/ \E x : win' = [win EXCEPT ![c] = x]

LEMMA PictureEndMoves ==
  ASSUME TypeOK, NEW c \in Call, NEW how, PictureEnds(c, how),
         pc[c] \notin {"walk", "kids", "end"}
  PROVE  Moves(c) /\ UNCHANGED <<walk, pids, ask>>
<1>1. /\ pc' = [pc EXCEPT ![c] = AfterPicture(c)] /\ win' = win
      /\ access' = [access EXCEPT ![c] =
                      IF ToolOf(c) = "state" /\ ~ask[c].ready THEN "failed" ELSE @]
      /\ UNCHANGED <<walk, pids, ask>>
  BY DEF PictureEnds, Goto
<1>2. access \in [Call -> {"none", "failed", "done"}]
  BY DEF TypeOK
<1>3. CASE ToolOf(c) = "state" /\ ~ask[c].ready
  BY <1>1, <1>3 DEF Moves, AfterPicture
<1>4. CASE ~(ToolOf(c) = "state" /\ ~ask[c].ready)
  <2>1. access' = access
    BY <1>1, <1>2, <1>4
  <2>2. AfterPicture(c) \in Step \ {"walk", "kids"}
    BY DEF AfterPicture, Step
  <2> QED BY <1>1, <2>1, <2>2 DEF Moves
<1> QED BY <1>3, <1>4

LEMMA ElsewhereMoves ==
  ASSUME TypeOK, NEW c \in Call, Elsewhere(c)
  PROVE  /\ UNCHANGED <<walk, pids, ask>>
         /\ Moves(c) \/ UNCHANGED <<pc, access, win>>
<1>1. CASE PortalTimeout(c) \/ HearRefusal(c) \/ PortalFails(c)
  BY <1>1, PictureEndMoves DEF PortalTimeout, HearRefusal, PortalFails
<1>2. CASE LookForState(c)
  BY <1>2 DEF LookForState, Goto, Moves, Step, treeVars
<1>3. CASE LookForShot(c)
  <2>1. pc[c] = "look" /\ access' = access /\ UNCHANGED <<walk, pids, ask>>
    BY <1>3 DEF LookForShot, treeVars
  <2>2. pc' = [pc EXCEPT ![c] = "subscribe"] \/ pc' = [pc EXCEPT ![c] = "end"]
    BY <1>3 DEF LookForShot, Goto
  <2>3. win' = win \/ \E x : win' = [win EXCEPT ![c] = x]
    BY <1>3 DEF LookForShot
  <2> QED BY <2>1, <2>2, <2>3 DEF Moves, Step
<1>4. CASE Subscribe(c)
  BY <1>4 DEF Subscribe, Goto, Moves, Step, treeVars
<1>5. CASE CallPortal(c)
  BY <1>5 DEF CallPortal, Goto, Moves, Step, treeVars
<1>6. CASE HearAnother(c)
  BY <1>6 DEF HearAnother, treeVars
<1>7. CASE HearPicture(c)
  BY <1>7 DEF HearPicture, Goto, Moves, Step, treeVars
<1>8. CASE Crop(c)
  <2>1. CASE PictureEnds(c, "refused")
    BY <1>8, <2>1, PictureEndMoves DEF Crop
  <2>2. CASE pc' = [pc EXCEPT ![c] = "fit"]
             /\ UNCHANGED <<ask, win, portal, shot, access, needle, walk, pids>>
    BY <1>8, <2>2 DEF Crop, Moves, Step
  <2> QED BY <1>8, <2>1, <2>2 DEF Crop, Goto
<1>9. CASE Fit(c)
  <2>1. CASE PictureEnds(c, "done") \/ PictureEnds(c, "failed")
    BY <1>9, <2>1, PictureEndMoves DEF Fit
  <2>2. CASE UNCHANGED <<ask, pc, win, portal, shot, access, needle, walk, pids>>
    BY <2>2
  <2> QED BY <1>9, <2>1, <2>2 DEF Fit
<1>10. CASE Filter(c)
  <2>1. /\ pc[c] = "filter" /\ win' = win /\ UNCHANGED <<walk, pids, ask>>
        /\ pc' = [pc EXCEPT ![c] = IF ask[c].picture THEN "subscribe"
                                   ELSE IF ask[c].ready THEN "roots" ELSE "end"]
        /\ access' = [access EXCEPT ![c] =
                        IF ~ask[c].picture /\ ~ask[c].ready THEN "failed" ELSE @]
    BY <1>10 DEF Filter, Goto
  <2>2. access \in [Call -> {"none", "failed", "done"}]
    BY DEF TypeOK
  <2>3. CASE ~ask[c].picture /\ ~ask[c].ready
    BY <2>1, <2>3 DEF Moves
  <2>4. CASE ~(~ask[c].picture /\ ~ask[c].ready)
    BY <2>1, <2>2, <2>4 DEF Moves, Step
  <2> QED BY <2>3, <2>4
<1>11. CASE TakeHandle(c)
  BY <1>11 DEF TakeHandle, Goto, Moves, Step, treeVars
<1>12. CASE Answers(c)
  BY <1>12 DEF Answers, treeVars
<1> QED BY <1>1, <1>2, <1>3, <1>4, <1>5, <1>6, <1>7, <1>8, <1>9, <1>10, <1>11, <1>12
        DEF Elsewhere

LEMMA ElsewhereKeepsTree ==
  ASSUME TypesInv, TreesInv, NEW c \in Call, Elsewhere(c)
  PROVE  TreeInv(c)' /\ OnlyOne(c)
<1>1. /\ pc \in [Call -> Step] /\ access \in [Call -> {"none", "failed", "done"}]
      /\ win \in [Call -> Listings \cup {None}] /\ TreeInv(c) /\ TypeOK
  BY DEF TypesInv, TypeOK, TreesInv
<1>2. /\ UNCHANGED <<walk, pids, ask>>
      /\ Moves(c) \/ UNCHANGED <<pc, access, win>>
  BY <1>1, ElsewhereMoves
<1>3. OnlyOne(c)
  BY <1>1, <1>2 DEF OnlyOne, Rests, Moves
<1>4. Quiet' => Quiet
  <2>1. Next
    BY DEF Elsewhere, Next, Proceeds
  <2> QED BY <2>1, QuietWas
<1>5. CASE UNCHANGED <<pc, access, win>>
  <2>1. Rests(c)
    BY <1>2, <1>5 DEF Rests
  <2> QED BY <1>1, <1>2, <1>3, <1>4, <2>1, RestsKeepsTree
<1>6. CASE Moves(c)
  <2>1. access[c] = "none"
    BY <1>1, <1>6 DEF Moves, TreeInv
  <2>2. Quits(c)
    BY <1>1, <1>6, <2>1 DEF Moves, Quits
  <2> QED BY <1>3, <2>2, QuitsKeepsTree
<1> QED BY <1>2, <1>5, <1>6

LEMMA NextTree == TypesInv /\ WalksInv /\ TreesInv /\ [Next]_vars => TreesInv'
<1> SUFFICES ASSUME TypesInv, WalksInv, TreesInv, [Next]_vars PROVE TreesInv'
  OBVIOUS
<1>1. WalksInv' /\ DOMAIN walk = Call /\ DOMAIN pids = Call
  BY NextWalk DEF TypesInv, WalksInv, TreesInv
<1>2. Quiet' => Quiet
  BY QuietWas
<1>3. events' = 0 => kids' = FirstKids
  BY QuietWas DEF TreesInv
<1>4. ASSUME NEW c \in Call, TreeInv(c)' /\ OnlyOne(c)
      PROVE  TreesInv'
  <2>1. ASSUME NEW d \in Call PROVE TreeInv(d)'
    <3>1. CASE d = c
      BY <1>4, <3>1
    <3>2. CASE d # c
      <4>1. TreeInv(d) /\ Rests(d) /\ ask' = ask
        BY <1>4, <3>2 DEF OnlyOne, TreesInv
      <4> QED BY <1>2, <4>1, RestsKeepsTree
    <3> QED BY <3>1, <3>2
  <2>2. DOMAIN pids' = Call
    BY <1>1, <1>4 DEF OnlyOne
  <2> QED BY <1>3, <2>1, <2>2 DEF TreesInv
<1>5. ASSUME NEW c \in Call,
             Proceeds(c) \/ Filter(c) \/ TakeHandle(c) \/ PortalFails(c) \/ Answers(c)
      PROVE  TreesInv'
  <2>1. WalkInv(c)'
    BY <1>1 DEF WalksInv
  <2>2. \/ Elsewhere(c) \/ Roots(c) \/ Open(c) \/ ReadChild(c) \/ Push(c)
        \/ WalkEnds(c) \/ TreeTimeout(c)
    BY <1>5 DEF Proceeds, Elsewhere
  <2>3. TreeInv(c)' /\ OnlyOne(c)
    BY <1>1, <2>1, <2>2, ElsewhereKeepsTree, RootsKeepsTree, OpenKeepsTree, ReadChildKeepsTree,
       PushKeepsTree, EndingKeepsTree
  <2> QED BY <1>4, <2>3
<1>6. CASE Event \/ UNCHANGED vars
  <2>1. UNCHANGED <<pc, access, win, walk, pids, ask>>
    BY <1>6 DEF Event, vars, treeVars
  <2>2. ASSUME NEW d \in Call PROVE TreeInv(d)'
    <3>1. TreeInv(d) /\ Rests(d) /\ ask' = ask
      BY <2>1 DEF Rests, TreesInv
    <3> QED BY <1>2, <3>1, RestsKeepsTree
  <2> QED BY <1>1, <1>3, <2>1, <2>2 DEF TreesInv
<1> QED BY <1>5, <1>6 DEF Next

LEMMA InitTree == Init => TreesInv
<1> SUFFICES ASSUME Init PROVE TreesInv
  OBVIOUS
<1>1. DOMAIN pids = Call /\ kids = FirstKids
  BY DEF Init
<1>2. ASSUME NEW c \in Call PROVE TreeInv(c)
  <2>1. access[c] = "none" /\ pc[c] \in {"end", "look"}
    BY DEF Init
  <2> QED BY <2>1 DEF TreeInv, Walking
<1> QED BY <1>1, <1>2 DEF TreesInv

(* A tree that is returned is whole if nothing changed or failed, and      *)
(* comes with a warning if it is of no process of the window.              *)
LEMMA TreesSuffice == TypesInv /\ WalksInv /\ TreesInv => WholeTree /\ Forewarned
<1> SUFFICES ASSUME TypesInv, WalksInv, TreesInv PROVE WholeTree /\ Forewarned
  OBVIOUS
<1>1. WholeTree
  <2> SUFFICES ASSUME NEW c \in Call, access[c] = "done", events = 0, failures = 0, Forest
      PROVE  LET n     == walk[c].nodes
                 all   == Below(ToSet(walk[c].root), ask[c].depth)
                 found == {n[i].obj : i \in 1..Len(n)}
             IN  /\ found \subseteq all /\ Cardinality(found) = Len(n)
                 /\ Len(n) = Min({ask[c].nodes, Cardinality(all)})
                 /\ PidOfWindow(c) # None
                      /\ (\E o \in ToSet(Apps) : PidOf[o] = PidOfWindow(c)) =>
                      \A o \in ToSet(walk[c].root) : PidOf[o] = PidOfWindow(c)
    BY DEF WholeTree
  <2> DEFINE w == walk[c]
  <2>1. TreeInv(c) /\ Quiet /\ Walking(c) /\ kids = FirstKids
    BY DEF TreesInv, Quiet, Walking
  <2>2. pc[c] = "end"
    BY <2>1 DEF TreeInv
  <2>3. Calm(w, 0, ask[c].nodes, ask[c].depth) /\ OfProcess(PidOfWindow(c), w.root)
        /\ Ended(w, ask[c].nodes)
    BY <2>1, <2>2 DEF TreeInv
  <2>4. Shape(w, ask[c].nodes, ask[c].depth) /\ ask[c].nodes \in Nat /\ ask[c].depth \in Nat
    BY OptionsType DEF WalksInv, WalkInv, TypesInv, TypeOK
  <2> HIDE DEF w
  <2>5. LET n     == w.nodes
            all   == Below(ToSet(w.root), ask[c].depth)
            found == {n[i].obj : i \in 1..Len(n)}
        IN  /\ found \subseteq all /\ Cardinality(found) = Len(n)
            /\ Len(n) = Min({ask[c].nodes, Cardinality(all)})
    BY <2>1, <2>3, <2>4, CalmIsWhole
  <2> QED BY <2>3, <2>5 DEF OfProcess, w
<1>2. Forewarned
  <2> SUFFICES ASSUME NEW c \in Call, access[c] = "done", PidOfWindow(c) # None,
                      Len(walk[c].root) \in 1..MaxPids,
                      \A o \in ToSet(walk[c].root) : PidOf[o] \notin {None, PidOfWindow(c)}
               PROVE  CrossProcess(PidOfWindow(c), pids[c])
    BY DEF Forewarned, Warns
  <2> DEFINE r == walk[c].root
             p == PidOfWindow(c)
  <2>1. r \in Seq(Obj)
    BY DEF WalksInv, WalkInv, Shape, Walks
  <2>2. pids[c] = RootPids(r, MaxPids)
    BY DEF TreesInv, TreeInv, Walking
  <2>3. r[1] \in ToSet(r)
    <3> HIDE DEF r
    <3>1. 1 \in DOMAIN r
      BY <2>1 DEF r
    <3> QED BY <3>1 DEF ToSet
  <2> HIDE DEF r, p
  <2>4. Len(r) \in Nat /\ MaxPids \in Nat /\ Len(r) \in 1..MaxPids
    <3>1. Len(r) \in 1..MaxPids /\ MaxPids \in Nat
      BY AppStateAssumption DEF r
    <3> QED BY <3>1
  <2>5. pids[c] = {PidOf[o] : o \in ToSet(r)} \ {None}
    BY <2>2, <2>4 DEF RootPids
  <2> QED BY <2>3, <2>5 DEF CrossProcess, p, r
<1> QED BY <1>1, <1>2

-----------------------------------------------------------------------------
(* The note is made with the size of some capture that is over by then.    *)
Over == {"crop", "fit"} \cup Later

NoteInv(c) ==
  /\ raw[c] # 0 => pc[c] \in Over
  /\ pc[c] = "fit" /\ ToolOf(c) = "shot" /\ CropsToWindow(c) =>
       \E e \in Call : raw[e] # 0 /\ offNote[c] = OffScreen(win[c].place, raw[e])

NotesInv ==
  /\ \A c \in Call : NoteInv(c)
  /\ (\A c \in Call : raw[c] = 0) \/ \E e \in Call : raw[e] # 0 /\ desktopSize = raw[e]

LEMMA HearPictureKeepsNotes ==
  ASSUME TypesInv, NotesInv, NEW c \in Call, HearPicture(c)
  PROVE  NotesInv'
<1>1. /\ pc \in [Call -> Step] /\ DOMAIN raw = Call /\ DOMAIN picture = Call /\ pc[c] = "wait"
      /\ UNCHANGED <<ask, win, offNote>> /\ pc' = [pc EXCEPT ![c] = "crop"]
      /\ raw' = [raw EXCEPT ![c] = desktopSize']
  BY DEF TypesInv, TypeOK, HearPicture, Goto
<1>2. desktopSize' # 0
  <2>1. PictureNumbers'
    BY HearPictureTypes
  <2>2. heard[c] \in Seq(Response) /\ heard[c] # <<>>
    BY DEF TypesInv, OwnershipInv, CaptureInv, PictureInv, HearPicture
  <2>3. heard[c][1] \in Response
    BY <2>2
  <2>4. heard[c][1].picture.size \in Desktops
    BY <2>3 DEF Response
  <2>5. desktopSize' = heard[c][1].picture.size
    <3>1. picture' = [picture EXCEPT ![c] = heard[c][1].picture]
          /\ desktopSize' = picture'[c].size
      BY DEF HearPicture
    <3> QED BY <1>1, <3>1
  <2> QED BY <2>4, <2>5, AppStateAssumption
<1>3. raw'[c] = desktopSize' /\ \A d \in Call : d # c => raw'[d] = raw[d] /\ pc'[d] = pc[d]
  BY <1>1
<1>4. ASSUME NEW d \in Call PROVE NoteInv(d)'
  <2>1. CASE d = c
    BY <1>1, <2>1 DEF NoteInv, Over
  <2>2. CASE d # c
    <3>1. NoteInv(d) /\ NoteInv(c) /\ ToolOf(d)' = ToolOf(d)
          /\ CropsToWindow(d)' = CropsToWindow(d)
      BY <1>1 DEF NotesInv, ToolOf, CropsToWindow
    <3>2. raw[c] = 0
      BY <1>1, <3>1 DEF NoteInv, Over, Later
    <3>3. \A e \in Call : raw[e] # 0 => raw'[e] = raw[e]
      BY <1>3, <3>2
    <3> QED BY <1>1, <1>3, <2>2, <3>1, <3>3 DEF NoteInv
  <2> QED BY <2>1, <2>2
<1> QED BY <1>2, <1>3, <1>4 DEF NotesInv

LEMMA CropKeepsNotes ==
  ASSUME TypesInv, NotesInv, NEW c \in Call, Crop(c)
  PROVE  NotesInv'
<1>1. /\ pc \in [Call -> Step] /\ DOMAIN offNote = Call /\ pc[c] = "crop"
      /\ UNCHANGED <<ask, win, raw, desktopSize>>
      /\ \E s \in {"fit", "roots", "end"} : pc' = [pc EXCEPT ![c] = s]
      /\ offNote' = offNote \/ \E x : offNote' = [offNote EXCEPT ![c] = x]
  BY DEF TypesInv, TypeOK, Crop, Goto, PictureEnds, AfterPicture
<1>2. ASSUME NEW d \in Call, d # c PROVE NoteInv(d)'
  <2>1. NoteInv(d) /\ ToolOf(d)' = ToolOf(d) /\ CropsToWindow(d)' = CropsToWindow(d)
    BY <1>1 DEF NotesInv, ToolOf, CropsToWindow
  <2>2. pc'[d] = pc[d] /\ offNote'[d] = offNote[d]
    BY <1>1, <1>2
  <2> QED BY <1>1, <2>1, <2>2 DEF NoteInv
<1>3. NoteInv(c)'
  <2>1. pc'[c] \in Over
    BY <1>1 DEF Over, Later
  <2>2. ToolOf(c)' = ToolOf(c) /\ CropsToWindow(c)' = CropsToWindow(c)
    BY <1>1 DEF ToolOf, CropsToWindow
  <2>3. ASSUME pc'[c] = "fit", ToolOf(c) = "shot", CropsToWindow(c)
        PROVE  \E e \in Call : raw[e] # 0 /\ offNote'[c] = OffScreen(win[c].place, raw[e])
    <3>1. offNote' = [offNote EXCEPT ![c] = /\ ToolOf(c) = "shot" /\ CropsToWindow(c)
                                            /\ OffScreen(win[c].place, desktopSize)]
      <4>1. CASE PictureEnds(c, "refused")
        <5>1. pc'[c] # "fit"
          BY <1>1, <4>1 DEF PictureEnds, Goto, AfterPicture
        <5> QED BY <2>3, <5>1
      <4>2. CASE Fits(c)
        BY <4>2 DEF Crop
      <4> QED BY <4>1, <4>2 DEF Crop
    <3>2. raw[c] # 0
      BY <1>1, AppStateAssumption DEF TypesInv, OwnershipInv, CaptureInv, PictureInv
    <3>3. PICK e \in Call : raw[e] # 0 /\ desktopSize = raw[e]
      BY <3>2 DEF NotesInv
    <3>4. OffScreen(win[c].place, desktopSize) \in BOOLEAN
      BY DEF OffScreen
    <3>5. offNote'[c] = OffScreen(win[c].place, desktopSize)
      <4>1. offNote'[c] = (/\ ToolOf(c) = "shot" /\ CropsToWindow(c)
                           /\ OffScreen(win[c].place, desktopSize))
        BY <1>1, <3>1, Zenon
      <4> QED BY <2>3, <3>4, <4>1
    <3> QED BY <3>3, <3>5
  <2> QED BY <1>1, <2>1, <2>2, <2>3 DEF NoteInv
<1> QED BY <1>1, <1>2, <1>3 DEF NotesInv

LEMMA NextNotes == TypesInv /\ NotesInv /\ [Next]_vars => NotesInv'
<1> SUFFICES ASSUME TypesInv, NotesInv, [Next]_vars PROVE NotesInv'
  OBVIOUS
<1>1. pc \in [Call -> Step] /\ DOMAIN win = Call
  BY DEF TypesInv, TypeOK
<1>2. ASSUME UNCHANGED <<ask, raw, desktopSize, offNote>>,
             \A d \in Call : /\ pc[d] \in Over => pc'[d] \in Over
                             /\ pc'[d] = "fit" => pc[d] = "fit" /\ win'[d] = win[d]
      PROVE  NotesInv'
  <2>1. ASSUME NEW d \in Call PROVE NoteInv(d)'
    <3>1. NoteInv(d) /\ ToolOf(d)' = ToolOf(d)
      BY <1>2 DEF NotesInv, ToolOf
    <3>2. raw'[d] # 0 => pc'[d] \in Over
      BY <1>2, <3>1 DEF NoteInv
    <3>3. CASE pc'[d] = "fit"
      <4>1. CropsToWindow(d)' = CropsToWindow(d) /\ win'[d] = win[d] /\ pc[d] = "fit"
        BY <1>2, <3>3 DEF CropsToWindow
      <4> QED BY <1>2, <3>1, <3>2, <4>1 DEF NoteInv
    <3> QED BY <3>2, <3>3 DEF NoteInv
  <2> QED BY <1>2, <2>1 DEF NotesInv
<1>3. ASSUME NEW c \in Call,
             Proceeds(c) \/ Filter(c) \/ TakeHandle(c) \/ PortalFails(c) \/ Answers(c),
             ~HearPicture(c), ~Crop(c)
      PROVE  NotesInv'
  <2>1. UNCHANGED <<ask, raw, desktopSize, offNote>>
    BY <1>3 DEF Proceeds, Filter, TakeHandle, PortalFails, Answers, PortalTimeout, Fit,
         TreeTimeout, LookForState, LookForShot, Subscribe, CallPortal, HearAnother,
         HearRefusal, Roots, Open, ReadChild, Push, WalkEnds, pictureVars, PictureEnds
  <2>2. ASSUME NEW d \in Call PROVE pc'[d] = "fit" => pc[d] = "fit"
    <3>1. pc' = pc \/ \E s \in Step \ {"fit"} : pc' = [pc EXCEPT ![c] = s]
      BY <1>3 DEF Proceeds, Filter, TakeHandle, PortalFails, Answers, PortalTimeout, Fit,
         TreeTimeout, LookForState, LookForShot, Subscribe, CallPortal, HearAnother,
         HearRefusal, Roots, Open, ReadChild, Push, WalkEnds, Goto, PictureEnds, AfterPicture,
         Step
    <3> QED BY <1>1, <3>1
  <2>3. ASSUME NEW d \in Call, pc[d] \in Over PROVE pc'[d] \in Over
    <3>1. \/ pc' = pc
          \/ pc[c] \notin Over /\ \E s \in Step : pc' = [pc EXCEPT ![c] = s]
          \/ \E s \in Later : pc' = [pc EXCEPT ![c] = s]
      BY <1>3 DEF Proceeds, Filter, TakeHandle, PortalFails, Answers, PortalTimeout, Fit,
         TreeTimeout, LookForState, LookForShot, Subscribe, CallPortal, HearAnother,
         HearRefusal, Roots, Open, ReadChild, Push, WalkEnds, Goto, PictureEnds, AfterPicture,
         Step, Over, Later
    <3> QED BY <1>1, <2>3, <3>1 DEF Over, Later
  <2>4. ASSUME NEW d \in Call, pc[d] = "fit" PROVE win'[d] = win[d]
    <3>1. win' = win \/ (pc[c] = "look" /\ \E x : win' = [win EXCEPT ![c] = x])
      BY <1>3 DEF Proceeds, Filter, TakeHandle, PortalFails, Answers, PortalTimeout, Fit,
         TreeTimeout, LookForState, LookForShot, Subscribe, CallPortal, HearAnother,
         HearRefusal, Roots, Open, ReadChild, Push, WalkEnds, PictureEnds
    <3> QED BY <1>1, <2>4, <3>1
  <2> QED BY <1>2, <2>1, <2>2, <2>3, <2>4
<1>4. CASE Event \/ UNCHANGED vars
  <2>1. UNCHANGED <<ask, raw, desktopSize, offNote, pc, win>>
    BY <1>4 DEF Event, vars, pictureVars
  <2> QED BY <1>2, <2>1
<1> QED BY <1>3, <1>4, HearPictureKeepsNotes, CropKeepsNotes DEF Next

LEMMA InitNotes == Init => NotesInv
<1> SUFFICES ASSUME Init PROVE NotesInv
  OBVIOUS
<1>1. \A c \in Call : raw[c] = 0 /\ pc[c] \in {"end", "look"}
  BY DEF Init
<1> QED BY <1>1 DEF NotesInv, NoteInv

(* A part of a window is not on a desktop, when what is there of it is     *)
(* less.                                                                   *)
LEMMA OffScreenIsLess ==
  ASSUME NEW a \in Nat, NEW b \in Nat, a > 0, a <= b
  PROVE  (a * 100) \div b < 100 <=> a < b
<1>1. (a * 100) \in Nat /\ b \in Nat \ {0}
  OBVIOUS
<1>2. CASE a = b
  <2>1. (b * 100) \div b = 100
    <3>1. b * 100 = 100 * b
      OBVIOUS
    <3> QED BY <1>1, <3>1
  <2> QED BY <1>2, <2>1
<1>3. CASE a < b
  <2>1. (a * 100) \div b < 100
    BY <1>1, <1>3
  <2> QED BY <1>3, <2>1
<1> QED BY <1>2, <1>3

LEMMA NotesSuffice == TypesInv /\ NotesInv => NoteAgrees
<1> SUFFICES ASSUME TypesInv, NotesInv, NEW c \in Call, ToolOf(c) = "shot", CropsToWindow(c),
                    ask[c].region = None, pc[c] = "fit", \A d \in Call : raw[d] \in {0, raw[c]}
             PROVE  offNote[c] <=> picture[c].size < win[c].place.size
  BY DEF NoteAgrees
<1> DEFINE p == win[c].place
           f == Frame(c)
<1>1. PICK e \in Call : raw[e] # 0 /\ offNote[c] = OffScreen(p, raw[e])
  BY DEF NotesInv, NoteInv
<1>2. Clip(p, raw[e]) = f
  BY <1>1 DEF Frame
<1>3. /\ picture[c].size = f.size /\ picture[c].size \in Int /\ picture[c].size > 0
      /\ f \in Rectangles /\ f.at >= p.at /\ f.at + f.size <= p.at + p.size
  BY DEF TypesInv, OwnershipInv, CaptureInv, PictureInv, Agrees
<1>4. p \in [at : Int, size : Nat]
  BY PlaceType DEF TypesInv, OwnershipInv, CaptureInv, PictureInv, CropsToWindow
<1> HIDE DEF p, f
<1>5. f.size \in Nat /\ p.size \in Nat /\ f.size > 0 /\ f.size <= p.size /\ p.size > 0
  <2>1. f.at \in Int /\ f.size \in Int /\ p.at \in Int /\ p.size \in Nat
    BY <1>3, <1>4 DEF Rectangles
  <2> QED BY <1>3, <2>1
<1>6. (f.size * 100) \div p.size < 100 <=> f.size < p.size
  BY <1>5, OffScreenIsLess
<1>7. offNote[c] = (p.size > 0 /\ (f.size * 100) \div p.size < 100)
  BY <1>1, <1>2 DEF OffScreen
<1> QED BY <1>3, <1>5, <1>6, <1>7 DEF p

-----------------------------------------------------------------------------
(* Nodes that are below earlier ones, and functions on them that are what  *)
(* they are of the parent.                                                 *)
Treelike(n) ==
  \A i \in 1..Len(n) :
    /\ n[i].parent \in 0..(i - 1)
    /\ n[i].depth = IF n[i].parent = 0 THEN 0 ELSE n[n[i].parent].depth + 1

Ups(up, n, m) ==
  up = [i \in 0..m |->
         IF i = 0 \/ n[i].parent = 0 THEN 0
         ELSE IF ShouldKeep(n[n[i].parent]) THEN n[i].parent
         ELSE up[n[i].parent]]

Aboves(above, n, m) ==
  above = [i \in 0..m |-> IF i = 0 \/ n[i].parent = 0 THEN {}
                          ELSE {n[i].parent} \cup above[n[i].parent]]

LEMMA UpsExist ==
  ASSUME NEW n \in Seq(Node), Treelike(n)
  PROVE  \E up : Ups(up, n, Len(n))
<1> DEFINE S == {m \in Nat : m <= Len(n) => \E up : Ups(up, n, m)}
<1>1. 0 \in S
  <2> DEFINE up == [i \in 0..0 |-> 0]
  <2>1. up = [i \in 0..0 |->
               IF i = 0 \/ n[i].parent = 0 THEN 0
               ELSE IF ShouldKeep(n[n[i].parent]) THEN n[i].parent
               ELSE up[n[i].parent]]
    OBVIOUS
  <2>2. Ups(up, n, 0)
    BY <2>1 DEF Ups
  <2> QED BY <2>2
<1>2. ASSUME NEW m \in Nat, m \in S PROVE m + 1 \in S
  <2> SUFFICES ASSUME m + 1 <= Len(n) PROVE \E up : Ups(up, n, m + 1)
    OBVIOUS
  <2>1. PICK up : Ups(up, n, m)
    BY <1>2
  <2> DEFINE F(g, i) == IF i = 0 \/ n[i].parent = 0 THEN 0
                        ELSE IF ShouldKeep(n[n[i].parent]) THEN n[i].parent
                        ELSE g[n[i].parent]
             more == [i \in 0..(m + 1) |-> F(up, i)]
  <2>2. up = [i \in 0..m |-> F(up, i)]
    BY <2>1 DEF Ups
  <2>3. \A i \in 0..(m + 1) : i # 0 => n[i].parent \in 0..m
    <3> SUFFICES ASSUME NEW i \in 0..(m + 1), i # 0 PROVE n[i].parent \in 0..m
      OBVIOUS
    <3>1. i \in 1..Len(n)
      OBVIOUS
    <3>2. n[i].parent \in 0..(i - 1)
      BY <3>1 DEF Treelike
    <3> QED BY <3>2
  <2>4. \A i \in 0..m : i \in 0..(m + 1)
    OBVIOUS
  <2> HIDE DEF F
  <2>5. \A i \in 0..m : more[i] = up[i]
    BY <2>2, <2>4
  <2> HIDE DEF more
  <2>6. \A i \in 0..(m + 1) : F(up, i) = F(more, i)
    BY <2>3, <2>5 DEF F
  <2>7. more = [i \in 0..(m + 1) |-> F(more, i)]
    <3>1. more = [i \in 0..(m + 1) |-> F(up, i)]
      BY DEF more
    <3> DEFINE G(i) == F(up, i)
               H(i) == F(more, i)
    <3>2. \A i \in 0..(m + 1) : G(i) = H(i)
      BY <2>6
    <3>3. more = [i \in 0..(m + 1) |-> G(i)]
      BY <3>1
    <3> HIDE DEF G, H
    <3>4. more = [i \in 0..(m + 1) |-> H(i)]
      BY <3>2, <3>3
    <3> QED BY <3>4 DEF H
  <2>8. Ups(more, n, m + 1)
    BY <2>7 DEF Ups, F
  <2> QED BY <2>8
<1>3. Len(n) \in Nat
  OBVIOUS
<1> HIDE DEF S
<1>4. Len(n) \in S
  BY <1>1, <1>2, <1>3, Induction
<1> QED BY <1>3, <1>4 DEF S

LEMMA AbovesExist ==
  ASSUME NEW n \in Seq(Node), Treelike(n)
  PROVE  \E above : Aboves(above, n, Len(n))
<1> DEFINE S == {m \in Nat : m <= Len(n) => \E above : Aboves(above, n, m)}
<1>1. 0 \in S
  <2> DEFINE above == [i \in 0..0 |-> {}]
  <2>1. above = [i \in 0..0 |-> IF i = 0 \/ n[i].parent = 0 THEN {}
                                ELSE {n[i].parent} \cup above[n[i].parent]]
    OBVIOUS
  <2>2. Aboves(above, n, 0)
    BY <2>1 DEF Aboves
  <2> QED BY <2>2
<1>2. ASSUME NEW m \in Nat, m \in S PROVE m + 1 \in S
  <2> SUFFICES ASSUME m + 1 <= Len(n) PROVE \E above : Aboves(above, n, m + 1)
    OBVIOUS
  <2>1. PICK above : Aboves(above, n, m)
    BY <1>2
  <2> DEFINE F(g, i) == IF i = 0 \/ n[i].parent = 0 THEN {}
                        ELSE {n[i].parent} \cup g[n[i].parent]
             more == [i \in 0..(m + 1) |-> F(above, i)]
  <2>2. above = [i \in 0..m |-> F(above, i)]
    BY <2>1 DEF Aboves
  <2>3. \A i \in 0..(m + 1) : i # 0 => n[i].parent \in 0..m
    <3> SUFFICES ASSUME NEW i \in 0..(m + 1), i # 0 PROVE n[i].parent \in 0..m
      OBVIOUS
    <3>1. i \in 1..Len(n)
      OBVIOUS
    <3>2. n[i].parent \in 0..(i - 1)
      BY <3>1 DEF Treelike
    <3> QED BY <3>2
  <2>4. \A i \in 0..m : i \in 0..(m + 1)
    OBVIOUS
  <2> HIDE DEF F
  <2>5. \A i \in 0..m : more[i] = above[i]
    BY <2>2, <2>4
  <2> HIDE DEF more
  <2>6. \A i \in 0..(m + 1) : F(above, i) = F(more, i)
    BY <2>3, <2>5 DEF F
  <2>7. more = [i \in 0..(m + 1) |-> F(more, i)]
    <3>1. more = [i \in 0..(m + 1) |-> F(above, i)]
      BY DEF more
    <3> DEFINE G(i) == F(above, i)
               H(i) == F(more, i)
    <3>2. \A i \in 0..(m + 1) : G(i) = H(i)
      BY <2>6
    <3>3. more = [i \in 0..(m + 1) |-> G(i)]
      BY <3>1
    <3> HIDE DEF G, H
    <3>4. more = [i \in 0..(m + 1) |-> H(i)]
      BY <3>2, <3>3
    <3> QED BY <3>4 DEF H
  <2>8. Aboves(more, n, m + 1)
    BY <2>7 DEF Aboves, F
  <2> QED BY <2>8
<1>3. Len(n) \in Nat
  OBVIOUS
<1> HIDE DEF S
<1>4. Len(n) \in S
  BY <1>1, <1>2, <1>3, Induction
<1> QED BY <1>3, <1>4 DEF S

-----------------------------------------------------------------------------
(* The compacted tree.                                                     *)
Kept(n) == {i \in 1..Len(n) : ShouldKeep(n[i])}

(* The nearest kept ancestor is the last of the ancestors that are kept,   *)
(* and there is one for every node but the first level's.                  *)
LEMMA NearestIsLast ==
  ASSUME NEW n \in Seq(Node), Treelike(n), NEW up, NEW above,
         Ups(up, n, Len(n)), Aboves(above, n, Len(n)), NEW i \in 1..Len(n)
  PROVE  /\ above[i] \subseteq 1..(i - 1)
         /\ n[i].parent = 0 => up[i] = 0
         /\ n[i].parent # 0 => /\ up[i] \in above[i] \cap Kept(n)
                               /\ \A k \in above[i] \cap Kept(n) : k <= up[i]
<1> DEFINE Fine(j) == /\ above[j] \subseteq 1..(j - 1)
                      /\ n[j].parent = 0 => up[j] = 0
                      /\ n[j].parent # 0 => /\ up[j] \in above[j] \cap Kept(n)
                                            /\ \A k \in above[j] \cap Kept(n) : k <= up[j]
           T == {j \in 1..Len(n) : ~Fine(j)}
<1>1. Len(n) \in Nat
  OBVIOUS
<1>2. SUFFICES ASSUME T # {} PROVE FALSE
  OBVIOUS
<1>3. T \in SUBSET Nat
  OBVIOUS
<1>4. PICK j \in T : \A k \in T : j <= k
  BY <1>2, <1>3, Least
<1>5. j \in 1..Len(n) /\ ~Fine(j)
  BY <1>4
<1> DEFINE p == n[j].parent
<1>6. p \in 0..(j - 1) /\ j # 0 /\ j \in 0..Len(n)
  BY <1>1, <1>5 DEF Treelike
<1>7. /\ up[j] = IF p = 0 THEN 0 ELSE IF ShouldKeep(n[p]) THEN p ELSE up[p]
      /\ above[j] = IF p = 0 THEN {} ELSE {p} \cup above[p]
  BY <1>6 DEF Ups, Aboves
<1>8. CASE p = 0
  BY <1>5, <1>7, <1>8
<1>9. CASE p # 0
  <2>1. p \in 1..Len(n) /\ p < j /\ p \in Nat /\ j \in Nat
    BY <1>1, <1>5, <1>6, <1>9
  <2>2. p \notin T
    <3>1. ~(j <= p)
      BY <2>1
    <3> HIDE DEF T, p
    <3> QED BY <1>4, <3>1
  <2>3. Fine(p)
    BY <2>1, <2>2
  <2>4. above[j] = {p} \cup above[p]
    BY <1>7, <1>9
  <2>5. above[p] \subseteq 1..(p - 1)
    BY <2>3
  <2>6. above[j] \subseteq 1..(j - 1) /\ \A k \in above[p] : k \in Nat /\ k <= p
    <3>1. \A k \in above[p] : k \in 1..(p - 1)
      BY <2>5
    <3>2. \A k \in 1..(p - 1) : k \in 1..(j - 1) /\ k \in Nat /\ k <= p
      BY <2>1
    <3>3. p \in 1..(j - 1)
      BY <2>1
    <3> HIDE DEF p
    <3> QED BY <2>4, <3>1, <3>2, <3>3
  <2>7. CASE ShouldKeep(n[p])
    <3>1. p \in Kept(n)
      BY <2>1, <2>7 DEF Kept
    <3>2. up[j] = p
      BY <1>7, <1>9, <2>7
    <3>3. up[j] \in above[j] \cap Kept(n)
      BY <2>4, <3>1, <3>2
    <3>4. \A k \in above[j] : k <= p
      BY <2>1, <2>4, <2>6
    <3> QED BY <1>5, <1>9, <2>6, <3>2, <3>3, <3>4
  <2>8. CASE ~ShouldKeep(n[p])
    <3>1. p \notin Kept(n) /\ up[j] = up[p]
      BY <1>7, <1>9, <2>8 DEF Kept
    <3>2. n[p].parent # 0
      <4>1. n[p].depth # 0
        BY <2>8 DEF ShouldKeep
      <4> QED BY <2>1, <4>1 DEF Treelike
    <3>3. above[j] \cap Kept(n) = above[p] \cap Kept(n)
      BY <2>4, <3>1
    <3>4. /\ up[p] \in above[p] \cap Kept(n)
          /\ \A k \in above[p] \cap Kept(n) : k <= up[p]
      BY <2>3, <3>2
    <3> QED BY <1>5, <1>9, <2>6, <3>1, <3>3, <3>4
  <2> QED BY <2>7, <2>8
<1> QED BY <1>8, <1>9

(* The compacted tree, by the positions of what is kept.                   *)
LEMMA CompactIs ==
  ASSUME NEW n \in Seq(Node), Treelike(n)
  PROVE  \E up : /\ Ups(up, n, Len(n))
                 /\ LET K == Kept(n)
                        t == Compact(n)
                        order == InOrder(K)
                    IN  /\ K \in SUBSET Int /\ IsFiniteSet(K) /\ Cardinality(K) \in Nat
                        /\ DOMAIN order = 1..Cardinality(K) /\ Len(t) = Cardinality(K)
                        /\ \A j \in 1..Cardinality(K) :
                             /\ t[j].obj = n[order[j]].obj /\ t[j].depth = n[order[j]].depth
                             /\ t[j].parent = Rank(K, up[order[j]])
                             /\ t[j].count = Cardinality({k \in 1..Cardinality(K) :
                                                            up[order[k]] = order[j]})
<1> DEFINE up == CHOOSE up : Ups(up, n, Len(n))
           K == Kept(n)
           order == InOrder(K)
           m == Cardinality(K)
           t == Compact(n)
<1>1. Ups(up, n, Len(n))
  BY UpsExist
<1>2. NearestKeptParent(n) = up
  BY DEF NearestKeptParent, Ups
<1>3. K \in SUBSET Int /\ IsFiniteSet(K)
  <2>1. Len(n) \in Nat /\ IsFiniteSet(1..Len(n)) /\ K \in SUBSET (1..Len(n))
    BY FS_Interval DEF Kept
  <2>2. 1..Len(n) \subseteq Int
    OBVIOUS
  <2> HIDE DEF K
  <2> QED BY <2>1, <2>2, FS_Subset
<1>4. m \in Nat /\ DOMAIN order = 1..m
  BY <1>3, InOrderIsInverse
<1>5. t = [j \in 1..m |->
            [obj    |-> n[order[j]].obj,
             depth  |-> n[order[j]].depth,
             parent |-> Rank(K, up[order[j]]),
             count  |-> Cardinality({k \in 1..m : up[order[k]] = order[j]})]]
  <2>1. Compact(n) = [j \in DOMAIN order |->
            [obj    |-> n[order[j]].obj,
             depth  |-> n[order[j]].depth,
             parent |-> Rank(K, up[order[j]]),
             count  |-> Cardinality({k \in DOMAIN order : up[order[k]] = order[j]})]]
    <3> HIDE DEF up
    <3> QED BY <1>2 DEF Compact, Kept
  <2> HIDE DEF order, up, K, m, t
  <2> QED BY <1>4, <2>1 DEF t
<1> HIDE DEF order, up, K, m, t
<1>6. Len(t) = m
  <2> DEFINE R(j) == [obj |-> n[order[j]].obj, depth |-> n[order[j]].depth,
                      parent |-> Rank(K, up[order[j]]),
                      count |-> Cardinality({k \in 1..m : up[order[k]] = order[j]})]
             X == {R(j) : j \in 1..m}
  <2>1. t = [j \in 1..m |-> R(j)]
    BY <1>5
  <2>2. \A j \in 1..m : R(j) \in X
    OBVIOUS
  <2> HIDE DEF R, X
  <2>3. t \in [1..m -> X]
    BY <2>1, <2>2
  <2> QED BY <1>4, <2>3
<1>7. \A j \in 1..m : /\ t[j].obj = n[order[j]].obj /\ t[j].depth = n[order[j]].depth
                      /\ t[j].parent = Rank(K, up[order[j]])
                      /\ t[j].count = Cardinality({k \in 1..m : up[order[k]] = order[j]})
  BY <1>5
<1> DEFINE P(u) ==
             /\ Ups(u, n, Len(n))
             /\ K \in SUBSET Int /\ IsFiniteSet(K) /\ m \in Nat
             /\ DOMAIN order = 1..m /\ Len(t) = m
             /\ \A j \in 1..m : /\ t[j].obj = n[order[j]].obj /\ t[j].depth = n[order[j]].depth
                                /\ t[j].parent = Rank(K, u[order[j]])
                                /\ t[j].count = Cardinality({k \in 1..m : u[order[k]] = order[j]})
<1>8. P(up)
  BY <1>1, <1>3, <1>4, <1>6, <1>7
<1> HIDE DEF P
<1>9. \E u : P(u)
  BY <1>8
<1> QED BY <1>9 DEF P, order, K, m, t

LEMMA TreeIsLinked ==
  ASSUME NEW n \in Seq(Node), Treelike(n)
  PROVE  LET t == Compact(n)
             above[i \in 0..Len(n)] == IF i = 0 \/ n[i].parent = 0 THEN {}
                                       ELSE {n[i].parent} \cup above[n[i].parent]
             kept  == {i \in 1..Len(n) : ShouldKeep(n[i])}
             New(i) == Cardinality(kept \cap (1..i))
         IN  /\ Len(t) = Cardinality(kept)
             /\ \A i \in kept :
                  /\ t[New(i)].obj = n[i].obj
                  /\ n[i].depth > 0 => /\ above[i] \cap kept # {}
                                       /\ t[New(i)].parent = New(Max(above[i] \cap kept))
             /\ \A j \in 1..Len(t) :
                  /\ t[j].parent = 0 <=> t[j].depth = 0
                  /\ t[j].count = Cardinality({k \in 1..Len(t) : t[k].parent = j})
<1> DEFINE above == CHOOSE above : Aboves(above, n, Len(n))
           K == Kept(n)
           order == InOrder(K)
           m == Cardinality(K)
           t == Compact(n)
           New(i) == Cardinality(K \cap (1..i))
<1>1. Aboves(above, n, Len(n))
  BY AbovesExist
<1>2. PICK up :
        /\ Ups(up, n, Len(n))
        /\ K \in SUBSET Int /\ IsFiniteSet(K) /\ m \in Nat
        /\ DOMAIN order = 1..m /\ Len(t) = m
        /\ \A j \in 1..m : /\ t[j].obj = n[order[j]].obj /\ t[j].depth = n[order[j]].depth
                           /\ t[j].parent = Rank(K, up[order[j]])
                           /\ t[j].count = Cardinality({k \in 1..m : up[order[k]] = order[j]})
  <2> HIDE DEF above
  <2> QED BY CompactIs
<1>3. /\ \A j \in 1..m : order[j] \in K /\ Rank(K, order[j]) = j
      /\ \A i \in K : Rank(K, i) \in 1..m /\ order[Rank(K, i)] = i
  <2> HIDE DEF K, above
  <2> QED BY <1>2, InOrderIsInverse
<1>4. Len(n) \in Nat /\ \A i \in K : i \in 1..Len(n) /\ i \in Nat
  BY DEF Kept
<1>5. \A i \in 1..Len(n) :
        /\ above[i] \subseteq 1..(i - 1)
        /\ n[i].parent = 0 => up[i] = 0
        /\ n[i].parent # 0 => /\ up[i] \in above[i] \cap K
                              /\ \A k \in above[i] \cap K : k <= up[i]
  <2> HIDE DEF above
  <2> QED BY <1>1, <1>2, NearestIsLast
<1>6. \A i \in 1..Len(n) : (n[i].depth = 0 <=> n[i].parent = 0) /\ n[i].depth \in Nat
  <2> SUFFICES ASSUME NEW i \in 1..Len(n)
               PROVE  (n[i].depth = 0 <=> n[i].parent = 0) /\ n[i].depth \in Nat
    OBVIOUS
  <2>1. n[i].depth \in Nat
    <3>1. n[i] \in Node
      OBVIOUS
    <3> QED BY <3>1 DEF Node
  <2>2. CASE n[i].parent = 0
    BY <2>1, <2>2 DEF Treelike
  <2>3. CASE n[i].parent # 0
    <3> DEFINE p == n[i].parent
    <3>1. p \in 0..(i - 1) /\ n[i].depth = n[p].depth + 1
      BY <2>3 DEF Treelike
    <3>2. p \in 1..Len(n)
      BY <1>4, <2>3, <3>1
    <3> HIDE DEF p
    <3>3. n[p] \in Node
      BY <3>2
    <3>4. n[p].depth \in Nat
      BY <3>3 DEF Node
    <3>5. n[i].depth # 0
      BY <3>1, <3>4
    <3> QED BY <2>1, <2>3, <3>5
  <2> QED BY <2>2, <2>3
<1> HIDE DEF above, K, order, m, t
<1>7. \A i \in Nat : Rank(K, i) = New(i)
  <2> SUFFICES ASSUME NEW i \in Nat PROVE {k \in K : k <= i} = K \cap (1..i)
    BY DEF Rank
  <2> QED BY <1>4
<1>8. Rank(K, 0) = 0
  <2>1. {k \in K : k <= 0} = {}
    BY <1>4
  <2> QED BY <2>1, FS_EmptySet DEF Rank
<1> HIDE DEF New
<1>9. ASSUME NEW i \in K
      PROVE  /\ t[New(i)].obj = n[i].obj
             /\ n[i].depth > 0 => /\ above[i] \cap K # {}
                                  /\ t[New(i)].parent = New(Max(above[i] \cap K))
  <2> DEFINE j == New(i)
  <2>1. i \in 1..Len(n) /\ j \in 1..m /\ order[j] = i
    BY <1>3, <1>4, <1>7
  <2>2. t[j].obj = n[i].obj /\ t[j].parent = Rank(K, up[i])
    BY <1>2, <2>1
  <2>3. ASSUME n[i].depth > 0
        PROVE  above[i] \cap K # {} /\ t[j].parent = New(Max(above[i] \cap K))
    <3> DEFINE B == above[i] \cap K
    <3>1. n[i].parent # 0
      BY <1>6, <2>1, <2>3
    <3>2. up[i] \in B /\ \A k \in B : k <= up[i]
      BY <1>5, <2>1, <3>1
    <3>3. B \in SUBSET (0..Len(n))
      BY <1>4
    <3> HIDE DEF B
    <3>4. Max(B) \in B /\ \A k \in B : k <= Max(B)
      BY <1>4, <3>2, <3>3, MaxIsGreatest
    <3>5. Max(B) = up[i] /\ up[i] \in Nat
      <4>0. \A x \in B : x \in Nat
        <5>1. \A x : x \in B => x \in 0..Len(n)
          BY ONLY <3>3
        <5>2. Len(n) \in Nat
          BY <1>4
        <5>3. \A x \in 0..Len(n) : x \in Nat
          BY ONLY <5>2
        <5> QED BY ONLY <5>1, <5>3
      <4>1. Max(B) \in Nat /\ up[i] \in Nat
        BY ONLY <3>2, <3>4, <4>0
      <4>2. Max(B) <= up[i] /\ up[i] <= Max(B)
        BY <3>2, <3>4
      <4> QED BY <4>1, <4>2
    <3>6. t[j].parent = New(Max(B))
      BY <1>7, <2>2, <3>5
    <3> QED BY <3>2, <3>6 DEF B
  <2> QED BY <2>2, <2>3
<1>10. ASSUME NEW j \in 1..m
       PROVE  /\ t[j].parent = 0 <=> t[j].depth = 0
              /\ t[j].count = Cardinality({k \in 1..m : t[k].parent = j})
  <2>1. \A k \in 1..m : order[k] \in K /\ order[k] \in 1..Len(n)
                        /\ t[k].parent = Rank(K, up[order[k]])
                        /\ (up[order[k]] = 0 \/ up[order[k]] \in K)
    BY <1>2, <1>3, <1>4, <1>5
  <2>2. t[j].parent = 0 <=> t[j].depth = 0
    <3> DEFINE i == order[j]
    <3>1. i \in K /\ i \in 1..Len(n) /\ t[j].parent = Rank(K, up[i]) /\ t[j].depth = n[i].depth
      BY <1>2, <2>1
    <3> HIDE DEF i
    <3>2. CASE n[i].parent = 0
      BY <1>5, <1>6, <1>8, <3>1, <3>2
    <3>3. CASE n[i].parent # 0
      <4>1. up[i] \in K
        BY <1>5, <3>1, <3>3
      <4>2. Rank(K, up[i]) \in 1..m
        BY <1>3, <4>1
      <4>3. t[j].parent # 0
        BY <3>1, <4>2
      <4> QED BY <1>6, <3>1, <3>3, <4>3
    <3> QED BY <3>2, <3>3
  <2>3. \A k \in 1..m : up[order[k]] = order[j] <=> t[k].parent = j
    <3> SUFFICES ASSUME NEW k \in 1..m PROVE up[order[k]] = order[j] <=> t[k].parent = j
      OBVIOUS
    <3> DEFINE u == up[order[k]]
    <3>1. t[k].parent = Rank(K, u) /\ (u = 0 \/ u \in K)
      BY <2>1
    <3> HIDE DEF u
    <3>2. u = order[j] => Rank(K, u) = j
      BY <1>3
    <3>3. ASSUME Rank(K, u) = j PROVE u = order[j]
      <4>1. u # 0
        BY <1>8, <3>3
      <4> QED BY <1>3, <3>1, <3>3, <4>1
    <3> QED BY <3>1, <3>2, <3>3 DEF u
  <2>4. {k \in 1..m : up[order[k]] = order[j]} = {k \in 1..m : t[k].parent = j}
    BY <2>3
  <2> QED BY <1>2, <2>2, <2>4
<1>11. /\ Len(t) = Cardinality(K)
       /\ \A i \in K :
             /\ t[New(i)].obj = n[i].obj
             /\ n[i].depth > 0 => /\ above[i] \cap K # {}
                                  /\ t[New(i)].parent = New(Max(above[i] \cap K))
       /\ \A j \in 1..Len(t) :
             /\ t[j].parent = 0 <=> t[j].depth = 0
             /\ t[j].count = Cardinality({k \in 1..Len(t) : t[k].parent = j})
  BY <1>2, <1>9, <1>10 DEF m
<1> QED BY <1>11 DEF Kept, Aboves, above, K, New, t

LEMMA LinksSuffice == TypesInv /\ WalksInv => CompactLinks
<1> SUFFICES ASSUME TypesInv, WalksInv, NEW c \in Call PROVE
      LET n == walk[c].nodes  t == Tree(c)
          above[i \in 0..Len(n)] == IF i = 0 \/ n[i].parent = 0 THEN {}
                                    ELSE {n[i].parent} \cup above[n[i].parent]
          kept  == {i \in 1..Len(n) : ShouldKeep(n[i])}
          New(i) == Cardinality(kept \cap (1..i))
      IN  /\ Len(t) = Cardinality(kept)
          /\ \A i \in kept :
               /\ t[New(i)].obj = n[i].obj
               /\ n[i].depth > 0 => /\ above[i] \cap kept # {}
                                    /\ t[New(i)].parent = New(Max(above[i] \cap kept))
          /\ \A j \in 1..Len(t) :
               /\ t[j].parent = 0 <=> t[j].depth = 0
               /\ t[j].count = Cardinality({k \in 1..Len(t) : t[k].parent = j})
  BY DEF CompactLinks
<1> DEFINE n == walk[c].nodes
<1>1. Shape(walk[c], ask[c].nodes, ask[c].depth)
  BY DEF WalksInv, WalkInv
<1>2. n \in Seq(Node)
  BY <1>1 DEF Shape, Walks
<1>3. Treelike(n)
  <2> SUFFICES ASSUME NEW i \in 1..Len(n)
               PROVE  /\ n[i].parent \in 0..(i - 1)
                      /\ n[i].depth = IF n[i].parent = 0 THEN 0 ELSE n[n[i].parent].depth + 1
    BY DEF Treelike
  <2>1. Hangs(n[i], n, ask[c].depth) /\ n[i].parent < i
    BY <1>1 DEF Shape
  <2>2. i \in Nat
    BY <1>2
  <2> HIDE DEF n
  <2> QED BY <1>2, <2>1, <2>2 DEF Hangs
<1> HIDE DEF n
<1> QED BY <1>2, <1>3, TreeIsLinked DEF Tree, n

-----------------------------------------------------------------------------
(* The inductive invariant: what is stored is of its kind and every        *)
(* picture is its own request's; the walks are trees; the walks that       *)
(* nothing disturbed have left nothing out; the notes say what was cut.    *)
ConsistentInv == TypesInv /\ WalksInv /\ TreesInv /\ NotesInv

LEMMA NextConsistent == ConsistentInv /\ [Next]_vars => ConsistentInv'
<1> SUFFICES ASSUME ConsistentInv, [Next]_vars PROVE ConsistentInv'
  OBVIOUS
<1>1. TypesInv /\ WalksInv /\ TreesInv /\ NotesInv /\ TypeOK
  BY DEF ConsistentInv, TypesInv
<1>2. TypesInv' /\ TreesInv' /\ NotesInv'
  BY <1>1, NextTypes, NextTree, NextNotes
<1>3. WalksInv'
  BY <1>1, NextWalk
<1> QED BY <1>2, <1>3 DEF ConsistentInv

LEMMA ConsistentSuffices == ConsistentInv => Consistent
<1> SUFFICES ASSUME ConsistentInv PROVE TypeOK /\ IInv
  BY DEF Consistent
<1>1. TypesInv /\ WalksInv /\ TreesInv /\ NotesInv
  BY DEF ConsistentInv
<1>2. OwnershipInv /\ TypeOK
  BY <1>1 DEF TypesInv
<1>3. OwnAnswer
  BY <1>2 DEF OwnershipInv, OwnInv, OwnAnswer, Holding
<1>4. FitsPayload /\ TreeShaped /\ CompactLinks
  BY <1>1, SizesSuffice, ShapeSuffices, LinksSuffice
<1>5. WholeTree /\ Forewarned
  BY <1>1, TreesSuffice
<1>6. NoteAgrees
  BY <1>1, NotesSuffice
<1> QED BY <1>2, <1>3, <1>4, <1>5, <1>6 DEF IInv

(* Whatever two calls do at once and whatever moves, comes, goes or fails  *)
(* meanwhile: a picture is its own request's, has no more bytes than asked *)
(* for and is not larger than what it shows; a tree has no more nodes and  *)
(* levels than asked for, each below one that was read before it, and      *)
(* whole if nothing disturbed the walk and nothing was left out; its       *)
(* compacted form links each node to the last one kept above it; whoever   *)
(* is shown a tree of another process is told; and the note of what was    *)
(* cut agrees with the picture (screenshot.rs:148-292, atspi_tree.rs,      *)
(* server.rs:2604-2653).                                                   *)
THEOREM Consistency == Spec => []Consistent
<1>1. Init => ConsistentInv
  BY InitTypes, InitWalk, InitTree, InitNotes DEF ConsistentInv
<1> QED BY <1>1, NextConsistent, ConsistentSuffices, PTL DEF Spec
=============================================================================
