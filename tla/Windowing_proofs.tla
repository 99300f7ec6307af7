-------------------------- MODULE Windowing_proofs ---------------------------
(***************************************************************************)
(* Proofs about Windowing, for any calls, windows, layout and bounds.      *)
(***************************************************************************)
EXTENDS Windowing, FiniteSetTheorems, NaturalsInduction, WellFoundedInduction, TLAPS

-----------------------------------------------------------------------------
(* The operators on sets of numbers.                                       *)
LEMMA MaxOfTwo ==
  \A a, b \in Int : Max({a, b}) = IF a >= b THEN a ELSE b
<1> SUFFICES ASSUME NEW a \in Int, NEW b \in Int
             PROVE  Max({a, b}) = IF a >= b THEN a ELSE b
  OBVIOUS
<1> DEFINE m == IF a >= b THEN a ELSE b
<1>1. m \in {a, b} /\ \A y \in {a, b} : m >= y
  OBVIOUS
<1>2. \A x \in {a, b} : (\A y \in {a, b} : x >= y) => x = m
  OBVIOUS
<1> QED BY <1>1, <1>2 DEF Max

LEMMA MinOfTwo ==
  \A a, b \in Int : Min({a, b}) = IF a <= b THEN a ELSE b
<1> SUFFICES ASSUME NEW a \in Int, NEW b \in Int
             PROVE  Min({a, b}) = IF a <= b THEN a ELSE b
  OBVIOUS
<1> DEFINE m == IF a <= b THEN a ELSE b
<1>1. m \in {a, b} /\ \A y \in {a, b} : m <= y
  OBVIOUS
<1>2. \A x \in {a, b} : (\A y \in {a, b} : x <= y) => x = m
  OBVIOUS
<1> QED BY <1>1, <1>2 DEF Min

(* The least of a set of ids is one of them.                               *)
Below == {ij \in Nat \X Nat : ij[1] < ij[2]}

(* There is a least one, since < on the naturals is well founded.          *)
LEMMA LeastIsIn ==
  ASSUME NEW T \in SUBSET Nat, T # {}
  PROVE  Min(T) \in T
<1>1. Below = OpToRel(<, Nat)
  BY DEF Below, OpToRel
<1>2. PICK x \in T : \A y \in T : ~ (<<y, x>> \in Below)
  BY <1>1, NatLessThanWellFounded, WFMin
<1>3. ASSUME NEW y \in T PROVE x <= y
  <2>1. x \in Nat /\ y \in Nat /\ <<y, x>> \in Nat \X Nat
        /\ <<y, x>>[1] = y /\ <<y, x>>[2] = x
    OBVIOUS
  <2>2. ~(y < x)
    BY <1>2, <2>1 DEF Below
  <2> QED BY <2>1, <2>2
<1> QED BY <1>3 DEF Min

-----------------------------------------------------------------------------
(* Division.                                                               *)
LEMMA Quotient ==
  ASSUME NEW a \in Int, NEW b \in Nat \ {0}
  PROVE  a \div b \in Int /\ b * (a \div b) <= a /\ a < b * (a \div b) + b
OBVIOUS

(* Products with a positive factor compare like what is multiplied.        *)
LEMMA Cancel ==
  \A x, y \in Int, z \in Nat \ {0} : x * z < y * z => x < y
OBVIOUS

LEMMA Monotone ==
  \A x, y \in Int, z \in Nat : x <= y => x * z <= y * z
OBVIOUS

LEMMA OneMore ==
  \A x, z \in Int : (x + 1) * z = x * z + z /\ (x - 1) * z = x * z - z
OBVIOUS

(* The nearest integer to a fraction is at most one half away from it.     *)
LEMMA RoundIsNear ==
  ASSUME NEW a \in Int, NEW b \in Nat \ {0}
  PROVE  /\ Round(a, b) \in Int
         /\ 2 * (Round(a, b) * b) <= 2 * a + b
         /\ 2 * a <= 2 * (Round(a, b) * b) + b
<1> DEFINE n == (2 * a + b) \div (2 * b)
           m == (b - 2 * a) \div (2 * b)
<1>0. 2 * a + b \in Int /\ b - 2 * a \in Int /\ 2 * b \in Nat \ {0}
  OBVIOUS
<1>1. n \in Int /\ (2 * b) * n <= 2 * a + b /\ 2 * a + b < (2 * b) * n + 2 * b
  BY ONLY <1>0, Quotient
<1>2. m \in Int /\ (2 * b) * m <= b - 2 * a /\ b - 2 * a < (2 * b) * m + 2 * b
  BY ONLY <1>0, Quotient
<1>3. (2 * b) * n = 2 * (n * b) /\ (2 * b) * m = 2 * (m * b) /\ (-m) * b = -(m * b)
  BY <1>1, <1>2
<1>4. n * b \in Int /\ m * b \in Int
  BY <1>1, <1>2
<1>5. Round(a, b) = IF a >= 0 THEN n ELSE -m
  BY DEF Round
<1> HIDE DEF n, m
<1>6. CASE a >= 0
  BY <1>1, <1>3, <1>4, <1>5, <1>6
<1>7. CASE a < 0
  BY <1>2, <1>3, <1>4, <1>5, <1>7
<1> QED BY <1>6, <1>7

(* An integer less than one half away is the nearest one.                  *)
LEMMA RoundIsNearest ==
  ASSUME NEW a \in Int, NEW b \in Nat \ {0}, NEW d \in Int,
         2 * a < 2 * (d * b) + b, 2 * (d * b) < 2 * a + b
  PROVE  Round(a, b) = d
<1> DEFINE r == Round(a, b)
<1>1. r \in Int /\ 2 * (r * b) <= 2 * a + b /\ 2 * a <= 2 * (r * b) + b
  BY RoundIsNear
<1> HIDE DEF r
<1>2. r * b \in Int /\ d * b \in Int
  BY <1>1
<1>3. r * b < d * b + b /\ d * b < r * b + b
  BY <1>1, <1>2
<1>4. (d + 1) * b = d * b + b /\ (r + 1) * b = r * b + b
  BY <1>1
<1>5. r < d + 1 /\ d < r + 1
  BY <1>1, <1>3, <1>4, Cancel
<1>6. r = d
  BY <1>1, <1>5
<1> QED BY <1>6 DEF r

(* The integer below a fraction is less than one away, and so is the one   *)
(* above it.                                                               *)
LEMMA FloorIsBelow ==
  ASSUME NEW a \in Int, NEW b \in Nat \ {0}
  PROVE  Floor(a, b) \in Int /\ b * Floor(a, b) <= a /\ a < b * Floor(a, b) + b
  BY Quotient DEF Floor

LEMMA CeilIsAbove ==
  ASSUME NEW a \in Int, NEW b \in Nat \ {0}
  PROVE  Ceil(a, b) \in Int /\ a <= b * Ceil(a, b) /\ b * Ceil(a, b) < a + b
<1> DEFINE q == (-a) \div b
<1>1. q \in Int /\ b * q <= -a /\ -a < b * q + b
  BY Quotient
<1>2. Ceil(a, b) = -q
  BY DEF Ceil
<1> HIDE DEF q
<1>3. b * (-q) = -(b * q) /\ b * q \in Int
  BY <1>1
<1> QED BY <1>1, <1>2, <1>3

(* Clamping keeps what fits, and makes everything fit.                     *)
LEMMA ClampedType ==
  ASSUME NEW v \in Int
  PROVE  Clamped(v) \in I32
<1>1. Largest \in Nat
  BY WindowingAssumption
<1> DEFINE m == Max({v, -Largest - 1})
<1>2. m = IF v >= -Largest - 1 THEN v ELSE -Largest - 1
  BY <1>1, MaxOfTwo
<1>3. m \in Int /\ -Largest - 1 <= m
  BY <1>1, <1>2
<1> HIDE DEF m
<1>4. Min({m, Largest}) = IF m <= Largest THEN m ELSE Largest
  BY <1>1, <1>3, MinOfTwo
<1>5. Clamped(v) = Min({m, Largest})
  BY DEF Clamped, m
<1> QED BY <1>1, <1>3, <1>4, <1>5 DEF I32

(* What fits 32 bits is not clamped.                                       *)
LEMMA ClampedKeeps ==
  ASSUME NEW v \in I32
  PROVE  Clamped(v) = v
<1>1. Largest \in Nat
  BY WindowingAssumption
<1>2. v \in Int /\ -Largest - 1 <= v /\ v <= Largest
  BY <1>1 DEF I32
<1>3. Max({v, -Largest - 1}) = v
  BY <1>1, <1>2, MaxOfTwo
<1>4. Min({v, Largest}) = v
  BY <1>1, <1>2, MinOfTwo
<1> QED BY <1>3, <1>4 DEF Clamped

-----------------------------------------------------------------------------
(* Pixels and layout coordinates.                                          *)
LEMMA LayoutType ==
  /\ Layout.origin \in I32 /\ Layout.num \in Nat \ {0} /\ Layout.den \in Nat \ {0}
  /\ \A v \in I32 : v \in Int
  /\ 0 \in I32
  BY WindowingAssumption DEF I32

(* What is asked of Hyprland always fits 32 bits.                          *)
LEMMA UnmapType ==
  ASSUME NEW v \in Int, NEW origin \in Int
  PROVE  UnmapAxis(Layout, v, origin) \in I32
<1>1. v * Layout.den \in Int
  BY LayoutType
<1>2. Round(v * Layout.den, Layout.num) \in Int
  BY <1>1, LayoutType, RoundIsNear
<1>3. Clamped(Round(v * Layout.den, Layout.num)) \in Int
  BY <1>2, ClampedType, LayoutType
<1> QED BY <1>3, ClampedType DEF UnmapAxis

(* Where nothing is clamped, a coordinate is the nearest one, moved by the *)
(* origin.                                                                 *)
LEMMA UnmapKeeps ==
  ASSUME NEW v, NEW origin, Fits(v, origin)
  PROVE  UnmapAxis(Layout, v, origin) = Round(v * Layout.den, Layout.num) + origin
  BY ClampedKeeps DEF UnmapAxis, Fits

(* The position of a window that is moved, in pixels.                      *)
LEMMA MoveIsNear ==
  ASSUME NEW want \in Int, Fits(want, Layout.origin)
  PROVE  Near(MapLow(Layout, UnmapAxis(Layout, want, Layout.origin)) - want, 1, 1)
<1> DEFINE num == Layout.num  den == Layout.den  o == Layout.origin
           r == Round(want * den, num)
           f == Floor(r * num, den)
<1>1. num \in Nat \ {0} /\ den \in Nat \ {0} /\ o \in Int /\ want * den \in Int
  BY LayoutType
<1>2. r \in Int /\ 2 * (r * num) <= 2 * (want * den) + num
      /\ 2 * (want * den) <= 2 * (r * num) + num
  BY <1>1, RoundIsNear
<1>3. UnmapAxis(Layout, want, o) = r + o
  BY UnmapKeeps
<1>4. r * num \in Int
  BY <1>1, <1>2
<1>5. f \in Int /\ den * f <= r * num /\ r * num < den * f + den
  BY <1>1, <1>4, FloorIsBelow
<1>6. MapLow(Layout, r + o) = f
  <2> HIDE DEF r
  <2>1. (r + o) - o = r
    BY <1>1, <1>2
  <2> QED BY <2>1 DEF MapLow
<1>7. Near(f - want, 1, 1)
  <2> SUFFICES /\ 2 * den * (f - want) < 1 * num + 2 * den * 1
               /\ 2 * den * (-(f - want)) < 1 * num + 2 * den * 1
    BY DEF Near
  <2> HIDE DEF f, r, num, den, o
  <2>1. 2 * den * (f - want) = 2 * (den * f) - 2 * (want * den)
        /\ 2 * den * (-(f - want)) = 2 * (want * den) - 2 * (den * f)
    BY ONLY <1>1, <1>5, want \in Int
  <2>2. den * f \in Int /\ want * den \in Int
    BY <1>1, <1>5
  <2> QED BY <1>1, <1>2, <1>4, <1>5, <2>1, <2>2
<1> QED BY <1>3, <1>6, <1>7

(* The extent of a window that is resized, wherever it is, in pixels.      *)
LEMMA ResizeIsNear ==
  ASSUME NEW want \in Int, want > 0, Fits(want, 0), NEW at \in Int
  PROVE  LET goal0 == UnmapAxis(Layout, want, 0)
         IN  Near(MapHigh(Layout, at, Max({1, goal0})) - MapLow(Layout, at) - want,
                  IF goal0 = 0 THEN 2 ELSE 1, 2)
<1> DEFINE num == Layout.num  den == Layout.den  o == Layout.origin
           r == Round(want * den, num)
           s == Max({1, r})
           d == at - o
           h == Ceil((d + s) * num, den)
           l == Floor(d * num, den)
           k == IF r = 0 THEN 2 ELSE 1
<1>1. num \in Nat \ {0} /\ den \in Nat \ {0} /\ o \in Int /\ want * den \in Int /\ d \in Int
      /\ 0 < want * den
  BY LayoutType
<1>2. r \in Int /\ 2 * (r * num) <= 2 * (want * den) + num
      /\ 2 * (want * den) <= 2 * (r * num) + num
  BY <1>1, RoundIsNear
<1>3. UnmapAxis(Layout, want, 0) = r
  BY <1>2, UnmapKeeps
<1>4. s = IF r <= 0 THEN 1 ELSE r
  BY <1>2, MaxOfTwo
<1> HIDE DEF r
<1>5. r >= 0
  <2> SUFFICES ASSUME r <= -1 PROVE FALSE
    BY <1>2
  <2>1. (r + 1) * num <= 0 /\ (r + 1) * num = r * num + num /\ r * num \in Int
    BY <1>1, <1>2
  <2> QED BY <1>1, <1>2, <2>1
<1>6. s \in Int /\ s >= 1 /\ (r # 0 => s = r) /\ (r = 0 => s = 1)
  BY <1>2, <1>4, <1>5
<1> HIDE DEF s
<1>7. /\ s * num \in Int /\ d * num \in Int /\ want * den \in Int
      /\ 2 * (s * num) <= 2 * (want * den) + k * num
      /\ 2 * (want * den) <= 2 * (s * num) + k * num
  <2>1. CASE r = 0
    <3>1. s * num = num /\ r * num = 0 /\ k = 2
      BY <1>1, <1>6, <2>1
    <3> QED BY <1>1, <1>2, <3>1
  <2>2. CASE r # 0
    <3>1. k = 1 /\ s = r
      BY <1>6, <2>2
    <3> QED BY <1>1, <1>2, <3>1
  <2> QED BY <2>1, <2>2
<1>8. (d + s) * num = d * num + s * num /\ (d + s) * num \in Int
  BY <1>1, <1>6
<1>9. h \in Int /\ (d + s) * num <= den * h /\ den * h < (d + s) * num + den
  BY <1>1, <1>8, CeilIsAbove
<1>10. l \in Int /\ den * l <= d * num /\ d * num < den * l + den
  BY <1>1, <1>7, FloorIsBelow
<1>11. MapHigh(Layout, at, s) = h /\ MapLow(Layout, at) = l
  <2>1. at + s - o = d + s
    BY <1>1, <1>6
  <2> QED BY <2>1 DEF MapHigh, MapLow
<1>12. Near(h - l - want, k, 2)
  <2> SUFFICES /\ 2 * den * (h - l - want) < k * num + 2 * den * 2
               /\ 2 * den * (-(h - l - want)) < k * num + 2 * den * 2
    BY DEF Near
  <2>0. k \in Int
    OBVIOUS
  <2> HIDE DEF h, l, d, num, den, o, k
  <2>1. 2 * den * (h - l - want) = 2 * (den * h) - 2 * (den * l) - 2 * (want * den)
        /\ 2 * den * (-(h - l - want)) = 2 * (want * den) + 2 * (den * l) - 2 * (den * h)
    BY ONLY <1>1, <1>9, <1>10, want \in Int
  <2>2. den * h \in Int /\ den * l \in Int /\ k * num \in Int
    BY <1>1, <1>9, <1>10, <2>0
  <2> QED BY <1>1, <1>7, <1>8, <1>9, <1>10, <2>1, <2>2
<1> QED BY <1>3, <1>11, <1>12 DEF s

(* With a scale of at least 1 the pixel of a position leads back to it.    *)
LEMMA PixelLeadsBack ==
  ASSUME NEW at \in I32
  PROVE  LeadsBack(at)
<1> DEFINE num == Layout.num  den == Layout.den  o == Layout.origin
           d == at - o
           p == Round(d * num, den)
<1> SUFFICES ASSUME num >= den, p \in I32
             PROVE  UnmapAxis(Layout, MapAxis(Layout, at), o) = at
  BY DEF LeadsBack
<1>1. /\ num \in Nat \ {0} /\ den \in Nat \ {0} /\ o \in Int /\ at \in Int
      /\ d \in Int /\ d * num \in Int
      /\ Largest \in Nat
  BY LayoutType, WindowingAssumption
<1>2. /\ p \in Int /\ 2 * (p * den) <= 2 * (d * num) + den
      /\ 2 * (d * num) <= 2 * (p * den) + den
  BY <1>1, RoundIsNear
<1>3. MapAxis(Layout, at) = p
  BY ClampedKeeps DEF MapAxis
<1>8. d + o = at
  BY <1>1
<1> HIDE DEF p, d, o, num, den
<1>4. p * den \in Int
  BY <1>1, <1>2
<1>5. 2 * (p * den) < 2 * (d * num) + num /\ 2 * (d * num) < 2 * (p * den) + num
  <2>1. CASE num > den
    BY <1>1, <1>2, <1>4, <2>1
  <2>2. CASE num = den
    <3>1. (p + 1) * num = p * num + num /\ (d + 1) * num = d * num + num
      BY <1>1, <1>2, OneMore
    <3>2. p * num < (d + 1) * num /\ d * num < (p + 1) * num
      BY <1>1, <1>2, <1>4, <2>2, <3>1
    <3>3. p < d + 1 /\ d < p + 1
      BY <1>1, <1>2, <3>2, Cancel
    <3>4. p = d
      BY <1>1, <1>2, <3>3
    <3> QED BY <1>1, <2>2, <3>4
  <2> QED BY <1>1, <2>1, <2>2
<1>6. Round(p * den, num) = d
  BY <1>1, <1>4, <1>5, RoundIsNearest
<1>7. d \in I32
  <2>1. d * num \in Int /\ p * num \in Int /\ (d = 0 => 0 \in I32)
    BY <1>1, <1>2, LayoutType
  <2>2. CASE d > 0
    <3>1. p >= d
      <4> SUFFICES ASSUME p <= d - 1 PROVE FALSE
        BY <1>1, <1>2
      <4>1. CASE p <= 0
        <5>1. p * den <= 0 /\ d * num >= num
          BY <1>1, <1>2, <2>2, <4>1
        <5> QED BY <1>1, <1>4, <1>5, <5>1
      <4>2. CASE p > 0
        <5>1. p * den <= p * num
          BY <1>1, <1>2, <4>2
        <5>2. p * num <= (d - 1) * num /\ (d - 1) * num = d * num - num
          BY <1>1, <1>2, Monotone, OneMore
        <5> QED BY <1>1, <1>4, <1>5, <2>1, <5>1, <5>2
      <4> QED BY <1>2, <4>1, <4>2
    <3> QED BY <1>1, <1>2, <2>2, <3>1 DEF I32
  <2>3. CASE d < 0
    <3>1. p <= d
      <4> SUFFICES ASSUME p >= d + 1 PROVE FALSE
        BY <1>1, <1>2
      <4>1. CASE p >= 0
        <5>1. p * den >= 0 /\ d * num <= -num
          BY <1>1, <1>2, <2>3, <4>1
        <5> QED BY <1>1, <1>4, <1>5, <5>1
      <4>2. CASE p < 0
        <5>1. p * den >= p * num
          BY <1>1, <1>2, <4>2
        <5>2. p * num >= (d + 1) * num /\ (d + 1) * num = d * num + num
          BY <1>1, <1>2, Monotone, OneMore
        <5> QED BY <1>1, <1>4, <1>5, <2>1, <5>1, <5>2
      <4> QED BY <1>2, <4>1, <4>2
    <3> QED BY <1>1, <1>2, <2>3, <3>1 DEF I32
  <2> QED BY <1>1, <2>1, <2>2, <2>3
<1>9. Fits(p, o)
  BY <1>6, <1>7, <1>8 DEF Fits, num, den
<1>10. UnmapAxis(Layout, p, o) = at
  BY <1>6, <1>8, <1>9, UnmapKeeps DEF num, den
<1> QED BY <1>3, <1>10

-----------------------------------------------------------------------------
(* Targets.                                                                *)

(* What is unique in a finite set is in it.                                *)
LEMMA UniqueIsIn ==
  ASSUME NEW S, IsFiniteSet(S)
  PROVE  Unique(S) \in S \cup {None}
<1>1. CASE Cardinality(S) = 1
  <2>1. PICK w : S = {w}
    BY <1>1, FS_Singleton
  <2>2. (CHOOSE v \in S : TRUE) \in S
    BY <2>1
  <2> QED BY <1>1, <2>2 DEF Unique
<1>2. CASE Cardinality(S) # 1
  BY <1>2 DEF Unique
<1> QED BY <1>1, <1>2

(* A target names a window of the listing, or none.                        *)
LEMMA ResolveIsListed ==
  ASSUME NEW windows, IsFiniteSet(windows), NEW t
  PROVE  Resolve(windows, t) \in windows \cup {None}
<1>1. ASSUME NEW S \in SUBSET windows PROVE Unique(S) \in windows \cup {None}
  <2>1. IsFiniteSet(S)
    BY FS_Subset
  <2> QED BY <2>1, UniqueIsIn
<1>2. ById(windows, t) \in windows \cup {None}
  <2> DEFINE exact   == {w \in windows : w.id = t.id}
             rounded == {w \in windows : RoundsAlike(w.id, t.id)}
             narrow  == {w \in rounded : Narrowed(w, t)}
  <2>1. exact \in SUBSET windows /\ rounded \in SUBSET windows /\ narrow \in SUBSET windows
    OBVIOUS
  <2>2. ById(windows, t) \in {Unique(exact), Unique(rounded), Unique(narrow)}
    BY DEF ById
  <2> QED BY <1>1, <2>1, <2>2
<1>3. ByTitle(windows, t.title) \in windows \cup {None}
  <2> DEFINE exact == {w \in windows : w.title = t.title}
             same  == {w \in windows : Same(w.title, t.title)}
             part  == {w \in windows : Contains(w.title, t.title)}
  <2>1. exact \in SUBSET windows /\ same \in SUBSET windows /\ part \in SUBSET windows
    OBVIOUS
  <2>2. ByTitle(windows, t.title) \in {Unique(exact), Unique(same), Unique(part)}
    BY DEF ByTitle
  <2> QED BY <1>1, <2>1, <2>2
<1> DEFINE term  == {w \in windows : MatchesTerminal(w, t) /\ Narrowed(w, t)}
           pid   == {w \in windows : w.pid = t.pid}
           app   == {w \in windows : Same(w.app, t.app)}
           class == {w \in windows : Same(w.class, t.class)}
<1>4. \A S \in {term, pid, app, class} : S \in SUBSET windows
  OBVIOUS
<1>5. Resolve(windows, t) \in {ById(windows, t), ByTitle(windows, t.title), Unique(term),
                               Unique(pid), Unique(app), Unique(class), None}
  BY DEF Resolve
<1> QED BY <1>1, <1>2, <1>3, <1>4, <1>5

(* A call goes on with a window that was open when it was looked up.       *)
LEMMA FoundIsOpen ==
  ASSUME NEW t, Found(t) # None
  PROVE  Found(t) \in Open
<1>1. IsFiniteSet(Open)
  BY WindowingAssumption, FS_Subset, Open \in SUBSET Window DEF Open
<1>2. IsFiniteSet(Listing)
  <2> DEFINE f == [w \in Open |-> Info(w)]
  <2>1. f \in Surjection(Open, Listing)
    BY DEF Surjection, Listing
  <2> QED BY <1>1, <2>1, FS_Surjection
<1>3. Resolve(Listing, t) \in Listing /\ Found(t) = Resolve(Listing, t).id
  BY <1>2, ResolveIsListed DEF Found
<1>4. PICK w \in Open : Resolve(Listing, t) = Info(w)
  BY <1>3 DEF Listing
<1>5. Info(w).id = w
  BY DEF Info
<1> QED BY <1>3, <1>4, <1>5

-----------------------------------------------------------------------------
(* What is said of one call.                                               *)
CallInv(c) ==
  /\ StepInv(c) /\ FloatingInv(c)
  /\ seen[c] # None => seen[c] \in past[c]
  /\ reply[c] = "done" => Saw(c)
  /\ polls[c] <= Max({MaxPolls, Attempts})

Steps == {"start", "list", "query", "dispatch", "poll", "after", "end"}

(* Every variable of the calls has a value for each call and no other.     *)
LEMMA Domains ==
  ASSUME TypeOK
  PROVE  /\ DOMAIN pc = Call /\ DOMAIN win = Call /\ DOMAIN from = Call /\ DOMAIN goal = Call
         /\ DOMAIN polls = Call /\ DOMAIN seen = Call /\ DOMAIN late = Call
         /\ DOMAIN reply = Call /\ DOMAIN past = Call /\ DOMAIN unsure = Call
  BY DEF TypeOK

(* What a plan says of a call.                                             *)
LEMMA Planned ==
  ASSUME TypeOK, NEW c \in Call
  PROVE  /\ ToolOf(c) \in AllTools
         /\ ToolOf(c) \in ExactTools => ask[c].want \in I32
         /\ ToolOf(c) = "float" => ask[c].want \in BOOLEAN
  BY WindowingAssumption DEF TypeOK, ToolOf

(* A step of a call leaves the desktop and the other calls as they are.    *)
Quiet(d) ==
  /\ UNCHANGED <<desk, focus, view, ask>>
  /\ pc'[d] = pc[d] /\ win'[d] = win[d] /\ from'[d] = from[d] /\ goal'[d] = goal[d]
  /\ polls'[d] = polls[d] /\ seen'[d] = seen[d] /\ late'[d] = late[d]
  /\ reply'[d] = reply[d] /\ past'[d] = past[d] /\ unsure'[d] = unsure[d]

(* No call's step changes what another call remembers.                     *)
LEMMA Elsewhere ==
  ASSUME TypeOK, NEW c \in Call, NEW d \in Call, d # c, Proceeds(c)
  PROVE  Quiet(d)
<1> USE Domains DEF Quiet, Still, Goto, Ends
<1>1. CASE Gate(c) \/ List(c) \/ ReadView(c)
  BY <1>1 DEF Gate, List, ReadView
<1>2. CASE QueryExact(c) \/ QueryFloat(c) \/ QuerySend(c)
  BY <1>2 DEF QueryExact, QueryFloat, QuerySend
<1>3. CASE Dispatch(c) \/ Stumbles(c) \/ After(c)
  BY <1>3 DEF Dispatch, Stumbles, After
<1>4. CASE PollFocus(c) \/ FocusDeadline(c) \/ PollLaunch(c) \/ LaunchDeadline(c)
  BY <1>4 DEF PollFocus, FocusDeadline, PollLaunch, LaunchDeadline
<1>5. CASE PollState(c)
  BY <1>5 DEF PollState, Finish
<1> QED BY <1>1, <1>2, <1>3, <1>4, <1>5 DEF Proceeds

(* The desktop as a call sees it.                                          *)
LEMMA SameSight ==
  ASSUME NEW c, UNCHANGED <<desk, focus, view, ask>>, win'[c] = win[c]
  PROVE  /\ Open' = Open /\ ToolOf(c)' = ToolOf(c)
         /\ Watched(c)' = Watched(c) /\ (Tiled(win[c])' <=> Tiled(win[c]))
<1>1. Open' = Open /\ ToolOf(c)' = ToolOf(c)
  BY DEF Open, ToolOf
<1>2. Tiled(win[c])' <=> Tiled(win[c])
  BY DEF Tiled
<1>3. Watched(c)' = Watched(c)
  BY <1>1 DEF Watched
<1> QED BY <1>1, <1>2, <1>3

(* What a call saw counts as what it was asked for until it sees, or is    *)
(* asked for, something else.                                              *)
LEMMA SameSaw ==
  ASSUME NEW c, UNCHANGED ask, seen'[c] = seen[c], win'[c] = win[c], from'[c] = from[c],
         goal'[c] = goal[c]
  PROVE  Saw(c)' <=> Saw(c)
  BY DEF Saw, ToolOf

LEMMA QuietKeeps ==
  ASSUME NEW d, CallInv(d), Quiet(d)
  PROVE  CallInv(d)'
<1>1. /\ Open' = Open /\ ToolOf(d)' = ToolOf(d)
      /\ Watched(d)' = Watched(d) /\ (Tiled(win[d])' <=> Tiled(win[d]))
  BY SameSight DEF Quiet
<1>2. Saw(d)' <=> Saw(d)
  BY SameSaw DEF Quiet
<1>3. StepInv(d)' /\ FloatingInv(d)'
  BY <1>1 DEF Quiet, CallInv, StepInv, FloatingInv, Waiting
<1> QED BY <1>2, <1>3 DEF Quiet, CallInv

-----------------------------------------------------------------------------
(* The steps of a call up to its request: it looks nothing up that it      *)
(* could answer with.                                                      *)
LEMMA Approach ==
  ASSUME NEW c, CallInv(c), UNCHANGED <<desk, focus, view, ask>>,
         pc[c] \in {"start", "list", "query"},
         pc'[c] \in {"list", "query", "dispatch", "end"},
         polls'[c] = polls[c], seen'[c] = seen[c], late'[c] = late[c],
         reply'[c] # "done", pc'[c] # "end" => reply'[c] = "none",
         pc'[c] \in {"query", "dispatch"} /\ ToolOf(c) \notin {"launch", "workspace"} =>
           win'[c] \in Window,
         pc'[c] = "dispatch" /\ ToolOf(c) = "resize" => ask[c].want > 0,
         pc'[c] = "dispatch" /\ ToolOf(c) \in ExactTools /\ ~unsure'[c] => ~Tiled(win'[c])
  PROVE  CallInv(c)'
<1>1. ToolOf(c)' = ToolOf(c) /\ (Tiled(win[c])' <=> Tiled(win'[c]))
  BY DEF ToolOf, Tiled
<1>2. seen'[c] = None /\ polls'[c] = polls[c] /\ ~late'[c] /\ ~Waiting(c)'
  BY DEF CallInv, StepInv, Waiting
<1>3. StepInv(c)' /\ FloatingInv(c)'
  BY <1>1, <1>2 DEF StepInv, FloatingInv, CallInv
<1> QED BY <1>2, <1>3 DEF CallInv

(* The allow list: a call goes on or is refused.                           *)
LEMMA GateKeeps ==
  ASSUME TypeOK, NEW c \in Call, CallInv(c), Gate(c)
  PROVE  CallInv(c)'
<1> USE Domains DEF Gate, Still, Goto, Ends
<1>1. pc[c] = "start" /\ pc'[c] \in {"list", "end"} /\ reply[c] = "none"
  BY DEF CallInv, StepInv
<1>2. reply'[c] # "done" /\ (pc'[c] # "end" => reply'[c] = "none")
  BY <1>1
<1> QED BY <1>1, <1>2, Approach

(* The listing: a call goes on with a window of it, or with what it noted. *)
LEMMA ListKeeps ==
  ASSUME TypeOK, NEW c \in Call, CallInv(c), List(c)
  PROVE  CallInv(c)'
<1> USE Domains DEF Still, Goto, Ends
<1>0. pc[c] = "list" /\ reply[c] = "none"
  BY DEF List, CallInv, StepInv
<1>1. CASE ToolOf(c) = "launch"
  <2>1. /\ pc'[c] \in {"dispatch", "end"} /\ reply'[c] # "done"
        /\ pc'[c] # "end" => reply'[c] = "none"
    BY <1>0, <1>1 DEF List
  <2>2. UNCHANGED <<desk, focus, view, ask, polls, seen, late>>
    BY DEF List
  <2> QED BY <1>0, <1>1, <2>1, <2>2, Approach DEF ExactTools
<1>2. CASE ToolOf(c) # "launch"
  <2> DEFINE w == Found(ask[c].target)
  <2>1. w # None => w \in Window
    BY FoundIsOpen DEF Open
  <2> HIDE DEF w
  <2>2. \/ /\ w # None /\ win' = [win EXCEPT ![c] = w]
           /\ Goto(c, IF ToolOf(c) \in FocusTools THEN "dispatch" ELSE "query")
           /\ UNCHANGED reply
        \/ Ends(c, "refused")
    BY <1>2 DEF List, w
  <2>3. /\ pc'[c] \in {"dispatch", "query", "end"} /\ reply'[c] # "done"
        /\ pc'[c] # "end" => reply'[c] = "none" /\ win'[c] \in Window
        /\ pc'[c] = "dispatch" => ToolOf(c) \in FocusTools
    BY <1>0, <2>1, <2>2
  <2>4. UNCHANGED <<desk, focus, view, ask, polls, seen, late>>
    BY DEF List
  <2>5. ToolOf(c) \in FocusTools => ToolOf(c) \notin ExactTools
    BY DEF FocusTools, ExactTools
  <2>6. ToolOf(c) \in FocusTools => ToolOf(c) # "resize"
    BY DEF FocusTools
  <2> QED BY <1>0, <2>3, <2>4, <2>5, <2>6, Approach
<1> QED BY <1>1, <1>2

(* A call for another workspace notes the one that is shown.               *)
LEMMA ReadViewKeeps ==
  ASSUME TypeOK, NEW c \in Call, CallInv(c), ReadView(c)
  PROVE  CallInv(c)'
<1> USE Domains DEF Still, Goto, ReadView
<1>1. pc[c] = "list" /\ pc'[c] = "dispatch" /\ reply'[c] = "none" /\ ToolOf(c) = "workspace"
  BY DEF CallInv, StepInv
<1> QED BY <1>1, Approach DEF ExactTools

(* A move or a resize goes on with a window that floats now, or that is    *)
(* noted to be tiled, and a resize with a size of at least one pixel.      *)
LEMMA QueryExactKeeps ==
  ASSUME TypeOK, NEW c \in Call, CallInv(c), QueryExact(c)
  PROVE  CallInv(c)'
<1> USE Domains DEF Still, Goto, Ends, QueryExact
<1>1. pc[c] = "query" /\ pc'[c] \in {"dispatch", "end"} /\ reply[c] = "none"
      /\ win'[c] = win[c]
  BY DEF CallInv, StepInv
<1>2. reply'[c] # "done" /\ (pc'[c] # "end" => reply'[c] = "none")
  BY <1>1
<1>3. pc'[c] = "dispatch" => /\ win[c] \in Open
                             /\ Tiled(win[c]) => unsure'[c]
                             /\ ToolOf(c) = "resize" => ask[c].want > 0
  BY <1>1
<1>4. win[c] \in Open => win[c] \in Window
  BY DEF Open
<1> QED BY <1>1, <1>2, <1>3, <1>4, Approach

(* A window that is already as it should be: the one answer that is given  *)
(* without a request, for what was seen in the same step.                  *)
LEMMA QueryFloatKeeps ==
  ASSUME TypeOK, NEW c \in Call, CallInv(c), QueryFloat(c)
  PROVE  CallInv(c)'
<1> USE Domains DEF Still, Goto, Ends
<1>0. /\ pc[c] = "query" /\ reply[c] = "none" /\ ToolOf(c) = "float"
      /\ UNCHANGED <<desk, focus, view, ask, win, from, goal, polls, late, unsure>>
      /\ win[c] \in Window /\ ~late[c] /\ polls[c] = 0
  BY DEF QueryFloat, CallInv, StepInv
<1>1. CASE /\ win[c] \in Open /\ desk[win[c]].float = ask[c].want
           /\ seen' = [seen EXCEPT ![c] = ask[c].want]
           /\ past' = [past EXCEPT ![c] = Watched(c)]
           /\ Ends(c, "done")
  <2>1. Watched(c) = {desk[w].float : w \in {win[c]} \cap Open}
    BY <1>0 DEF Watched, FocusTools
  <2>2. seen'[c] \in past'[c] /\ seen'[c] = ask[c].want
    BY <1>1, <2>1
  <2>3. pc'[c] = "end" /\ reply'[c] = "done"
    BY <1>1
  <2>4. Saw(c)'
    BY <1>0, <2>2 DEF Saw, ToolOf, FocusTools
  <2>5. StepInv(c)' /\ FloatingInv(c)'
    BY <1>0, <2>3 DEF StepInv, FloatingInv, ToolOf, Waiting
  <2> QED BY <1>0, <2>2, <2>4, <2>5 DEF CallInv
<1>2. CASE ~(pc'[c] = "end" /\ reply'[c] = "done")
  <2>1. pc'[c] \in {"dispatch", "end"} /\ seen' = seen /\ reply'[c] # "done"
        /\ (pc'[c] # "end" => reply'[c] = "none")
    BY <1>0, <1>2 DEF QueryFloat
  <2> QED BY <1>0, <2>1, Approach DEF ExactTools
<1> QED BY <1>0, <1>1, <1>2 DEF QueryFloat

(* A window that is sent elsewhere is open, and where it is is noted.      *)
LEMMA QuerySendKeeps ==
  ASSUME TypeOK, NEW c \in Call, CallInv(c), QuerySend(c)
  PROVE  CallInv(c)'
<1> USE Domains DEF Still, Goto, Ends
<1>1. /\ pc[c] = "query" /\ pc'[c] \in {"dispatch", "end"} /\ reply[c] = "none"
      /\ ToolOf(c) = "send" /\ win[c] \in Window
      /\ UNCHANGED <<desk, focus, view, ask, win, polls, seen, late>>
  BY DEF QuerySend, CallInv, StepInv
<1>2. reply'[c] # "done" /\ (pc'[c] # "end" => reply'[c] = "none")
  BY <1>1 DEF QuerySend
<1> QED BY <1>1, <1>2, Approach DEF ExactTools

-----------------------------------------------------------------------------
(* The request, and what ends a call.                                      *)
LEMMA DispatchKeeps ==
  ASSUME TypeOK, NEW c \in Call, CallInv(c), Dispatch(c)
  PROVE  CallInv(c)'
<1>1. /\ pc[c] = "dispatch" /\ pc'[c] = "poll" /\ late'[c] = TRUE /\ past'[c] = Watched(c)
      /\ UNCHANGED <<desk, focus, view, ask, win, from, goal, polls, seen, reply, unsure>>
  BY Domains DEF Dispatch, Still, Goto
<1>2. /\ ToolOf(c)' = ToolOf(c) /\ Watched(c)' = Watched(c)
      /\ (Tiled(win[c])' <=> Tiled(win[c]))
  BY <1>1, SameSight
<1>3. seen[c] = None /\ polls[c] = 0 /\ reply[c] = "none"
  BY <1>1 DEF CallInv, StepInv
<1>4. polls'[c] < Attempts
  BY <1>1, <1>3, WindowingAssumption
<1>5. StepInv(c)' /\ FloatingInv(c)'
  BY <1>1, <1>2, <1>3, <1>4 DEF CallInv, StepInv, FloatingInv
<1> QED BY <1>1, <1>3, <1>5 DEF CallInv

(* A call that ends without an answer of success keeps what it saw.        *)
LEMMA EndKeeps ==
  ASSUME NEW c, CallInv(c), UNCHANGED <<desk, focus, view, ask>>, win'[c] = win[c],
         seen'[c] = seen[c], past'[c] = past[c], unsure'[c] = unsure[c],
         late'[c] => late[c] \/ pc[c] = "dispatch",
         pc'[c] = "end", reply'[c] = "done" => Saw(c)',
         polls'[c] <= Max({MaxPolls, Attempts})
  PROVE  CallInv(c)'
<1>1. ToolOf(c)' = ToolOf(c) /\ (Tiled(win[c])' <=> Tiled(win[c]))
  BY SameSight
<1>2. StepInv(c)' /\ FloatingInv(c)'
  BY <1>1 DEF CallInv, StepInv, FloatingInv, Waiting
<1> QED BY <1>2 DEF CallInv

(* A hyprctl that fails ends a call, which never says it is done.          *)
LEMMA StumblesKeeps ==
  ASSUME TypeOK, NEW c \in Call, CallInv(c), Stumbles(c)
  PROVE  CallInv(c)'
<1>1. /\ UNCHANGED <<desk, focus, view, ask, win, polls, seen, past, unsure>>
      /\ pc'[c] = "end" /\ reply'[c] = "failed"
  BY Domains DEF Stumbles, Still, Ends, Goto
<1>2. late'[c] => late[c] \/ pc[c] = "dispatch"
  BY Domains DEF Stumbles, TypeOK
<1> QED BY <1>1, <1>2, EndKeeps DEF CallInv

(* The answer of a window that was sent rests on what was seen before.     *)
LEMMA AfterKeeps ==
  ASSUME TypeOK, NEW c \in Call, CallInv(c), After(c)
  PROVE  CallInv(c)'
<1>1. /\ UNCHANGED <<desk, focus, view, ask, win, from, goal, polls, seen, late, past,
                     unsure>>
      /\ pc[c] = "after" /\ pc'[c] = "end"
      /\ reply'[c] = IF Reached(c, seen[c]) THEN "done" ELSE "seen"
  BY Domains DEF After, Still, Ends, Goto
<1>2. ToolOf(c) = "send"
  BY <1>1 DEF CallInv, StepInv
<1>3. Reached(c, seen[c]) => Saw(c)
  BY <1>2 DEF Reached, Saw, ExactTools, FocusTools
<1>4. Saw(c)' <=> Saw(c)
  BY <1>1, SameSaw
<1> QED BY <1>1, <1>3, <1>4, EndKeeps DEF CallInv

-----------------------------------------------------------------------------
(* A look: what it sees is among what has been noted since the request.    *)
LEMMA Looks ==
  /\ MaxPolls \in Nat /\ Attempts \in Nat
  /\ MaxPolls <= Max({MaxPolls, Attempts}) /\ Attempts <= Max({MaxPolls, Attempts})
<1>1. MaxPolls \in Nat /\ Attempts \in Nat
  BY WindowingAssumption
<1> QED BY <1>1, MaxOfTwo

(* A call that looks again has not answered, and goes on waiting.          *)
LEMMA LookAgain ==
  ASSUME NEW c, CallInv(c), UNCHANGED <<desk, focus, view, ask>>,
         pc[c] = "poll", pc'[c] = "poll", win'[c] = win[c], late'[c] = late[c],
         past'[c] = past[c], unsure'[c] = unsure[c], reply'[c] = reply[c],
         seen'[c] \in {seen[c]} \cup Watched(c),
         polls'[c] <= Max({MaxPolls, Attempts}),
         ToolOf(c) \notin FocusTools \cup {"launch"} => polls'[c] < Attempts
  PROVE  CallInv(c)'
<1>1. /\ ToolOf(c)' = ToolOf(c) /\ Watched(c)' = Watched(c)
      /\ (Tiled(win[c])' <=> Tiled(win[c]))
  BY SameSight
<1>2. reply[c] = "none" /\ Watched(c) \subseteq past[c]
  BY DEF CallInv, StepInv, Waiting
<1>3. StepInv(c)' /\ FloatingInv(c)'
  BY <1>1, <1>2 DEF CallInv, StepInv, FloatingInv, Waiting
<1>4. seen'[c] # None => seen'[c] \in past'[c]
  BY <1>2 DEF CallInv
<1> QED BY <1>2, <1>3, <1>4 DEF CallInv

(* A call that has seen enough, or has looked for the last time.           *)
LEMMA LastLook ==
  ASSUME NEW c, CallInv(c), UNCHANGED <<desk, focus, view, ask>>,
         pc[c] = "poll", win'[c] = win[c], late'[c] = late[c],
         past'[c] = past[c], unsure'[c] = unsure[c],
         seen'[c] \in {seen[c]} \cup Watched(c),
         polls'[c] <= Max({MaxPolls, Attempts}),
         \/ pc'[c] = "end"
         \/ pc'[c] = "after" /\ ToolOf(c) = "send" /\ reply'[c] = reply[c],
         reply'[c] = "done" => Saw(c)'
  PROVE  CallInv(c)'
<1>1. /\ ToolOf(c)' = ToolOf(c) /\ Watched(c)' = Watched(c)
      /\ (Tiled(win[c])' <=> Tiled(win[c]))
  BY SameSight
<1>2. reply[c] = "none" /\ Watched(c) \subseteq past[c]
  BY DEF CallInv, StepInv, Waiting
<1>3. StepInv(c)' /\ FloatingInv(c)'
  BY <1>1, <1>2 DEF CallInv, StepInv, FloatingInv, Waiting
<1>4. seen'[c] # None => seen'[c] \in past'[c]
  BY <1>2 DEF CallInv
<1> QED BY <1>3, <1>4 DEF CallInv

(* A look at the focus notes a focused window, and ends with the window    *)
(* that was found.                                                         *)
LEMMA PollFocusKeeps ==
  ASSUME TypeOK, NEW c \in Call, CallInv(c), PollFocus(c)
  PROVE  CallInv(c)'
<1>1. /\ UNCHANGED <<desk, focus, view, ask, win, from, goal, late, past, unsure>>
      /\ pc[c] = "poll" /\ ToolOf(c) \in FocusTools /\ polls[c] < MaxPolls
      /\ polls'[c] = polls[c] + 1 /\ polls[c] \in Nat
  BY Domains DEF PollFocus, Still, TypeOK
<1>2. polls'[c] <= Max({MaxPolls, Attempts})
  <2>1. polls'[c] <= MaxPolls
    BY <1>1, Looks
  <2> HIDE <1>1
  <2>2. polls'[c] \in Nat /\ Max({MaxPolls, Attempts}) \in Int
    BY <1>1, Looks, MaxOfTwo
  <2> QED BY <2>1, <2>2, Looks
<1>3. Watched(c) = {focus}
  BY <1>1 DEF Watched, FocusTools
<1>4. CASE focus = win[c] /\ seen' = [seen EXCEPT ![c] = focus] /\ Ends(c, "done")
  <2>1. seen'[c] = focus /\ pc'[c] = "end" /\ reply'[c] = "done"
    BY <1>4, Domains DEF Ends, Goto
  <2>2. Saw(c)'
    BY <1>1, <1>4, <2>1 DEF Saw, ToolOf, FocusTools
  <2> QED BY <1>1, <1>2, <1>3, <2>1, <2>2, LastLook
<1>5. CASE UNCHANGED <<pc, reply>> /\ seen'[c] \in {seen[c], focus}
  BY <1>1, <1>2, <1>3, <1>5, LookAgain
<1> QED BY <1>4, <1>5, Domains DEF PollFocus

(* What a deadline takes for success is what a call may say it has seen.   *)
LEMMA SatisfiesSuffices ==
  ASSUME NEW c, ToolOf(c) \in FocusTools, Satisfies(c, seen[c])
  PROVE  Saw(c)
<1> DEFINE t == ask[c].target
<1>1. CASE seen[c] = win[c]
  BY <1>1 DEF Saw, FocusTools
<1>2. CASE ToolOf(c) # "capture" /\ ~RequiresExactFocus(t) /\ SameApp(seen[c], win[c])
  <2>1. {t.id, t.pid, t.title, t.tty, t.tpid, t.command, t.cwd} = {None}
    BY <1>2 DEF RequiresExactFocus, HasTerminalTarget
  <2> QED BY <1>2, <2>1 DEF Saw, SameApp, FocusTools
<1> QED BY <1>1, <1>2 DEF Satisfies

(* At the deadline the last window that was seen decides.                  *)
LEMMA FocusDeadlineKeeps ==
  ASSUME TypeOK, NEW c \in Call, CallInv(c), FocusDeadline(c)
  PROVE  CallInv(c)'
<1>1. /\ UNCHANGED <<desk, focus, view, ask, win, from, goal, polls, seen, late, past,
                     unsure>>
      /\ ToolOf(c) \in FocusTools /\ pc'[c] = "end"
      /\ reply'[c] = "done" => Satisfies(c, seen[c])
  BY Domains DEF FocusDeadline, Still, Ends, Goto
<1>2. reply'[c] = "done" => Saw(c)'
  BY <1>1, SatisfiesSuffices, SameSaw
<1> QED BY <1>1, <1>2, EndKeeps DEF CallInv

(* A look for a new window ends with the least id that was not noted.      *)
LEMMA PollLaunchKeeps ==
  ASSUME TypeOK, NEW c \in Call, CallInv(c), PollLaunch(c)
  PROVE  CallInv(c)'
<1>1. /\ UNCHANGED <<desk, focus, view, ask, win, from, goal, late, past, unsure>>
      /\ pc[c] = "poll" /\ ToolOf(c) = "launch" /\ polls[c] < MaxPolls
      /\ polls'[c] = polls[c] + 1 /\ polls[c] \in Nat
  BY Domains DEF PollLaunch, Still, TypeOK
<1>2. polls'[c] <= Max({MaxPolls, Attempts})
  <2>1. polls'[c] <= MaxPolls
    BY <1>1, Looks
  <2> HIDE <1>1
  <2>2. polls'[c] \in Nat /\ Max({MaxPolls, Attempts}) \in Int
    BY <1>1, Looks, MaxOfTwo
  <2> QED BY <2>1, <2>2, Looks
<1>3. Watched(c) = Open
  BY <1>1 DEF Watched, FocusTools
<1> DEFINE new == Open \ from[c]
<1>4. CASE new # {} /\ seen' = [seen EXCEPT ![c] = Min(new)] /\ Ends(c, "done")
  <2>1. new \in SUBSET Nat
    BY WindowingAssumption DEF Open
  <2>2. Min(new) \in new
    BY <1>4, <2>1, LeastIsIn
  <2>3. seen'[c] = Min(new) /\ pc'[c] = "end" /\ reply'[c] = "done"
    BY <1>4, Domains DEF Ends, Goto
  <2>4. seen'[c] \in Window \ from[c] /\ seen'[c] \in Watched(c)
    BY <1>3, <2>2, <2>3 DEF Open
  <2>5. Saw(c)'
    BY <1>1, <2>4 DEF Saw, ToolOf, FocusTools
  <2> QED BY <1>1, <1>2, <2>3, <2>4, <2>5, LastLook
<1>5. CASE UNCHANGED <<pc, seen, reply>>
  BY <1>1, <1>2, <1>5, LookAgain
<1> QED BY <1>4, <1>5 DEF PollLaunch

(* A launch that sees no new window fails.                                 *)
LEMMA LaunchDeadlineKeeps ==
  ASSUME TypeOK, NEW c \in Call, CallInv(c), LaunchDeadline(c)
  PROVE  CallInv(c)'
<1>1. /\ UNCHANGED <<desk, focus, view, ask, win, from, goal, polls, seen, late, past,
                     unsure>>
      /\ pc'[c] = "end" /\ reply'[c] = "failed"
  BY Domains DEF LaunchDeadline, Still, Ends, Goto
<1> QED BY <1>1, EndKeeps DEF CallInv

(* A call that waits for a state has seen it when it says so.              *)
LEMMA ReachedSuffices ==
  ASSUME NEW c, ToolOf(c) \notin FocusTools \cup {"launch"}, UNCHANGED ask,
         goal'[c] = goal[c], Reached(c, seen'[c]), ToolOf(c) # "send"
  PROVE  Saw(c)'
<1>1. ToolOf(c)' = ToolOf(c)
  BY DEF ToolOf
<1>2. CASE ToolOf(c) \in ExactTools
  BY <1>1, <1>2 DEF Reached, Awaited, Saw, ExactTools
<1>3. CASE ToolOf(c) = "float"
  BY <1>1, <1>3 DEF Reached, Saw, ExactTools
<1>4. CASE ToolOf(c) \notin ExactTools \cup {"float"}
  BY <1>1, <1>4 DEF Reached, Saw, ExactTools
<1> QED BY <1>2, <1>3, <1>4

(* A look at a state: the call ends with the last of its looks, with the   *)
(* state it was asked for, or with a failure, and otherwise has looks      *)
(* left.                                                                   *)
LEMMA PollStateKeeps ==
  ASSUME TypeOK, NEW c \in Call, CallInv(c), PollState(c)
  PROVE  CallInv(c)'
<1>1. /\ UNCHANGED <<desk, focus, view, ask, win, from, goal, late, past, unsure>>
      /\ pc[c] = "poll" /\ ToolOf(c) \in ExactTools \cup {"float", "send", "workspace"}
  BY DEF PollState, Still
<1>2. ToolOf(c) \notin FocusTools \cup {"launch"}
  BY <1>1 DEF ExactTools, FocusTools
<1>3. reply[c] = "none" /\ polls[c] \in Nat /\ polls[c] < Attempts /\ Attempts \in Nat
  BY <1>1, <1>2, Looks DEF CallInv, StepInv, TypeOK
<1>4. CASE Ends(c, "failed") /\ UNCHANGED <<seen, polls>>
  <2>1. pc'[c] = "end" /\ reply'[c] = "failed"
    BY <1>4, Domains DEF Ends, Goto
  <2> QED BY <1>1, <1>4, <2>1, EndKeeps DEF CallInv
<1>5. CASE \E v \in Watched(c) :
             /\ seen' = [seen EXCEPT ![c] = v]
             /\ polls' = [polls EXCEPT ![c] = @ + 1]
             /\ IF Reached(c, v) \/ polls'[c] = Attempts
                THEN Finish(c, v) ELSE UNCHANGED <<pc, reply>>
  <2>1. PICK v \in Watched(c) :
             /\ seen' = [seen EXCEPT ![c] = v]
             /\ polls' = [polls EXCEPT ![c] = @ + 1]
             /\ IF Reached(c, v) \/ polls'[c] = Attempts
                THEN Finish(c, v) ELSE UNCHANGED <<pc, reply>>
    BY <1>5
  <2>2. seen'[c] = v /\ polls'[c] = polls[c] + 1
    BY <2>1, Domains
  <2>3. polls'[c] \in Nat /\ polls'[c] <= Attempts
    BY <1>3, <2>2
  <2>4. polls'[c] <= Max({MaxPolls, Attempts})
    <3>1. Max({MaxPolls, Attempts}) \in Int
      BY Looks, MaxOfTwo
    <3> QED BY <2>3, <3>1, Looks
  <2>5. CASE Reached(c, v) \/ polls'[c] = Attempts
    <3>1. Finish(c, v)
      BY <2>1, <2>5
    <3>2. CASE ToolOf(c) = "send"
      <4>1. pc'[c] = "after" /\ reply'[c] = reply[c]
        BY <3>1, <3>2, Domains DEF Finish, Goto
      <4> QED BY <1>1, <1>3, <2>2, <2>4, <3>2, <4>1, LastLook
    <3>3. CASE ToolOf(c) # "send"
      <4>1. pc'[c] = "end" /\ (reply'[c] = "done" => Reached(c, v))
        BY <3>1, <3>3, Domains DEF Finish, Ends, Goto
      <4>2. reply'[c] = "done" => Saw(c)'
        BY <1>1, <1>2, <2>2, <3>3, <4>1, ReachedSuffices
      <4> QED BY <1>1, <2>2, <2>4, <4>1, <4>2, LastLook
    <3> QED BY <3>2, <3>3
  <2>6. CASE ~(Reached(c, v) \/ polls'[c] = Attempts)
    <3>1. pc' = pc /\ reply' = reply
      BY <2>1, <2>6
    <3>2. polls'[c] < Attempts
      BY <1>3, <2>3, <2>6
    <3> QED BY <1>1, <2>2, <2>4, <3>1, <3>2, LookAgain
  <2> QED BY <2>5, <2>6
<1>6. CASE /\ polls' = [polls EXCEPT ![c] = @ + 1]
           /\ IF polls'[c] = Attempts THEN Ends(c, "failed") ELSE UNCHANGED <<pc, reply>>
           /\ UNCHANGED seen
  <2>1. polls'[c] = polls[c] + 1
    BY <1>6, Domains
  <2>2. polls'[c] \in Nat /\ polls'[c] <= Attempts
    BY <1>3, <2>1
  <2>3. polls'[c] <= Max({MaxPolls, Attempts})
    <3>1. Max({MaxPolls, Attempts}) \in Int
      BY Looks, MaxOfTwo
    <3> QED BY <2>2, <3>1, Looks
  <2>4. CASE polls'[c] = Attempts
    <3>1. pc'[c] = "end" /\ reply'[c] = "failed"
      BY <1>6, <2>4, Domains DEF Ends, Goto
    <3> QED BY <1>1, <1>6, <2>3, <3>1, EndKeeps
  <2>5. CASE polls'[c] # Attempts
    <3>1. UNCHANGED <<pc, reply>> /\ polls'[c] < Attempts
      BY <1>3, <1>6, <2>2, <2>5
    <3> QED BY <1>1, <1>6, <2>3, <3>1, LookAgain
  <2> QED BY <2>4, <2>5
<1> QED BY <1>4, <1>5, <1>6 DEF PollState

-----------------------------------------------------------------------------
(* A change of the desktop: what a call waits on is noted, and a window    *)
(* that is tiled under a request is noted too.                             *)
LEMMA ChangeKeeps ==
  ASSUME TypeOK, NEW d \in Call, CallInv(d), Changes, late'[d] => late[d]
  PROVE  CallInv(d)'
<1>1. UNCHANGED <<ask, pc, win, from, goal, polls, seen, reply>>
  BY DEF Changes, callVars
<1>2. ToolOf(d)' = ToolOf(d) /\ (Waiting(d)' <=> Waiting(d)) /\ (Saw(d)' <=> Saw(d))
  BY <1>1, SameSaw DEF ToolOf, Waiting
<1>3. past'[d] = IF Waiting(d) THEN past[d] \cup Watched(d)' ELSE past[d]
  BY DEF Changes
<1>4. StepInv(d)'
  BY <1>1, <1>2, <1>3 DEF CallInv, StepInv
<1>5. FloatingInv(d)'
  <2> SUFFICES ASSUME ToolOf(d) \in ExactTools, late[d] \/ pc[d] = "dispatch", ~unsure'[d]
               PROVE  ~Tiled(win[d])'
    BY <1>1, <1>2 DEF FloatingInv
  <2>1. ~unsure[d] /\ ~(\E w \in {win[d]} \cap Window : ~Tiled(w) /\ Tiled(w)')
    BY DEF Changes
  <2>2. win[d] \in Window
    BY DEF CallInv, StepInv, ExactTools
  <2>3. ~Tiled(win[d])
    BY <2>1 DEF CallInv, FloatingInv
  <2>4. \A w \in Window : w = win[d] => ~Tiled(w)'
    BY <2>1, <2>3
  <2> QED BY <1>1, <2>2, <2>4 DEF Tiled
<1> QED BY <1>1, <1>2, <1>3, <1>4, <1>5 DEF CallInv

(* A request that is dropped changes nothing.                              *)
LEMMA DropKeeps ==
  ASSUME TypeOK, NEW c \in Call, Dropped(c), NEW d \in Call, CallInv(d)
  PROVE  CallInv(d)'
<1>1. /\ UNCHANGED <<desk, focus, view, ask, pc, win, from, goal, polls, seen, reply>>
      /\ UNCHANGED <<past, unsure>> /\ (late'[d] => late[d])
  BY Domains DEF Dropped, Still, callVars
<1>2. /\ ToolOf(d)' = ToolOf(d) /\ Watched(d)' = Watched(d)
      /\ (Tiled(win[d])' <=> Tiled(win[d])) /\ (Saw(d)' <=> Saw(d))
  BY <1>1, SameSight, SameSaw
<1>3. StepInv(d)' /\ FloatingInv(d)'
  BY <1>1, <1>2 DEF CallInv, StepInv, FloatingInv, Waiting
<1> QED BY <1>1, <1>2, <1>3 DEF CallInv

(* So every step of a call keeps what is said of it.                       *)
LEMMA OwnStepKeeps ==
  ASSUME TypeOK, NEW c \in Call, CallInv(c), Proceeds(c)
  PROVE  CallInv(c)'
  BY GateKeeps, ListKeeps, ReadViewKeeps, QueryExactKeeps, QueryFloatKeeps, QuerySendKeeps,
     DispatchKeeps, PollFocusKeeps, FocusDeadlineKeeps, PollStateKeeps, AfterKeeps,
     PollLaunchKeeps, LaunchDeadlineKeeps, StumblesKeeps
  DEF Proceeds

(* Every step keeps what is said of every call: its own steps by the       *)
(* lemmas above, those of others because they change nothing it rests on,  *)
(* and a change of the desktop because it is noted.                        *)
LEMMA NextKeeps ==
  ASSUME TypeOK, \A d \in Call : CallInv(d), [Next]_vars
  PROVE  \A d \in Call : CallInv(d)'
<1> SUFFICES ASSUME NEW d \in Call PROVE CallInv(d)'
  OBVIOUS
<1>1. ASSUME NEW c \in Call, Proceeds(c) PROVE CallInv(d)'
  <2>1. CASE c = d
    BY <1>1, <2>1, OwnStepKeeps
  <2>2. CASE c # d
    BY <1>1, <2>2, Elsewhere, QuietKeeps
  <2> QED BY <2>1, <2>2
<1>2. ASSUME NEW c \in Call, Applied(c) PROVE CallInv(d)'
  <2>1. Changes /\ (late'[d] => late[d])
    BY <1>2, Domains DEF Applied
  <2> QED BY <2>1, ChangeKeeps
<1>3. ASSUME NEW c \in Call, Dropped(c) PROVE CallInv(d)'
  BY <1>3, DropKeeps
<1>4. CASE Event
  BY <1>4, ChangeKeeps DEF Event
<1>5. CASE UNCHANGED vars
  <2>1. Quiet(d)
    BY <1>5 DEF vars, Quiet
  <2> QED BY <2>1, QuietKeeps
<1> QED BY <1>1, <1>2, <1>3, <1>4, <1>5 DEF Next

-----------------------------------------------------------------------------
(* Types.                                                                  *)
LEMMA ProceedsTypes ==
  ASSUME TypeOK, NEW c \in Call, Proceeds(c)
  PROVE  TypeOK'
<1> USE Domains DEF TypeOK, Still, Goto, Ends, Works, Fails
<1>1. CASE Gate(c) \/ ReadView(c)
  BY <1>1 DEF Gate, ReadView
<1>2. CASE List(c)
  <2> DEFINE w == Found(ask[c].target)
  <2>1. w # None => w \in Window
    BY FoundIsOpen DEF Open
  <2> HIDE DEF w
  <2>2. /\ win' = win \/ (w # None /\ win' = [win EXCEPT ![c] = w])
        /\ from' = from \/ from' = [from EXCEPT ![c] = Open]
        /\ reply' = reply \/ reply' = [reply EXCEPT ![c] = "failed"]
           \/ reply' = [reply EXCEPT ![c] = "refused"]
        /\ \E step \in {"dispatch", "query", "end"} : pc' = [pc EXCEPT ![c] = step]
    BY <1>2 DEF List, w
  <2>3. UNCHANGED <<desk, focus, view, events, failures, ask, goal, polls, seen, late, past,
                    unsure>>
    BY <1>2 DEF List
  <2> QED BY <2>1, <2>2, <2>3
<1>3. CASE QueryExact(c)
  <2>1. ToolOf(c) \in ExactTools /\ ask[c].want \in I32
    BY <1>3, Planned DEF QueryExact
  <2>2. \A r \in BOOLEAN : Exact(c, r) \in I32
    BY <2>1, LayoutType, UnmapType DEF Exact
  <2>3. goal' = goal \/ \E r \in BOOLEAN : goal' = [goal EXCEPT ![c] = Exact(c, r)]
    BY <1>3 DEF QueryExact
  <2>4. goal' \in [Call -> I32]
    BY <2>2, <2>3
  <2>5. /\ \E step \in {"dispatch", "end"} : pc' = [pc EXCEPT ![c] = step]
        /\ reply' = reply \/ reply' = [reply EXCEPT ![c] = "refused"]
        /\ unsure' = unsure \/ unsure' = [unsure EXCEPT ![c] = Tiled(win[c])]
    BY <1>3 DEF QueryExact
  <2>6. UNCHANGED <<desk, focus, view, events, failures, ask, win, from, polls, seen, late,
                    past>>
    BY <1>3 DEF QueryExact
  <2>7. /\ pc' \in [Call -> Steps] /\ unsure' \in [Call -> BOOLEAN]
        /\ reply' \in [Call -> {"none", "refused", "failed", "done", "seen"}]
    <3>1. pc \in [Call -> Steps] /\ unsure \in [Call -> BOOLEAN]
          /\ reply \in [Call -> {"none", "refused", "failed", "done", "seen"}]
      BY DEF Steps
    <3>2. pc' \in [Call -> Steps]
      BY ONLY <2>5, <3>1 DEF Steps
    <3>3. unsure' \in [Call -> BOOLEAN]
      <4>1. Tiled(win[c]) \in BOOLEAN
        BY DEF Tiled
      <4> QED BY ONLY <2>5, <3>1, <4>1
    <3>4. reply' \in [Call -> {"none", "refused", "failed", "done", "seen"}]
      BY ONLY <2>5, <3>1
    <3> QED BY <3>2, <3>3, <3>4
  <2> QED BY <2>4, <2>6, <2>7 DEF Steps
<1>4. CASE QueryFloat(c) \/ QuerySend(c)
  BY <1>4 DEF QueryFloat, QuerySend
<1>5. CASE Dispatch(c)
  BY <1>5 DEF Dispatch
<1>6. CASE After(c) \/ FocusDeadline(c) \/ LaunchDeadline(c)
  <2>1. \E says \in {"done", "seen", "failed", "refused"} :
          pc' = [pc EXCEPT ![c] = "end"] /\ reply' = [reply EXCEPT ![c] = says]
    BY <1>6 DEF After, FocusDeadline, LaunchDeadline
  <2>2. UNCHANGED <<desk, focus, view, events, failures, ask, win, from, goal, polls, seen,
                    late, past, unsure>>
    BY <1>6 DEF After, FocusDeadline, LaunchDeadline
  <2> QED BY <2>1, <2>2
<1>7. CASE Stumbles(c)
  <2>1. late' \in [Call -> BOOLEAN]
    BY <1>7 DEF Stumbles
  <2>2. failures' \in 0..MaxFailures
    BY <1>7, WindowingAssumption DEF Stumbles
  <2> QED BY <1>7, <2>1, <2>2 DEF Stumbles
<1>8. failures' \in 0..MaxFailures
  BY WindowingAssumption DEF Proceeds, Gate, List, ReadView, QueryExact, QueryFloat, QuerySend,
     Dispatch, PollFocus, FocusDeadline, PollState, After, PollLaunch, LaunchDeadline, Stumbles
<1>9. CASE PollFocus(c) \/ PollLaunch(c)
  <2>1. /\ polls' = [polls EXCEPT ![c] = @ + 1]
        /\ seen' = seen \/ \E v : seen' = [seen EXCEPT ![c] = v]
        /\ UNCHANGED <<pc, reply>>
           \/ /\ pc' = [pc EXCEPT ![c] = "end"]
              /\ reply' = [reply EXCEPT ![c] = "done"]
    BY <1>9 DEF PollFocus, PollLaunch
  <2>2. UNCHANGED <<desk, focus, view, events, ask, win, from, goal, late, past, unsure>>
    BY <1>9 DEF PollFocus, PollLaunch
  <2> QED BY <1>8, <2>1, <2>2
<1>10. CASE PollState(c)
  <2>1. polls' \in [Call -> Nat] /\ DOMAIN seen' = Call
    BY <1>10 DEF PollState
  <2>2. /\ pc' \in [Call -> Steps]
        /\ reply' \in [Call -> {"none", "refused", "failed", "done", "seen"}]
    <3>1. /\ UNCHANGED <<pc, reply>>
             \/ \E step \in {"after", "end"} : pc' = [pc EXCEPT ![c] = step]
          /\ UNCHANGED reply
             \/ \E says \in {"done", "failed", "seen"} : reply' = [reply EXCEPT ![c] = says]
      BY <1>10 DEF PollState, Finish
    <3>2. pc \in [Call -> Steps]
          /\ reply \in [Call -> {"none", "refused", "failed", "done", "seen"}]
      BY DEF Steps
    <3>3. pc' \in [Call -> Steps]
      BY ONLY <3>1, <3>2 DEF Steps
    <3>4. reply' \in [Call -> {"none", "refused", "failed", "done", "seen"}]
      BY ONLY <3>1, <3>2
    <3> QED BY <3>3, <3>4
  <2>3. UNCHANGED <<desk, focus, view, events, ask, win, from, goal, late, past, unsure>>
    BY <1>10 DEF PollState
  <2> QED BY <1>8, <2>1, <2>2, <2>3 DEF Steps
<1> QED BY <1>1, <1>2, <1>3, <1>4, <1>5, <1>6, <1>7, <1>9, <1>10 DEF Proceeds

(* What a change of the desktop must not do.                               *)
DeskOK == desk \in [Window -> State] /\ focus \in Window \cup {None} /\ view \in Workspaces

(* The windows of a workspace are windows.                                 *)
LEMMA ShownIsWindow ==
  ASSUME NEW ws
  PROVE  Shown(ws) \subseteq Window \cup {None}
  BY DEF Shown, Open

(* However far Hyprland carries a request out, the desktop keeps its       *)
(* types.                                                                  *)
LEMMA CarryOutTypes ==
  ASSUME TypeOK, NEW c \in Call, CarryOut(c)
  PROVE  DeskOK'
<1> DEFINE w == win[c]
<1> USE DEF DeskOK, State
<1>0. /\ desk \in [Window -> State] /\ focus \in Window \cup {None} /\ view \in Workspaces
      /\ goal[c] \in I32 /\ goal[c] \in Int /\ Places \subseteq I32 /\ Sizes \subseteq Int
  BY LayoutType, WindowingAssumption DEF TypeOK
<1>1. CASE ToolOf(c) \in FocusTools /\ w \in Open /\ focus' = w /\ view' = desk[w].ws
           /\ UNCHANGED desk
  BY <1>0, <1>1 DEF Open
<1>2. CASE w \in Open /\ desk' = [desk EXCEPT ![w].at = goal[c]] /\ UNCHANGED <<focus, view>>
  BY <1>0, <1>2 DEF Open
<1>3. CASE /\ w \in Open
           /\ \E a \in Places, s \in (IF goal[c] > 0 THEN {goal[c]} ELSE Sizes) :
                desk' = [desk EXCEPT ![w].size = s, ![w].at = a]
           /\ UNCHANGED <<focus, view>>
  BY <1>0, <1>3 DEF Open
<1>4. CASE /\ \E s \in [Window -> Sizes] :
                desk' = [v \in Window |-> IF Tiled(v) /\ desk[v].ws = desk[w].ws
                                          THEN [desk[v] EXCEPT !.size = s[v]] ELSE desk[v]]
           /\ UNCHANGED <<focus, view>>
  BY <1>0, <1>4
<1>5. CASE /\ ToolOf(c) = "float" /\ w \in Open
           /\ \E s \in Sizes :
                desk' = [desk EXCEPT ![w].float = ask[c].want, ![w].size = s]
           /\ UNCHANGED <<focus, view>>
  <2>1. ask[c].want \in BOOLEAN
    BY <1>5, Planned
  <2> QED BY <1>0, <1>5, <2>1 DEF Open
<1>6. CASE /\ w \in Open
           /\ \E ws \in Workspaces :
                /\ desk' = [desk EXCEPT ![w].ws = ws]
                /\ view' = IF ask[c].follow THEN ws ELSE view
           /\ UNCHANGED focus
  BY <1>0, <1>6 DEF Open
<1>7. CASE /\ \E ws \in Workspaces : view' = ws /\ focus' \in Shown(ws)
           /\ UNCHANGED desk
  BY <1>0, <1>7, ShownIsWindow
<1>8. CASE \E v \in Window \ Open, ws \in Workspaces, f \in BOOLEAN :
             /\ desk' = [desk EXCEPT ![v].open = TRUE, ![v].ws = ws, ![v].float = f]
             /\ focus' = v /\ view' = ws
  <2>1. PICK v \in Window \ Open, ws \in Workspaces, f \in BOOLEAN :
             /\ desk' = [desk EXCEPT ![v].open = TRUE, ![v].ws = ws, ![v].float = f]
             /\ focus' = v /\ view' = ws
    BY <1>8
  <2> DEFINE new == [desk[v] EXCEPT !.open = TRUE, !.ws = ws, !.float = f]
  <2>2. desk' = [desk EXCEPT ![v] = new]
    BY <1>0, <2>1
  <2>3. new \in State
    BY <1>0
  <2> HIDE DEF new, State
  <2>4. desk' \in [Window -> State]
    BY <1>0, <2>2, <2>3
  <2> QED BY <2>1, <2>4
<1> QED BY <1>1, <1>2, <1>3, <1>4, <1>5, <1>6, <1>7, <1>8 DEF CarryOut

(* So it does when the user or another program changes it.                 *)
LEMMA EventTypes ==
  ASSUME TypeOK, Event
  PROVE  DeskOK' /\ events' \in 0..MaxEvents
<1> USE DEF DeskOK, State
<1>0. /\ desk \in [Window -> State] /\ focus \in Window \cup {None} /\ view \in Workspaces
  BY DEF TypeOK
<1>1. events' \in 0..MaxEvents
  BY WindowingAssumption DEF TypeOK, Event
<1>2. PICK w \in Window : Opened(w) \/ Closed(w) \/ Focused(w) \/ Toggled(w) \/ Retitled(w)
  BY DEF Event
<1>3. CASE Opened(w)
  <2>1. PICK f \in BOOLEAN :
             desk' = [desk EXCEPT ![w].open = TRUE, ![w].ws = view, ![w].float = f]
    BY <1>3 DEF Opened
  <2> DEFINE new == [desk[w] EXCEPT !.open = TRUE, !.ws = view, !.float = f]
  <2>2. desk' = [desk EXCEPT ![w] = new]
    BY <1>0, <2>1
  <2>3. new \in State
    BY <1>0
  <2> HIDE DEF new, State
  <2>4. desk' \in [Window -> State] /\ focus' = w /\ view' = view
    BY <1>0, <1>3, <2>2, <2>3 DEF Opened
  <2> QED BY <1>0, <1>1, <2>4
<1>4. CASE Closed(w)
  <2>1. desk' \in [Window -> State] /\ view' \in Workspaces
    BY <1>0, <1>4 DEF Closed
  <2>2. focus' \in Window \cup {None}
    BY <1>0, <1>4, ShownIsWindow DEF Closed
  <2> QED BY <1>1, <2>1, <2>2
<1>5. CASE Focused(w)
  BY <1>0, <1>1, <1>5 DEF Focused, Open
<1>6. CASE Toggled(w)
  <2>1. desk' = [desk EXCEPT ![w].float = ~desk[w].float] /\ desk[w] \in State
        /\ UNCHANGED <<focus, view>>
    BY <1>0, <1>6 DEF Toggled
  <2>2. (~desk[w].float) \in BOOLEAN
    OBVIOUS
  <2>3. desk' \in [Window -> State]
    BY <1>0, <2>1, <2>2
  <2> QED BY <1>0, <1>1, <2>1, <2>3
<1>7. CASE Retitled(w)
  BY <1>0, <1>1, <1>7 DEF Retitled, Open
<1> QED BY <1>1, <1>2, <1>3, <1>4, <1>5, <1>6, <1>7

(* A change of the desktop leaves the calls as they are, but for the       *)
(* notes.                                                                  *)
LEMMA ChangeTypes ==
  ASSUME TypeOK, Changes, DeskOK', events' \in 0..MaxEvents, failures' = failures,
         late' \in [Call -> BOOLEAN]
  PROVE  TypeOK'
<1>1. DOMAIN past' = Call
  BY DEF Changes
<1>2. unsure' \in [Call -> BOOLEAN]
  BY DEF Changes, TypeOK
<1> QED BY <1>1, <1>2 DEF TypeOK, Changes, callVars, DeskOK

(* Every step keeps the types.                                             *)
LEMMA NextTypes ==
  ASSUME TypeOK, [Next]_vars
  PROVE  TypeOK'
<1>1. ASSUME NEW c \in Call, Applied(c) PROVE TypeOK'
  <2>1. late' \in [Call -> BOOLEAN] /\ events' \in 0..MaxEvents /\ failures' = failures
    BY <1>1 DEF Applied, Works, TypeOK
  <2> QED BY <1>1, <2>1, CarryOutTypes, ChangeTypes DEF Applied
<1>2. ASSUME NEW c \in Call, Dropped(c) PROVE TypeOK'
  BY <1>2 DEF Dropped, Works, Still, callVars, TypeOK
<1>3. CASE Event
  BY <1>3, EventTypes, ChangeTypes DEF Event, Works, TypeOK
<1>4. CASE UNCHANGED vars
  BY <1>4 DEF vars, TypeOK
<1> QED BY <1>1, <1>2, <1>3, <1>4, ProceedsTypes DEF Next

-----------------------------------------------------------------------------
(* The initial states.                                                     *)
LEMMA InitTypes ==
  ASSUME Init
  PROVE  TypeOK
<1>1. 0 \in I32 /\ 1 \in Workspaces /\ FirstTitle \in Titles
      /\ MaxEvents \in Nat /\ MaxFailures \in Nat
  BY LayoutType, WindowingAssumption
<1>2. desk \in [Window -> State] /\ view \in Workspaces
  BY <1>1 DEF Init, State
<1>3. focus \in Window \cup {None}
  BY DEF Init, Open
<1> QED BY <1>1, <1>2, <1>3 DEF Init, TypeOK

(* Initially no call has done anything.                                    *)
LEMMA InitCalls ==
  ASSUME Init
  PROVE  \A c \in Call : CallInv(c)
<1> SUFFICES ASSUME NEW c \in Call PROVE CallInv(c)
  OBVIOUS
<1>1. /\ pc[c] = "start" /\ seen[c] = None /\ polls[c] = 0 /\ late[c] = FALSE
      /\ reply[c] = "none"
  BY DEF Init
<1>2. 0 <= Max({MaxPolls, Attempts})
  <2>1. Max({MaxPolls, Attempts}) \in Int
    BY Looks, MaxOfTwo
  <2> QED BY <2>1, Looks
<1> QED BY <1>1, <1>2 DEF CallInv, StepInv, FloatingInv, Waiting

(* What a call asks for, in pixels and in the layout's coordinates: only   *)
(* the conversion and the state it is made in count.                       *)
LEMMA ConvertedIsNear ==
  ASSUME TypeOK, \A c \in Call : CallInv(c)
  PROVE  AimedNear
<1>1. ASSUME NEW c \in Call, Converted(c), ToolOf(c) = "move"
      PROVE  MovedNear(c)
  <2>1. goal[c] = UnmapAxis(Layout, ask[c].want, Layout.origin)
    BY <1>1 DEF Converted, Exact
  <2>2. ask[c].want \in Int
    BY <1>1, Planned, LayoutType DEF Converted
  <2> QED BY <2>1, <2>2, MoveIsNear DEF MovedNear
<1>2. ASSUME NEW c \in Call, Converted(c), ToolOf(c) # "move"
      PROVE  ResizedNear(c)
  <2>1. pc[c] = "dispatch" /\ ToolOf(c) = "resize"
    BY <1>2 DEF Converted, ExactTools
  <2>2. goal[c] = UnmapAxis(Layout, ask[c].want, 0)
    BY <1>2 DEF Converted, Exact
  <2>3. ask[c].want \in Int /\ ask[c].want > 0
    BY <2>1, Planned, LayoutType DEF CallInv, StepInv, ExactTools
  <2>4. desk[win[c]].at \in Int
    <3>1. win[c] \in Window
      BY <2>1 DEF CallInv, StepInv
    <3>2. desk[win[c]] \in State
      BY <3>1 DEF TypeOK
    <3> QED BY <3>2, LayoutType DEF State
  <2>5. Awaited(c) = Max({1, goal[c]})
    BY <2>1 DEF Awaited
  <2> QED BY <2>2, <2>3, <2>4, <2>5, ResizeIsNear DEF ResizedNear
<1>3. ASSUME NEW w \in Window PROVE LeadsBack(desk[w].at)
  <2>1. desk[w] \in State
    BY DEF TypeOK
  <2> QED BY <2>1, PixelLeadsBack DEF State
<1> QED BY <1>1, <1>2, <1>3 DEF AimedNear

(* What is said of every call is the invariant of the runs.                *)
LEMMA CallsSuffice ==
  ASSUME TypeOK, \A c \in Call : CallInv(c)
  PROVE  IInv
<1>1. AimedNear
  BY ConvertedIsNear
<1> QED BY <1>1 DEF CallInv, IInv, SeenSinceRequest, DoneIsSeen, BoundedLooks

-----------------------------------------------------------------------------
(* The type invariant and what is said of every call hold of every         *)
(* behaviour: no step of a call, of Hyprland or of anybody else breaks it. *)
THEOREM CallInvariance == Spec => [](TypeOK /\ \A c \in Call : CallInv(c))
<1>1. Init => TypeOK /\ \A c \in Call : CallInv(c)
  BY InitTypes, InitCalls
<1>2. TypeOK /\ (\A c \in Call : CallInv(c)) /\ [Next]_vars
        => TypeOK' /\ \A c \in Call : CallInv(c)'
  BY NextTypes, NextKeeps
<1>3. (\A c \in Call : CallInv(c))' <=> \A c \in Call : CallInv(c)'
  OBVIOUS
<1> QED BY <1>1, <1>2, <1>3, PTL DEF Spec

(* The state keeps its types: the ids of the windows a call holds, the     *)
(* 32-bit coordinates it asks for, and its answers.                        *)
THEOREM TypeCorrect == Spec => []TypeOK
BY CallInvariance, PTL

(* What the next step of every call rests on, together with what follows   *)
(* from it for what a call saw, says, counts and asks for.                 *)
THEOREM Invariance == Spec => []IInv
<1>1. TypeOK /\ (\A c \in Call : CallInv(c)) => IInv
  BY CallsSuffice
<1> QED BY <1>1, CallInvariance, PTL

(* Both at once: a call that says it is done saw what it was asked for,    *)
(* since its request and within its looks, whatever Hyprland, the user and *)
(* other calls did meanwhile; and what it asks for is what its caller      *)
(* wants, to within the rounding (server.rs:3259-3298, hyprland.rs:167-262 *)
(* and 608-636).                                                           *)
THEOREM Consistency == Spec => []Consistent
BY TypeCorrect, Invariance, PTL DEF Consistent

(* A window that floats is changed on its own.                             *)
LEMMA FloatingAlone ==
  ASSUME TypeOK, NEW c \in Call, ToolOf(c) \in ExactTools, ~Tiled(win[c]), CarryOut(c)
  PROVE  \A w \in Window : Tiled(w) => desk'[w] = desk[w]
<1>1. \/ desk' = [desk EXCEPT ![win[c]].at = goal[c]]
      \/ \E a, s : desk' = [desk EXCEPT ![win[c]].size = s, ![win[c]].at = a]
  <2>1. CASE ToolOf(c) = "move"
    BY <2>1 DEF CarryOut, ExactTools, FocusTools
  <2>2. CASE ToolOf(c) = "resize"
    BY <2>2 DEF CarryOut, ExactTools, FocusTools
  <2> QED BY <2>1, <2>2 DEF ExactTools
<1>2. ASSUME NEW w \in Window, w # win[c] PROVE desk'[w] = desk[w]
  BY <1>1, <1>2 DEF TypeOK
<1> QED BY <1>2

(* A step of a call takes back no request of its own, and none of another. *)
LEMMA RequestStays ==
  ASSUME TypeOK, NEW c \in Call, NEW d \in Call, Proceeds(c), late[d]
  PROVE  late'[d]
<1> USE Domains
<1>1. CASE Dispatch(c)
  BY <1>1 DEF Dispatch, TypeOK
<1>2. CASE Stumbles(c)
  BY <1>2 DEF Stumbles, TypeOK
<1>3. CASE ~Dispatch(c) /\ ~Stumbles(c)
  BY <1>3 DEF Proceeds, Gate, List, ReadView, QueryExact, QueryFloat, QuerySend,
     PollFocus, FocusDeadline, PollState, After, PollLaunch, LaunchDeadline
<1> QED BY <1>1, <1>2, <1>3

(* A request to move or resize leaves every tiled window as it is, unless  *)
(* its own window was tiled after it was found floating, or was tiled when *)
(* Hyprland did not say whether it floats (hyprland.rs:710-724): else the  *)
(* request is only made for a window that floats, and what changes that in *)
(* between is noted.                                                       *)
THEOREM LayoutKept == Spec => LayoutUntouched
<1> DEFINE Kept == \A c \in Call :
                     late[c] /\ ~late'[c] /\ ToolOf(c) \in ExactTools /\ ~unsure[c] =>
                       \A w \in Window : Tiled(w) => desk'[w] = desk[w]
<1>1. ASSUME TypeOK, \A c \in Call : CallInv(c), [Next]_vars
      PROVE  Kept
  <2> SUFFICES ASSUME NEW d \in Call, late[d], ~late'[d], ToolOf(d) \in ExactTools,
                      ~unsure[d]
               PROVE  \A w \in Window : Tiled(w) => desk'[w] = desk[w]
    OBVIOUS
  <2>1. ~Tiled(win[d])
    BY <1>1 DEF CallInv, FloatingInv
  <2>2. ASSUME NEW c \in Call, Applied(c) PROVE c = d /\ CarryOut(c)
    BY <1>1, <2>2, Domains DEF Applied
  <2>3. ASSUME NEW c \in Call, Dropped(c) PROVE desk' = desk
    BY <2>3 DEF Dropped, Still
  <2>4. ASSUME NEW c \in Call PROVE ~Proceeds(c)
    BY <1>1, RequestStays
  <2>5. ~Event /\ ~UNCHANGED vars
    BY DEF Event, vars
  <2>6. CASE \E c \in Call : Applied(c)
    BY <1>1, <2>1, <2>2, <2>6, FloatingAlone
  <2>7. CASE \E c \in Call : Dropped(c)
    BY <2>3, <2>7
  <2> QED BY <1>1, <2>4, <2>5, <2>6, <2>7 DEF Next
<1>2. TypeOK /\ (\A c \in Call : CallInv(c)) /\ [Next]_vars => [Kept]_vars
  BY <1>1
<1> QED BY <1>2, CallInvariance, PTL DEF Spec, LayoutUntouched
=============================================================================
