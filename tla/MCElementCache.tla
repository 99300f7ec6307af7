--------------------------- MODULE MCElementCache ---------------------------
(* The constants of the TLC runs of ElementCache.                          *)
EXTENDS ElementCache, TLC

CONSTANTS e1, e2, w1, w2, p1, p2

(* An element in each of two windows, each of a process of its own.        *)
TwoWindows == (e1 :> w1) @@ (e2 :> w2)
Apart      == (w1 :> p1) @@ (w2 :> p2)

(* Two elements in the one window there is.                                *)
OneWindow  == (e1 :> w1) @@ (e2 :> w1)
OneProcess == w1 :> p1

(* Nothing tells the origins apart, nor the readers.                       *)
Alike == Permutations(Origin) \cup Permutations(Reader)

(* The wrap of the counter is the last of the indices that are looked at.  *)
BeforeWrap == ~wrapped
=============================================================================
