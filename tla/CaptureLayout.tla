--------------------------- MODULE CaptureLayout ----------------------------
(***************************************************************************)
(* Hyprland's layout coordinates and the pixels of a screenshot            *)
(* (HyprlandCaptureLayout, src/src/windowing/backends/hyprland.rs). All    *)
(* monitors share one origin, their least coordinate, and one scale, the   *)
(* largest, here the fraction num / den. The two axes are alike and do not *)
(* meet, so one of them is modelled.                                       *)
(***************************************************************************)
EXTENDS Integers, FiniteSetsExt

CONSTANT Largest   \* i32::MAX

I32 == (-Largest - 1) .. Largest

Clamped(v) == Min({Max({v, -Largest - 1}), Largest})

(* a / b to the next integer below, above, and the nearest one, halves     *)
(* going away from zero.                                                   *)
Floor(a, b) == a \div b
Ceil(a, b)  == -((-a) \div b)
Round(a, b) == IF a >= 0 THEN (2 * a + b) \div (2 * b) ELSE -((b - 2 * a) \div (2 * b))

(* A monitor is [at, num, den]; a scale that is not positive gives no      *)
(* layout, and no monitors give none either.                               *)
NoLayout == "none"

FromMonitors(monitors) ==
  IF monitors = {} \/ \E m \in monitors : m.num <= 0 THEN NoLayout
  ELSE LET most == CHOOSE m \in monitors :
                     \A n \in monitors : m.num * n.den >= n.num * m.den
       IN  [origin |-> Min({m.at : m \in monitors}), num |-> most.num, den |-> most.den]

(* map_bounds(): where an extent begins and ends in pixels.                *)
MapLow(l, at)        == Floor((at - l.origin) * l.num, l.den)
MapHigh(l, at, size) == Ceil((at + size - l.origin) * l.num, l.den)

(* map_axis() and unmap_axis().                                            *)
MapAxis(l, v)           == Clamped(Round((v - l.origin) * l.num, l.den))
UnmapAxis(l, v, origin) == Clamped(Clamped(Round(v * l.den, l.num)) + origin)
=============================================================================
