--------------------------- MODULE ScreenCapture ----------------------------
(***************************************************************************)
(* What becomes of a picture of the desktop: it is cropped to a window and *)
(* to a region (src/src/server.rs) and shrunk until it fits in a payload   *)
(* (src/src/screenshot.rs); and where a click that is relative to a window *)
(* lands. The two axes are cropped alike and apart, so one of them is      *)
(* modelled; a picture is [from, size]: its pixel i shows the desktop's    *)
(* pixel from + i.                                                         *)
(***************************************************************************)
EXTENDS Integers, FiniteSetsExt

(* A rectangle is [at, size]; an empty one is refused by every user of it. *)
NoRect == [at |-> 0, size |-> 0]

Between(left, right) == IF right <= left THEN NoRect
                        ELSE [at |-> left, size |-> right - left]

(* clip_capture_rect(): what of a rectangle is on a desktop of that size.  *)
Clip(rect, desktop) ==
  Between(Max({rect.at, 0}), Min({rect.at + rect.size, desktop}))

(* crop_png() moves an origin that is before the picture to its start and  *)
(* keeps the size that was asked for.                                      *)
CropPng(picture, rect) ==
  LET at == Max({rect.at, 0})
  IN  IF at >= picture.size THEN [from |-> picture.from, size |-> 0]
      ELSE [from |-> picture.from + at, size |-> Min({rect.size, picture.size - at})]

(* region_crop_rect(): a region of the desktop, or of the window, in the   *)
(* pixels of a picture that has been cropped to crop, if it has been.      *)
RegionCrop(region, relative, crop, captured) ==
  LET at == region.at + (IF relative THEN crop.at ELSE 0) - crop.at
  IN  IF region.size = 0 \/ (relative /\ crop = NoRect) THEN NoRect
      ELSE Between(Max({at, 0}), Min({at + region.size, captured}))

Shifted(rect, by) == [rect EXCEPT !.at = @ + by]

(* focused_window_coordinate_map(): without a known desktop size, which is *)
(* 0 here, the window's rectangle stands as it is.                         *)
ClickMap(bounds, desktop) == IF desktop = 0 THEN bounds ELSE Clip(bounds, desktop)

(* Where the pixel r of a window is clicked, as a set that is empty when   *)
(* the click is refused.                                                   *)
RelativeClick(map, r) == {map.at + i : i \in {r} \cap (0..(map.size - 1))}

(* off_screen_note_for_bounds(): whether a part of the window is not on    *)
(* the desktop.                                                            *)
OffScreen(bounds, desktop) ==
  bounds.size > 0 /\ (Clip(bounds, desktop).size * 100) \div bounds.size < 100

-----------------------------------------------------------------------------
(* target_dimensions(): both sides by the least of the scales, the one     *)
(* that is asked for and those that bring a side down to its maximum; a    *)
(* scale is the fraction num / den.                                        *)
LeastScale(scales) ==
  CHOOSE s \in scales : \A t \in scales : s.num * t.den <= t.num * s.den

Scaled(side, s) == Max({1, Min({side, (2 * side * s.num + s.den) \div (2 * s.den)})})

TargetDimensions(width, height, opts) ==
  LET s == LeastScale({opts.scale, [num |-> 1, den |-> 1],
                       [num |-> opts.width, den |-> width],
                       [num |-> opts.height, den |-> height]})
  IN  <<Scaled(width, s), Scaled(height, s)>>

(* next_dimensions_for_byte_cap(): a side times the root of cap / bytes    *)
(* times 0.9, and at least by 0.1 and at most by 0.95.                     *)
Shrunk(side, bytes, cap) ==
  Max({1} \cup {k \in 1..side : /\ 20 * k <= 19 * side
                                /\ \/ 100 * k * k * bytes <= 81 * side * side * cap
                                   \/ 10 * k <= side})

NextDimensions(dims, bytes, cap) ==
  <<Shrunk(dims[1], bytes, cap), Shrunk(dims[2], bytes, cap)>>
=============================================================================
