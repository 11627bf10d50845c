------------------------------ MODULE Geometry ------------------------------
(***************************************************************************)
(* The size arithmetic of internal/resizer/resizer.go.                     *)
(*                                                                         *)
(* A size is [w, h] in pixels.  Fractions (v in thousandths) are rounded   *)
(* in float64 by the code: where the exact value lies half way between two *)
(* integers and the float need not be exact, both are possible, so such an *)
(* operator yields a set.                                                  *)
(***************************************************************************)
EXTENDS Integers

Size(w, h) == [w |-> w, h |-> h]

minInt(a, b) == IF a < b THEN a ELSE b

maxInt(a, b) == IF a > b THEN a ELSE b

clamp(v, lo, hi) == IF hi < lo THEN lo ELSE maxInt(lo, minInt(v, hi))

\* math.Round(n/d) where the quotient is exact enough: half goes away from 0.
Round(n, d) == IF n >= 0 THEN (2 * n + d) \div (2 * d) ELSE -((d - 2 * n) \div (2 * d))

\* math.Round of a float that may be off by a few ulps from n/d.
Nearest(n, d) ==
    LET r == Round(n, d) IN {i \in {r, IF n >= 0 THEN r - 1 ELSE r + 1} :
                               -d <= 2 * (i * d - n) /\ 2 * (i * d - n) <= d}

\* Mutant: as computed.
AsComputed(S) == S

AtLeastOne(S) == {maxInt(1, i) : i \in S}

\* 0 is the whole side, less than 1 a fraction of it, the rest is in pixels.
resolveCropDimension(v, src) ==
    IF v = 0 THEN {src}
    ELSE AtLeastOne(IF v < 1000 THEN Nearest(v * src, 1000) ELSE {Round(v, 1000)})

\* Mutant: a derived side may round to 0.
targetDimensionsBare(req, src) ==
    Size(IF req.w = 0 THEN Round(src.w * req.h, src.h) ELSE req.w,
         IF req.h = 0 THEN Round(src.h * req.w, src.w) ELSE req.h)

\* The side that was not asked for follows from the source's ratio.
targetDimensions(req, src) ==
    Size(maxInt(1, IF req.w = 0 THEN Round(src.w * req.h, src.h) ELSE req.w),
         maxInt(1, IF req.h = 0 THEN Round(src.h * req.w, src.w) ELSE req.h))

resolveAuto(src, t) == IF (src.w >= src.h) = (t.w >= t.h) THEN "fill" ELSE "fit"

\* Mutant: enlarges although it must not.
coverScaleUp(src, t, down) ==
    IF t.w * src.h >= t.h * src.w THEN [n |-> t.w, d |-> src.w] ELSE [n |-> t.h, d |-> src.h]

\* fillTo's scale is the fraction [n, d], the larger of t.w/src.w and t.h/src.h.
coverScale(src, t, down) ==
    LET s == IF t.w * src.h >= t.h * src.w THEN [n |-> t.w, d |-> src.w] ELSE [n |-> t.h, d |-> src.h]
    IN  IF down /\ s.n > s.d THEN [n |-> 1, d |-> 1] ELSE s

Scaled(size, s) ==
    [w : AtLeastOne(Nearest(size.w * s.n, s.d)), h : AtLeastOne(Nearest(size.h * s.n, s.d))]

\* Mutant: the box is cut to the available pixels side by side.
fitBoxCut(box, avail) == {Size(minInt(box.w, avail.w), minInt(box.h, avail.h))}

fitBox(box, avail) ==
    IF box.w <= avail.w /\ box.h <= avail.h THEN {box}
    ELSE Scaled(box, IF avail.w * box.h <= avail.h * box.w THEN [n |-> avail.w, d |-> box.w]
                                                           ELSE [n |-> avail.h, d |-> box.h])

\* Mutant: the ratio is taken the other way round.
aspectRatioTargetTurned(curr, req) ==
    IF curr.w * req.w < req.h * curr.h
    THEN {Size(maxInt(curr.w, w), curr.h) : w \in Nearest(curr.h * req.h, req.w)}
    ELSE {Size(curr.w, maxInt(curr.h, h)) : h \in Nearest(curr.w * req.w, req.h)}

\* Grows one side, never shrinks the other.
aspectRatioTarget(curr, req) ==
    IF curr.w * req.h < req.w * curr.h
    THEN {Size(maxInt(curr.w, w), curr.h) : w \in Nearest(curr.h * req.w, req.h)}
    ELSE {Size(curr.w, maxInt(curr.h, h)) : h \in Nearest(curr.w * req.h, req.w)}

\* Mutant: an offset may push the box out.
axisOffsetFree(edge, v, canvas, box) ==
    LET free == canvas - box IN
    CASE edge = "near"  -> {Round(v, 1000)}
      [] edge = "far"   -> {free - Round(v, 1000)}
      [] edge = "mid"   -> {free \div 2 + Round(v, 1000)}
      [] edge = "focus" -> {clamp(r - box \div 2, 0, free) : r \in Nearest(v * canvas, 1000)}

\* One axis of anchorOffset: where a box sits on a canvas, by the edge its
\* gravity names ("near" is left or top), the offset v moving it inward.
axisOffset(edge, v, canvas, box) ==
    LET free == canvas - box IN
    CASE edge = "near"  -> {clamp(Round(v, 1000), 0, free)}
      [] edge = "far"   -> {clamp(free - Round(v, 1000), 0, free)}
      [] edge = "mid"   -> {clamp(free \div 2 + Round(v, 1000), 0, free)}
      [] edge = "focus" -> {clamp(r - box \div 2, 0, free) : r \in Nearest(v * canvas, 1000)}

HorizontalEdge(type) ==
    CASE type \in {"we", "nowe", "sowe"} -> "near" [] type \in {"ea", "noea", "soea"} -> "far"
      [] type = "fp" -> "focus" [] OTHER -> "mid"

VerticalEdge(type) ==
    CASE type \in {"no", "noea", "nowe"} -> "near" [] type \in {"so", "soea", "sowe"} -> "far"
      [] type = "fp" -> "focus" [] OTHER -> "mid"

anchorOffset(g, canvas, box) ==
    [left : axisOffset(HorizontalEdge(g.type), g.x, canvas.w, box.w),
     top  : axisOffset(VerticalEdge(g.type), g.y, canvas.h, box.h)]

-----------------------------------------------------------------------------
(* The legacy pipeline truncates.                                          *)

\* a quotient that float64 holds exactly, for the sizes under study
IsBinary(n, d) == (65536 * n) % d = 0

\* int of a * (n/d) or a / (d/n): unless the inner quotient is exact, a whole
\* number may be missed by one.
Truncated(a, n, d, isExact) ==
    LET q == (a * n) \div d IN IF ~ isExact /\ (a * n) % d = 0 THEN {q - 1, q} ELSE {q}

\* The box given to libvips for a requested size and fit.
legacyBox(req, fit, src) ==
    CASE fit = "contain" /\ req.w > 0 /\ req.h > 0 ->
           LET isExact == IsBinary(src.w, src.h) IN
           IF src.w * req.h > req.w * src.h
           THEN {Size(req.w, h) : h \in Truncated(req.w, src.h, src.w, isExact)}
           ELSE {Size(w, req.h) : w \in Truncated(req.h, src.w, src.h, isExact)}
      [] req.w <= 0 /\ req.h > 0 -> {Size((src.w * req.h) \div src.h, req.h)}
      [] req.h <= 0 /\ req.w > 0 -> {Size(req.w, (src.h * req.w) \div src.w)}
      [] OTHER -> {req}

-----------------------------------------------------------------------------
(* libvips, as the code uses it                                            *)

\* vips_thumbnail into a box: "force" stretches, "cover" fills and crops the
\* centre, "both" and "down" keep the ratio, down never enlarging.
Thumbnail(image, box, how) ==
    LET fits == image.w <= box.w /\ image.h <= box.h
        shorter(n, d) == {maxInt(1, n \div d), maxInt(1, (n + d - 1) \div d)}
    IN
    IF how \in {"force", "cover"} THEN {box}
    ELSE IF how = "down" /\ fits THEN {Size(image.w, image.h)}
    ELSE IF image.w * box.h >= box.w * image.h
    THEN {Size(box.w, h) : h \in shorter(image.h * box.w, image.w)}
    ELSE {Size(w, box.h) : w \in shorter(image.w * box.h, image.h)}
==============================================================================
