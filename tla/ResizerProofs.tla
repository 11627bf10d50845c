---------------------------- MODULE ResizerProofs ----------------------------
(***************************************************************************)
(* Proofs about Resizer: for images, boxes and options of any size, and    *)
(* for every signing configuration; and, first, what the size arithmetic   *)
(* of Geometry guarantees for images and boxes of any size.                *)
(***************************************************************************)
EXTENDS Resizer, ProcOptsProofs

Positive == Nat \ {0}

Sized(x) == x.w \in Positive /\ x.h \in Positive

\* a is no larger than b.
Within(a, b) == a.w <= b.w /\ a.h <= b.h

-----------------------------------------------------------------------------
(* Division and rounding.                                                  *)

LEMMA DivInt ==
    ASSUME NEW a \in Int, NEW d \in Positive
    PROVE  a \div d \in Int /\ d * (a \div d) <= a /\ a < d * (a \div d) + d
BY DEF Positive

LEMMA MulMonotone ==
    ASSUME NEW a \in Int, NEW b \in Int, NEW d \in Nat, a <= b
    PROVE  d * a <= d * b
OBVIOUS

LEMMA MulCancel ==
    ASSUME NEW a \in Int, NEW b \in Int, NEW d \in Positive, d * a < d * b
    PROVE  a < b
BY DEF Positive

\* A quotient is bounded by c if the dividend is by d * c, rounded up or down.
LEMMA DivAtMost ==
    ASSUME NEW a \in Int, NEW c \in Int, NEW d \in Positive, a <= d * c
    PROVE  a \div d <= c /\ (a + d - 1) \div d <= c
<1>1. ASSUME NEW b \in Int, b <= d * c + d - 1 PROVE b \div d <= c
  <2> DEFINE q == b \div d
  <2>1. d * q <= b /\ q \in Int
    BY DivInt
  <2> HIDE DEF q
  <2>2. d * q < d * (c + 1) /\ c + 1 \in Int
    BY <1>1, <2>1 DEF Positive
  <2>3. q < c + 1
    BY <2>1, <2>2, MulCancel
  <2>4. QED
    BY <2>1, <2>3 DEF q
<1>2. a + d - 1 \in Int /\ a <= d * c + d - 1 /\ a + d - 1 <= d * c + d - 1
  BY DEF Positive
<1>3. QED
  BY <1>1, <1>2

LEMMA DivAtLeast ==
    ASSUME NEW a \in Int, NEW c \in Int, NEW d \in Positive, d * c <= a
    PROVE  c <= a \div d
<1> DEFINE q == a \div d
<1>1. a < d * q + d /\ q \in Int
  BY DivInt
<1> HIDE DEF q
<1>2. d * c < d * (q + 1) /\ q + 1 \in Int
  BY <1>1 DEF Positive
<1>3. c < q + 1
  BY <1>1, <1>2, MulCancel
<1>4. QED
  BY <1>1, <1>3 DEF q

LEMMA RoundInt ==
    ASSUME NEW n \in Int, NEW d \in Positive
    PROVE  Round(n, d) \in Int
<1>1. 2 * d \in Positive /\ 2 * n + d \in Int /\ d - 2 * n \in Int
  BY DEF Positive
<1>2. (2 * n + d) \div (2 * d) \in Int /\ (d - 2 * n) \div (2 * d) \in Int
  BY <1>1, DivInt
<1>3. QED
  BY <1>2 DEF Round

\* Every rounding is within one half.
LEMMA NearestBounds ==
    ASSUME NEW n \in Int, NEW d \in Positive, NEW i \in Nearest(n, d)
    PROVE  i \in Int /\ -d <= 2 * (i * d - n) /\ 2 * (i * d - n) <= d
BY RoundInt DEF Nearest

LEMMA NearestAtMost ==
    ASSUME NEW n \in Int, NEW d \in Positive, NEW i \in Nearest(n, d), NEW c \in Int,
           n <= d * c
    PROVE  i <= c
<1>1. i \in Int /\ 2 * (i * d) <= 2 * n + d
  BY NearestBounds DEF Positive
<1>2. d * (2 * i) < d * (2 * c + 2)
  BY <1>1 DEF Positive
<1>3. 2 * i < 2 * c + 2
  BY <1>1, <1>2, MulCancel
<1>4. QED
  BY <1>1, <1>3

LEMMA NearestAtLeast ==
    ASSUME NEW n \in Int, NEW d \in Positive, NEW i \in Nearest(n, d), NEW c \in Int,
           d * c <= n
    PROVE  c <= i
<1>1. i \in Int /\ 2 * n - d <= 2 * (i * d)
  BY NearestBounds DEF Positive
<1>2. d * (2 * c) < d * (2 * i + 2)
  BY <1>1 DEF Positive
<1>3. 2 * c < 2 * i + 2
  BY <1>1, <1>2, MulCancel
<1>4. QED
  BY <1>1, <1>3

LEMMA AtLeastOnePositive ==
    ASSUME NEW S \in SUBSET Int, NEW i \in AtLeastOne(S)
    PROVE  i \in Positive /\ (i \in S \/ i = 1)
BY DEF AtLeastOne, maxInt, Positive

-----------------------------------------------------------------------------
(* Boxes.                                                                  *)

LEMMA ClampInside ==
    ASSUME NEW v \in Int, NEW free \in Nat
    PROVE  clamp(v, 0, free) \in 0 .. free
BY DEF clamp, maxInt, minInt

\* A box that is no larger than a canvas stays on it, whatever gravity asks.
LEMMA OffsetInside ==
    ASSUME NEW edge \in {"near", "far", "mid", "focus"}, NEW v \in Int,
           NEW canvas \in Nat, NEW side \in Nat, side <= canvas,
           NEW at \in axisOffset(edge, v, canvas, side)
    PROVE  at \in 0 .. canvas - side
<1> DEFINE free == canvas - side
<1>1. free \in Nat /\ 1000 \in Positive /\ 2 \in Positive /\ v * canvas \in Int
  BY DEF Positive
<1>2. Round(v, 1000) \in Int /\ free \div 2 \in Int /\ side \div 2 \in Int
  BY <1>1, RoundInt, DivInt
<1>3. \A r \in Nearest(v * canvas, 1000) : r \in Int
  BY <1>1, NearestBounds
<1>4. \E r \in Int : at = clamp(r, 0, free)
  BY <1>2, <1>3 DEF axisOffset
<1>5. QED
  BY <1>1, <1>4, ClampInside

LEMMA AnchorInside ==
    ASSUME NEW g, g.x \in Int, g.y \in Int, NEW canvas, Sized(canvas), NEW side, Sized(side),
           Within(side, canvas), NEW at \in anchorOffset(g, canvas, side)
    PROVE  at.left \in 0 .. canvas.w - side.w /\ at.top \in 0 .. canvas.h - side.h
<1>1. /\ HorizontalEdge(g.type) \in {"near", "far", "mid", "focus"}
      /\ VerticalEdge(g.type) \in {"near", "far", "mid", "focus"}
  BY DEF HorizontalEdge, VerticalEdge
<1>2. /\ canvas.w \in Nat /\ side.w \in Nat /\ side.w <= canvas.w
      /\ canvas.h \in Nat /\ side.h \in Nat /\ side.h <= canvas.h
  BY DEF Sized, Positive, Within
<1>3. /\ at.left \in axisOffset(HorizontalEdge(g.type), g.x, canvas.w, side.w)
      /\ at.top \in axisOffset(VerticalEdge(g.type), g.y, canvas.h, side.h)
  BY DEF anchorOffset
<1>4. QED
  BY <1>1, <1>2, <1>3, OffsetInside

\* A crop dimension is at least one pixel.
LEMMA CropDimension ==
    ASSUME NEW v \in Nat, NEW side \in Positive, NEW c \in resolveCropDimension(v, side)
    PROVE  c \in Positive
<1>1. 1000 \in Positive /\ v * side \in Int /\ v \in Int
  BY DEF Positive
<1>2. Nearest(v * side, 1000) \in SUBSET Int /\ {Round(v, 1000)} \in SUBSET Int
  BY <1>1, NearestBounds, RoundInt
<1>3. QED
  BY <1>2, AtLeastOnePositive DEF resolveCropDimension

\* A side that was asked for is kept, one that was not is at least one pixel.
LEMMA TargetHasSides ==
    ASSUME NEW req \in [w : Nat, h : Nat], NEW src, Sized(src), req # Size(0, 0)
    PROVE  /\ Sized(targetDimensions(req, src))
           /\ req.w > 0 => targetDimensions(req, src).w = req.w
           /\ req.h > 0 => targetDimensions(req, src).h = req.h
<1>1. /\ src.w \in Positive /\ src.h \in Positive
      /\ src.w * req.h \in Int /\ src.h * req.w \in Int
  BY DEF Sized, Positive
<1>2. Round(src.w * req.h, src.h) \in Int /\ Round(src.h * req.w, src.w) \in Int
  BY <1>1, RoundInt
<1>3. QED
  BY <1>2 DEF targetDimensions, Size, Sized, Positive, maxInt

-----------------------------------------------------------------------------
(* Scaling.                                                                *)

\* The ratio of im is that of R up to the rounding of one side.
InRatio(R, im) ==
    LET off == 2 * (im.w * R.h - im.h * R.w) IN
    \/ 1 \in {im.w, im.h}
    \/ -(R.w + R.h) <= off /\ off <= R.w + R.h

LEMMA CoverScale ==
    ASSUME NEW src, Sized(src), NEW t, Sized(t), NEW down \in BOOLEAN
    PROVE  /\ coverScale(src, t, down).n \in Positive /\ coverScale(src, t, down).d \in Positive
           /\ down => coverScale(src, t, down).n <= coverScale(src, t, down).d
BY DEF coverScale, Sized, Positive

LEMMA ScaledSide ==
    ASSUME NEW side \in Positive, NEW n \in Positive, NEW d \in Positive,
           NEW i \in AtLeastOne(Nearest(side * n, d))
    PROVE  i \in Positive /\ (n <= d => i <= side)
<1>1. side * n \in Int
  BY DEF Positive
<1>2. Nearest(side * n, d) \in SUBSET Int
  BY <1>1, NearestBounds
<1>3. i \in Positive /\ (i \in Nearest(side * n, d) \/ i = 1)
  BY <1>2, AtLeastOnePositive
<1>4. n <= d => side * n <= d * side
  BY MulMonotone DEF Positive
<1>5. n <= d /\ i \in Nearest(side * n, d) => i <= side
  BY <1>1, <1>4, NearestAtMost DEF Positive
<1>6. QED
  BY <1>3, <1>5 DEF Positive

LEMMA ScaledSize ==
    ASSUME NEW size, Sized(size), NEW s, s.n \in Positive, s.d \in Positive,
           NEW z \in Scaled(size, s)
    PROVE  Sized(z) /\ (s.n <= s.d => Within(z, size))
<1>1. /\ z \in [w : AtLeastOne(Nearest(size.w * s.n, s.d)),
                h : AtLeastOne(Nearest(size.h * s.n, s.d))]
      /\ size.w \in Positive /\ size.h \in Positive
  BY DEF Scaled, Sized
<1>2. /\ z.w \in Positive /\ (s.n <= s.d => z.w <= size.w)
      /\ z.h \in Positive /\ (s.n <= s.d => z.h <= size.h)
  BY <1>1, ScaledSide
<1>3. QED
  BY <1>1, <1>2 DEF Sized, Within

\* The side x that binds becomes a, the other side y follows.
LEMMA ScaledDown ==
    ASSUME NEW x \in Positive, NEW y \in Positive, NEW a \in Positive, NEW b \in Positive,
           a * y <= b * x, ~ (x <= a /\ y <= b),
           NEW i \in AtLeastOne(Nearest(x * a, x)), NEW j \in AtLeastOne(Nearest(y * a, x))
    PROVE  /\ i = a /\ j \in Positive /\ a <= x /\ j <= y /\ j <= b
           /\ j = 1 \/ (-x <= 2 * (j * x - y * a) /\ 2 * (j * x - y * a) <= x)
<1>1. x * a \in Int /\ y * a \in Int
  BY DEF Positive
<1>2. /\ i \in Positive /\ (i \in Nearest(x * a, x) \/ i = 1)
      /\ j \in Positive /\ (j \in Nearest(y * a, x) \/ j = 1)
  BY <1>1, NearestBounds, AtLeastOnePositive
<1>3. a <= x
  <2> SUFFICES ASSUME a > x PROVE FALSE
    BY DEF Positive
  <2>1. y > b
    BY DEF Positive
  <2>2. x * y >= x * (b + 1) /\ y * a >= y * x
    BY <2>1, MulMonotone DEF Positive
  <2>3. QED
    BY <2>2 DEF Positive
<1>4. ASSUME NEW k \in Nearest(x * a, x) PROVE k = a
  <2>1. k \in Int /\ a \in Int /\ x * a <= x * a
    BY <1>1, NearestBounds DEF Positive
  <2>2. k <= a
    BY <1>1, <2>1, NearestAtMost
  <2>3. a <= k
    BY <1>1, <2>1, NearestAtLeast
  <2>4. QED
    BY <2>1, <2>2, <2>3
<1>5. i = a
  <2>1. PICK k \in Nearest(x * a, x) : i = maxInt(1, k)
    BY DEF AtLeastOne
  <2>2. QED
    BY <1>4, <2>1 DEF maxInt, Positive
<1>6. y * a <= x * b /\ y * a <= x * y
  BY <1>3, MulMonotone DEF Positive
<1>7. j \in Nearest(y * a, x) => j <= b /\ j <= y
  BY <1>1, <1>6, NearestAtMost DEF Positive
<1>8. j \in Nearest(y * a, x) => -x <= 2 * (j * x - y * a) /\ 2 * (j * x - y * a) <= x
  BY <1>1, NearestBounds
<1>9. QED
  BY <1>2, <1>3, <1>5, <1>7, <1>8 DEF Positive

\* What is cut out of a covering image is no larger than the box asked for and
\* than the image, and has the ratio of the box.
LEMMA FitBox ==
    ASSUME NEW frame, Sized(frame), NEW avail, Sized(avail), NEW z \in fitBox(frame, avail)
    PROVE  Sized(z) /\ Within(z, frame) /\ Within(z, avail) /\ InRatio(frame, z)
<1>1. /\ frame.w \in Positive /\ frame.h \in Positive
      /\ avail.w \in Positive /\ avail.h \in Positive
  BY DEF Sized
<1>2. CASE Within(frame, avail)
  <2>1. z = frame
    BY <1>2 DEF fitBox, Within
  <2>2. 2 * (frame.w * frame.h - frame.h * frame.w) = 0
    BY <1>1 DEF Positive
  <2>3. QED
    BY <1>1, <1>2, <2>1, <2>2 DEF Within, InRatio, Positive
<1>3. CASE ~ Within(frame, avail) /\ avail.w * frame.h <= avail.h * frame.w
  <2>1. z \in Scaled(frame, [n |-> avail.w, d |-> frame.w])
    BY <1>3 DEF fitBox, Within
  <2>2. z \in [w : AtLeastOne(Nearest(frame.w * avail.w, frame.w)),
               h : AtLeastOne(Nearest(frame.h * avail.w, frame.w))]
    BY <2>1 DEF Scaled
  <2>3. /\ z.w = avail.w /\ z.h \in Positive /\ avail.w <= frame.w /\ z.h <= frame.h /\ z.h <= avail.h
        /\ \/ z.h = 1
           \/ /\ -frame.w <= 2 * (z.h * frame.w - frame.h * avail.w)
              /\ 2 * (z.h * frame.w - frame.h * avail.w) <= frame.w
    BY <1>1, <1>3, <2>2, ScaledDown DEF Within
  <2>4. InRatio(frame, z)
    BY <1>1, <2>3 DEF InRatio, Positive
  <2>5. QED
    BY <1>1, <2>2, <2>3, <2>4 DEF Within, Sized, Positive
<1>4. CASE ~ Within(frame, avail) /\ ~ (avail.w * frame.h <= avail.h * frame.w)
  <2>1. z \in Scaled(frame, [n |-> avail.h, d |-> frame.h])
    BY <1>4 DEF fitBox, Within
  <2>2. z \in [w : AtLeastOne(Nearest(frame.w * avail.h, frame.h)),
               h : AtLeastOne(Nearest(frame.h * avail.h, frame.h))]
    BY <2>1 DEF Scaled
  <2>3. avail.h * frame.w <= avail.w * frame.h
    BY <1>1, <1>4 DEF Positive
  <2>4. /\ z.h = avail.h /\ z.w \in Positive /\ avail.h <= frame.h /\ z.w <= frame.w /\ z.w <= avail.w
        /\ \/ z.w = 1
           \/ /\ -frame.h <= 2 * (z.w * frame.h - frame.w * avail.h)
              /\ 2 * (z.w * frame.h - frame.w * avail.h) <= frame.h
    BY <1>1, <1>4, <2>2, <2>3, ScaledDown DEF Within
  <2>5. InRatio(frame, z)
    BY <1>1, <2>4 DEF InRatio, Positive
  <2>6. QED
    BY <1>1, <2>2, <2>4, <2>5 DEF Within, Sized, Positive
<1>5. QED
  BY <1>2, <1>3, <1>4

\* The side that grows from cur, the other being x, towards the ratio rx : ry.
LEMMA GrownSide ==
    ASSUME NEW x \in Positive, NEW cur \in Positive, NEW rx \in Positive, NEW ry \in Positive,
           rx * cur <= x * ry, NEW i \in Nearest(x * ry, rx)
    PROVE  /\ i \in Positive /\ cur <= i /\ maxInt(cur, i) = i
           /\ x <= rx => i <= ry
           /\ x = rx /\ cur = ry => i = cur
           /\ -rx <= 2 * (i * rx - x * ry) /\ 2 * (i * rx - x * ry) <= rx
<1>1. x * ry \in Int /\ cur \in Int /\ ry \in Int
  BY DEF Positive
<1>2. i \in Int /\ -rx <= 2 * (i * rx - x * ry) /\ 2 * (i * rx - x * ry) <= rx
  BY <1>1, NearestBounds
<1>3. cur <= i
  BY <1>1, NearestAtLeast
<1>4. x <= rx => x * ry <= rx * ry
  BY MulMonotone DEF Positive
<1>5. x <= rx => i <= ry
  BY <1>1, <1>4, NearestAtMost
<1>6. QED
  BY <1>2, <1>3, <1>5 DEF maxInt, Positive

LEMMA AspectRatio ==
    ASSUME NEW curr, Sized(curr), NEW R, Sized(R), NEW z \in aspectRatioTarget(curr, R)
    PROVE  /\ Sized(z) /\ Within(curr, z) /\ InRatio(R, z)
           /\ Within(curr, R) => Within(z, R)
           /\ curr.w = R.w /\ curr.h = R.h => z.w = R.w /\ z.h = R.h
<1>1. /\ curr.w \in Positive /\ curr.h \in Positive /\ R.w \in Positive /\ R.h \in Positive
  BY DEF Sized
<1>2. CASE curr.w * R.h < R.w * curr.h
  <2>1. PICK w \in Nearest(curr.h * R.w, R.h) : z = Size(maxInt(curr.w, w), curr.h)
    BY <1>2 DEF aspectRatioTarget
  <2>2. R.h * curr.w <= curr.h * R.w
    BY <1>1, <1>2 DEF Positive
  <2>3. /\ w \in Positive /\ curr.w <= w /\ maxInt(curr.w, w) = w
        /\ curr.h <= R.h => w <= R.w
        /\ curr.h = R.h /\ curr.w = R.w => w = curr.w
        /\ -R.h <= 2 * (w * R.h - curr.h * R.w) /\ 2 * (w * R.h - curr.h * R.w) <= R.h
    BY <1>1, <2>2, GrownSide
  <2>4. z.w = w /\ z.h = curr.h /\ z = [w |-> w, h |-> curr.h]
    BY <2>1, <2>3 DEF Size
  <2>5. InRatio(R, z)
    BY <1>1, <2>3, <2>4 DEF InRatio, Positive
  <2>6. Sized(z)
    BY <1>1, <2>3, <2>4 DEF Sized
  <2>7. curr.w = R.w /\ curr.h = R.h => z.w = R.w /\ z.h = R.h
    BY <2>3, <2>4
  <2>8. QED
    BY <1>1, <2>3, <2>4, <2>5, <2>6, <2>7 DEF Within, Positive
<1>3. CASE ~ (curr.w * R.h < R.w * curr.h)
  <2>1. PICK h \in Nearest(curr.w * R.h, R.w) : z = Size(curr.w, maxInt(curr.h, h))
    BY <1>3 DEF aspectRatioTarget
  <2>2. R.w * curr.h <= curr.w * R.h
    BY <1>1, <1>3 DEF Positive
  <2>3. /\ h \in Positive /\ curr.h <= h /\ maxInt(curr.h, h) = h
        /\ curr.w <= R.w => h <= R.h
        /\ curr.w = R.w /\ curr.h = R.h => h = curr.h
        /\ -R.w <= 2 * (h * R.w - curr.w * R.h) /\ 2 * (h * R.w - curr.w * R.h) <= R.w
    BY <1>1, <2>2, GrownSide
  <2>4. z.w = curr.w /\ z.h = h /\ z = [w |-> curr.w, h |-> h]
    BY <2>1, <2>3 DEF Size
  <2>5. InRatio(R, z)
    BY <1>1, <2>3, <2>4 DEF InRatio, Positive
  <2>6. Sized(z)
    BY <1>1, <2>3, <2>4 DEF Sized
  <2>7. curr.w = R.w /\ curr.h = R.h => z.w = R.w /\ z.h = R.h
    BY <2>3, <2>4
  <2>8. QED
    BY <1>1, <2>3, <2>4, <2>5, <2>6, <2>7 DEF Within, Positive
<1>4. QED
  BY <1>2, <1>3

-----------------------------------------------------------------------------
(* libvips and the boxes it is given.                                      *)

\* The shorter side of a thumbnail: image sides x (that binds) and y, box a, b.
LEMMA ShorterSide ==
    ASSUME NEW x \in Positive, NEW y \in Positive, NEW a \in Positive, NEW b \in Positive,
           a * y <= x * b,
           NEW s \in {maxInt(1, (y * a) \div x), maxInt(1, (y * a + x - 1) \div x)}
    PROVE  s \in Positive /\ s <= b /\ (a <= x => s <= y)
<1>1. /\ y * a \in Int /\ y * a + x - 1 \in Int /\ b \in Int /\ y \in Int
      /\ y * a <= x * b
  BY DEF Positive
<1>2. (y * a) \div x \in Int /\ (y * a + x - 1) \div x \in Int
  BY <1>1, DivInt
<1>3. (y * a) \div x <= b /\ (y * a + x - 1) \div x <= b
  BY <1>1, DivAtMost
<1>4. a <= x => y * a <= x * y
  BY MulMonotone DEF Positive
<1>5. a <= x => (y * a) \div x <= y /\ (y * a + x - 1) \div x <= y
  BY <1>1, <1>4, DivAtMost
<1>6. QED
  BY <1>2, <1>3, <1>5 DEF maxInt, Positive

\* If the whole does not fit, the side that binds is no larger than the image's.
LEMMA BindingSide ==
    ASSUME NEW x \in Positive, NEW y \in Positive, NEW a \in Positive, NEW b \in Positive,
           a * y <= x * b, ~ (x <= a /\ y <= b)
    PROVE  a <= x
<1> SUFFICES ASSUME x < a PROVE FALSE
  BY DEF Positive
<1>1. b + 1 <= y /\ x + 1 <= a
  BY DEF Positive
<1>2. x * (b + 1) <= x * y /\ y * (x + 1) <= y * a
  BY <1>1, MulMonotone DEF Positive
<1>3. QED
  BY <1>2 DEF Positive

\* A thumbnail stays within its box, and with "down" within the image.
LEMMA ThumbnailFits ==
    ASSUME NEW pic, Sized(pic), NEW frame, Sized(frame), NEW how, NEW z \in Thumbnail(pic, frame, how)
    PROVE  /\ Sized(z) /\ Within(z, frame)
           /\ how \in {"force", "cover"} => z = frame
           /\ how = "down" => Within(z, pic)
<1>1. /\ pic.w \in Positive /\ pic.h \in Positive /\ frame.w \in Positive /\ frame.h \in Positive
  BY DEF Sized
<1>2. CASE how \in {"force", "cover"}
  BY <1>1, <1>2 DEF Thumbnail, Within, Positive
<1>3. CASE how = "down" /\ Within(pic, frame)
  <2>1. z = Size(pic.w, pic.h)
    BY <1>3 DEF Thumbnail, Within
  <2>2. QED
    BY <1>1, <1>3, <2>1 DEF Size, Sized, Within, Positive
<1>4. CASE /\ how \notin {"force", "cover"} /\ ~ (how = "down" /\ Within(pic, frame))
           /\ pic.w * frame.h >= frame.w * pic.h
  <2>1. PICK h \in {maxInt(1, (pic.h * frame.w) \div pic.w),
                    maxInt(1, (pic.h * frame.w + pic.w - 1) \div pic.w)} :
          z = Size(frame.w, h)
    BY <1>4 DEF Thumbnail, Within
  <2>2. frame.w * pic.h <= pic.w * frame.h
    BY <1>1, <1>4 DEF Positive
  <2>3. h \in Positive /\ h <= frame.h /\ (frame.w <= pic.w => h <= pic.h)
    BY <1>1, <2>2, ShorterSide
  <2>4. how = "down" => frame.w <= pic.w
    BY <1>1, <1>4, <2>2, BindingSide DEF Within
  <2>5. QED
    BY <1>1, <1>4, <2>1, <2>3, <2>4 DEF Size, Sized, Within, Positive
<1>5. CASE /\ how \notin {"force", "cover"} /\ ~ (how = "down" /\ Within(pic, frame))
           /\ ~ (pic.w * frame.h >= frame.w * pic.h)
  <2>1. PICK w \in {maxInt(1, (pic.w * frame.h) \div pic.h),
                    maxInt(1, (pic.w * frame.h + pic.h - 1) \div pic.h)} :
          z = Size(w, frame.h)
    BY <1>5 DEF Thumbnail, Within
  <2>2. frame.h * pic.w <= pic.h * frame.w
    BY <1>1, <1>5 DEF Positive
  <2>3. w \in Positive /\ w <= frame.w /\ (frame.h <= pic.h => w <= pic.w)
    BY <1>1, <2>2, ShorterSide
  <2>4. how = "down" => frame.h <= pic.h
    BY <1>1, <1>5, <2>2, BindingSide DEF Within
  <2>5. QED
    BY <1>1, <1>5, <2>1, <2>3, <2>4 DEF Size, Sized, Within, Positive
<1>6. QED
  BY <1>2, <1>3, <1>4, <1>5

\* A truncated quotient, perhaps missed by one, is bounded, and 0 only if the
\* quotient is at most 1.
LEMMA TruncatedSide ==
    ASSUME NEW a \in Positive, NEW n \in Positive, NEW d \in Positive, NEW isExact \in BOOLEAN,
           NEW c \in Positive, a * n <= d * c, NEW t \in Truncated(a, n, d, isExact)
    PROVE  t \in Nat /\ t <= c /\ (t = 0 => a * n <= d)
<1> DEFINE q == (a * n) \div d
<1>1. /\ a * n \in Int /\ c \in Int /\ 0 < a * n
  BY MulMonotone DEF Positive
<1>2. q \in Int /\ d * q <= a * n /\ a * n < d * q + d
  BY <1>1, DivInt
<1>3. q <= c
  BY <1>1, DivAtMost
<1>4. 0 <= q
  BY <1>1, DivAtLeast DEF Positive
<1>5. t = q \/ (t = q - 1 /\ (a * n) % d = 0)
  BY DEF Truncated
<1>6. (a * n) % d = 0 => a * n = d * q
  BY <1>1 DEF Positive
<1> HIDE DEF q
<1>7. t = q - 1 => 0 < q
  BY <1>1, <1>2, <1>4, <1>5, <1>6 DEF Positive
<1>8. t \in Nat /\ t <= c
  BY <1>1, <1>2, <1>3, <1>4, <1>5, <1>7
<1>9. t = 0 => a * n <= d
  <2>1. CASE t = q
    BY <1>2, <2>1 DEF Positive
  <2>2. CASE t = q - 1 /\ (a * n) % d = 0
    BY <1>2, <1>6, <2>2 DEF Positive
  <2>3. QED
    BY <1>5, <2>1, <2>2
<1>10. QED
  BY <1>8, <1>9

\* The box of a legacy URL is no larger than what was asked for, and lacks a side
\* only if the true one is at most one pixel.
LEMMA LegacyBox ==
    ASSUME NEW R \in [w : Nat, h : Nat], NEW fit, NEW src, Sized(src), NEW b \in legacyBox(R, fit, src)
    PROVE  /\ b.w \in Nat /\ b.h \in Nat
           /\ fit = "contain" /\ R.w > 0 /\ R.h > 0 =>
                Within(b, R) /\ (b.h = 0 => b.w = R.w) /\ ~ (b.w = 0 /\ b.h = 0)
           /\ fit # "contain" /\ R.w > 0 /\ R.h > 0 => b = R
           /\ R # Size(0, 0) => /\ b.w = 0 => R.h * src.w <= src.h
                                /\ b.h = 0 => R.w * src.h <= src.w
<1>1. src.w \in Positive /\ src.h \in Positive /\ R.w \in Nat /\ R.h \in Nat
  BY DEF Sized
<1>2. CASE fit = "contain" /\ R.w > 0 /\ R.h > 0 /\ src.w * R.h > R.w * src.h
  <2>1. PICK h \in Truncated(R.w, src.h, src.w, IsBinary(src.w, src.h)) : b = Size(R.w, h)
    BY <1>2 DEF legacyBox
  <2>2. /\ R.w \in Positive /\ R.h \in Positive /\ R.w * src.h <= src.w * R.h
        /\ IsBinary(src.w, src.h) \in BOOLEAN
    BY <1>1, <1>2 DEF Positive, IsBinary
  <2>3. h \in Nat /\ h <= R.h /\ (h = 0 => R.w * src.h <= src.w)
    BY <1>1, <2>2, TruncatedSide
  <2>4. QED
    BY <1>1, <1>2, <2>1, <2>3 DEF Size, Within
<1>3. CASE fit = "contain" /\ R.w > 0 /\ R.h > 0 /\ ~ (src.w * R.h > R.w * src.h)
  <2>1. PICK w \in Truncated(R.h, src.w, src.h, IsBinary(src.w, src.h)) : b = Size(w, R.h)
    BY <1>3 DEF legacyBox
  <2>2. /\ R.w \in Positive /\ R.h \in Positive /\ R.h * src.w <= src.h * R.w
        /\ IsBinary(src.w, src.h) \in BOOLEAN
    BY <1>1, <1>3 DEF Positive, IsBinary
  <2>3. w \in Nat /\ w <= R.w /\ (w = 0 => R.h * src.w <= src.h)
    BY <1>1, <2>2, TruncatedSide
  <2>4. QED
    BY <1>1, <1>3, <2>1, <2>3 DEF Size, Within
<1>4. CASE R.w <= 0 /\ R.h > 0
  <2> DEFINE q == (src.w * R.h) \div src.h
  <2>1. b = Size(q, R.h)
    BY <1>4 DEF legacyBox
  <2>2. src.w * R.h \in Int /\ 0 \in Int /\ src.h * 0 <= src.w * R.h
    BY <1>1, MulMonotone DEF Positive
  <2>a. 0 <= q
    BY <1>1, <2>2, DivAtLeast
  <2>3. q \in Int /\ src.w * R.h < src.h * q + src.h
    BY <1>1, <2>2, DivInt
  <2> HIDE DEF q
  <2>4. QED
    BY <1>1, <1>4, <2>1, <2>a, <2>3 DEF Size, Positive
<1>5. CASE R.h <= 0 /\ R.w > 0
  <2> DEFINE q == (src.h * R.w) \div src.w
  <2>1. b = Size(R.w, q)
    BY <1>5 DEF legacyBox
  <2>2. src.h * R.w \in Int /\ 0 \in Int /\ src.w * 0 <= src.h * R.w
    BY <1>1, MulMonotone DEF Positive
  <2>a. 0 <= q
    BY <1>1, <2>2, DivAtLeast
  <2>3. q \in Int /\ src.h * R.w < src.w * q + src.w
    BY <1>1, <2>2, DivInt
  <2> HIDE DEF q
  <2>4. QED
    BY <1>1, <1>5, <2>1, <2>a, <2>3 DEF Size, Positive
<1>6. CASE ~ (fit = "contain" /\ R.w > 0 /\ R.h > 0) /\ (R.w > 0 <=> R.h > 0)
  <2>1. b = R
    BY <1>1, <1>6 DEF legacyBox
  <2>2. R # Size(0, 0) => R.w > 0 /\ R.h > 0
    BY <1>1, <1>6 DEF Size
  <2>3. QED
    BY <1>1, <1>6, <2>1, <2>2
<1>7. QED
  BY <1>1, <1>2, <1>3, <1>4, <1>5, <1>6

\* An image too flat for its truncated height keeps one pixel of it.
LEMMA FlatThumbnail ==
    ASSUME NEW pic, Sized(pic), NEW a \in Positive, a * pic.h <= pic.w,
           NEW z \in Thumbnail(pic, Size(a, a), "both")
    PROVE  z.w = a /\ z.h = 1
<1>1. pic.w \in Positive /\ pic.h \in Positive
  BY DEF Sized
<1>2. pic.h * a <= pic.w /\ pic.h <= pic.w
  BY <1>1 DEF Positive
<1>3. pic.w * a >= a * pic.h
  BY <1>1, <1>2, MulMonotone DEF Positive
<1>4. /\ pic.h * a \in Int /\ 1 \in Int /\ pic.h * a <= pic.w * 1
  BY <1>1, <1>2 DEF Positive
<1>5. (pic.h * a) \div pic.w <= 1 /\ (pic.h * a + pic.w - 1) \div pic.w <= 1
  BY <1>1, <1>4, DivAtMost
<1>6. (pic.h * a) \div pic.w \in Int /\ (pic.h * a + pic.w - 1) \div pic.w \in Int
  <2>1. pic.h * a + pic.w - 1 \in Int
    BY <1>1, <1>4 DEF Positive
  <2>2. QED
    BY <1>1, <1>4, <2>1, DivInt
<1>7. PICK h \in {maxInt(1, (pic.h * a) \div pic.w),
                  maxInt(1, (pic.h * a + pic.w - 1) \div pic.w)} : z = Size(a, h)
  BY <1>1, <1>3 DEF Thumbnail, Size
<1>8. h = 1
  BY <1>5, <1>6, <1>7 DEF maxInt
<1>9. QED
  BY <1>7, <1>8 DEF Size

-----------------------------------------------------------------------------
(* The inductive invariant: what an image has become at each stage.        *)

\* The stage whose work is done, "encode" once the answer is on its way.
Where == IF stage = "done" /\ reply = 200 THEN "encode" ELSE stage

Both(R) == R.w > 0 /\ R.h > 0

Fits(R, im) == (R.w > 0 => im.w <= R.w) /\ (R.h > 0 => im.h <= R.h)

Lands(R, im) == im.w = R.w /\ im.h = R.h

Resizing(o) == EffectiveResizingType(o)

Padded == {"extend_aspect_ratio", "background", "encode"}

ParamStages ==
    {"gates", "crop", "resize", "extend", "done", "untouched"} \union Padded

LegacyStages == {"thumbnail", "pad", "flatten", "encode", "done"}

\* What was asked for of the size is already true, and stays so.
SizeOK(s, im, o, src, R) ==
    /\ s \in {"gates", "crop"} => im = src
    /\ s = "resize" => Within(im, src)
    /\ s \in {"extend"} \union Padded =>
         /\ Fits(R, im)
         /\ Both(R) /\ Resizing(o) = "force" => Lands(R, im)
         /\ Both(R) /\ Resizing(o) \in {"fill", "fill-down"} => InRatio(R, im)
         /\ \/ o.enlarge \/ Resizing(o) = "force" \/ Within(im, src)
            \/ s \in Padded /\ o.extend.enabled
            \/ s \in {"background", "encode"} /\ o.extend_aspect_ratio.enabled
    /\ s \in Padded /\ o.extend.enabled /\ Both(R) => Lands(R, im)
    /\ s \in {"background", "encode"} /\ o.extend_aspect_ratio.enabled /\ Both(R) =>
         InRatio(R, im)

\* And of transparency: a pad may add it, the background stage decides.
AlphaOK(s, im, src, pad) ==
    /\ s \in {"resize", "extend"} => im.alpha = src.alpha
    /\ s \in {"extend_aspect_ratio", "background"} =>
         (src.alpha => im.alpha) /\ (im.alpha => src.alpha \/ pad)
    /\ s = "encode" => (im.alpha => pad) /\ (src.alpha /\ pad => im.alpha)

LegacyOK(s, im, fit, src, R, keep) ==
    /\ s = "thumbnail" => im = src
    /\ s = "pad" /\ Both(R) => /\ fit = "contain" => Within(im, R)
                               /\ fit = "cover" => Lands(R, im)
    /\ s \in {"flatten", "encode"} /\ Both(R) /\ fit \in {"contain", "cover"} => Lands(R, im)
    /\ s \in {"pad", "flatten"} => im.alpha = src.alpha
    /\ s = "encode" => (im.alpha <=> src.alpha /\ keep)

Keep == effectiveKeepAlpha(request.alpha, source.svg, Format)

\* Whoever got past the gates holds a good signature.
SignedOK ==
    \/ isSigned
    \/ reply \in {0, 403, 404} /\ stage \in {"gates", "done"} /\ image = source

ResizerInv ==
    /\ TypeOK /\ AreasInside /\ BoxesHaveSides
    /\ isLegacy => stage \in LegacyStages /\ LegacyOK(Where, image, request.fit, source, Requested, Keep)
    /\ ~ isLegacy =>
         /\ stage \in ParamStages /\ SignedOK
         /\ Where \notin {"gates", "done", "untouched"} => Validate(options, MaxDimension)
         /\ SizeOK(Where, image, options, source, Requested)
         /\ AlphaOK(Where, image, source, PadIsTransparent)

-----------------------------------------------------------------------------
(* Types.                                                                  *)

LEMMA SourceType ==
    ASSUME TypeOK
    PROVE  /\ source \in ImageRecord /\ image \in ImageRecord
           /\ Sized(source) /\ Sized(image)
BY ResizerAssumption DEF TypeOK, ImageRecord, Sized, Positive

LEMMA OptionTypes ==
    ASSUME NEW o \in OptionRecord
    PROVE  /\ o.width \in Nat /\ o.height \in Nat
           /\ o.enlarge \in BOOLEAN
           /\ o.extend.enabled \in BOOLEAN /\ o.extend_aspect_ratio.enabled \in BOOLEAN
           /\ o.gravity.x \in Int /\ o.gravity.y \in Int
           /\ o.extend.gravity.x \in Int /\ o.extend.gravity.y \in Int
           /\ o.extend_aspect_ratio.gravity.x \in Int /\ o.extend_aspect_ratio.gravity.y \in Int
           /\ o.crop.width \in Nat /\ o.crop.height \in Nat
           /\ o.crop.gravity.x \in Int /\ o.crop.gravity.y \in Int
<1>1. o.extend \in Extension /\ o.extend_aspect_ratio \in Extension /\ o.gravity \in Gravity
  BY DEF OptionRecord
<1>2. o.crop \in [width : Nat, height : Nat, gravity : Gravity]
  BY DEF OptionRecord
<1>3. o.extend.gravity \in Gravity /\ o.extend_aspect_ratio.gravity \in Gravity
      /\ o.crop.gravity \in Gravity
  BY <1>1, <1>2 DEF Extension
<1>4. \A g \in Gravity : g.x \in Int /\ g.y \in Int
  BY DEF Gravity
<1>5. o.width \in Nat /\ o.height \in Nat /\ o.enlarge \in BOOLEAN
  BY DEF OptionRecord
<1>6. QED
  BY <1>1, <1>2, <1>3, <1>4, <1>5 DEF Extension

LEMMA NoOptionsType ==
    NoOptions \in OptionRecord
<1>1. NoGravity \in Gravity
  BY DEF NoGravity, Gravity
<1>2. NoExtend \in Extension /\ NoCrop \in [width : Nat, height : Nat, gravity : Gravity]
  BY <1>1 DEF NoExtend, NoCrop, Extension
<1>3. << >> \in Seq(Int) /\ {} \in SUBSET STRING
  OBVIOUS
<1>4. QED
  BY <1>1, <1>2, <1>3 DEF NoOptions, OptionRecord

LEMMA RequestedType ==
    ASSUME TypeOK
    PROVE  Requested \in [w : Nat, h : Nat]
<1>1. CASE isLegacy
  <2>1. request \in LegacyJobs
    BY <1>1, ResizerAssumption DEF TypeOK, isLegacy
  <2>2. request.w \in Nat /\ request.h \in Nat
    BY <2>1, ResizerAssumption
  <2>3. QED
    BY <1>1, <2>2 DEF Requested, Size
<1>2. CASE ~ isLegacy
  BY <1>2, OptionTypes DEF TypeOK, Requested, Size
<1>3. QED
  BY <1>1, <1>2

\* What an action that only works on the image leaves alone.
LEMMA SameRequest ==
    ASSUME UNCHANGED <<verifier, request, source, options>>
    PROVE  /\ isLegacy' = isLegacy /\ Requested' = Requested /\ Format' = Format
           /\ PadIsTransparent' = PadIsTransparent /\ Keep' = Keep /\ isSigned' = isSigned
<1>1. isLegacy' = isLegacy
  BY DEF isLegacy
<1>2. Requested' = Requested /\ Format' = Format
  BY <1>1 DEF Requested, Format
<1>3. PadIsTransparent' = PadIsTransparent /\ Keep' = Keep
  BY <1>2 DEF PadIsTransparent, Keep
<1>4. isSigned' = isSigned
  BY DEF isSigned
<1>5. QED
  BY <1>1, <1>2, <1>3, <1>4

LEMMA ResizedImage ==
    ASSUME TypeOK, NEW STATE size, Sized(size), Resized(size)
    PROVE  /\ image' \in ImageRecord /\ image'.alpha = image.alpha
           /\ image'.w = size.w /\ image'.h = size.h
BY SourceType DEF Resized, ImageRecord, Sized, Positive

-----------------------------------------------------------------------------
(* Shapes of steps.                                                        *)

\* p lies inside its canvas.
Inside(p) ==
    /\ p.left >= 0 /\ p.left + p.inner.w <= p.outer.w
    /\ p.top >= 0 /\ p.top + p.inner.h <= p.outer.h
    /\ p.inner.w > 0 /\ p.inner.h > 0

\* A step of the processing pipeline that leaves a typed image inside its canvas
\* and keeps what holds of it.
LEMMA ParamStep ==
    ASSUME ResizerInv, ~ isLegacy, UNCHANGED <<verifier, request, source, options, reply>>,
           stage \in {"crop", "resize", "extend", "extend_aspect_ratio", "background"},
           stage' \in {"resize", "extend"} \union Padded,
           image' \in ImageRecord, Inside(placed'), box'.w \in Positive, box'.h \in Positive,
           SizeOK(stage', image', options, source, Requested),
           AlphaOK(stage', image', source, PadIsTransparent)
    PROVE  ResizerInv'
<1>1. /\ isLegacy' = isLegacy /\ Requested' = Requested /\ isSigned' = isSigned
      /\ PadIsTransparent' = PadIsTransparent
  BY SameRequest
<1>2. reply = 0 /\ reply' = 0
  BY DEF ResizerInv, TypeOK
<1>3. Where = stage /\ Where' = stage'
  BY <1>2 DEF Where
<1>4. TypeOK'
  <2>1. verifier' = verifier /\ request' = request /\ source' = source /\ options' = options
    OBVIOUS
  <2>2. stage' \notin {"done", "untouched"} /\ box'.w \in Nat /\ box'.h \in Nat
    BY DEF Padded, Positive
  <2>3. QED
    BY <1>2, <2>1, <2>2 DEF ResizerInv, TypeOK
<1>5. AreasInside'
  BY DEF AreasInside, Inside
<1>6. BoxesHaveSides'
  BY <1>1 DEF BoxesHaveSides, Positive
<1>7. stage' \in ParamStages
  BY DEF ParamStages, Padded
<1>8. isSigned /\ Validate(options, MaxDimension)
  BY <1>3 DEF ResizerInv, SignedOK
<1>9. SizeOK(Where', image', options', source', Requested') /\ AlphaOK(Where', image', source', PadIsTransparent')
  BY <1>1, <1>3
<1>10. SignedOK' /\ Validate(options', MaxDimension)
  BY <1>1, <1>8 DEF SignedOK
<1>11. QED
  BY <1>1, <1>4, <1>5, <1>6, <1>7, <1>9, <1>10 DEF ResizerInv

LEMMA LegacyStep ==
    ASSUME ResizerInv, isLegacy, UNCHANGED <<verifier, request, source, options, reply>>,
           stage \in {"thumbnail", "pad", "flatten"}, stage' \in {"pad", "flatten", "encode"},
           image' \in ImageRecord, Inside(placed'), box'.w \in Nat, box'.h \in Nat,
           Requested # Size(0, 0) => /\ box'.w = 0 => Requested.h * source.w <= source.h
                                     /\ box'.h = 0 => Requested.w * source.h <= source.w,
           LegacyOK(stage', image', request.fit, source, Requested, Keep)
    PROVE  ResizerInv'
<1>1. isLegacy' = isLegacy /\ Requested' = Requested /\ Keep' = Keep
  BY SameRequest
<1>2. reply = 0 /\ reply' = 0
  BY DEF ResizerInv, TypeOK
<1>3. Where' = stage'
  BY <1>2 DEF Where
<1>4. TypeOK'
  BY <1>2 DEF ResizerInv, TypeOK
<1>5. AreasInside'
  BY DEF AreasInside, Inside
<1>6. BoxesHaveSides'
  BY <1>1 DEF BoxesHaveSides
<1>7. stage' \in LegacyStages
  BY DEF LegacyStages
<1>8. LegacyOK(Where', image', request'.fit, source', Requested', Keep')
  BY <1>1, <1>3
<1>9. QED
  BY <1>1, <1>4, <1>5, <1>6, <1>7, <1>8 DEF ResizerInv

\* The answer is given; at most the box is another.
LEMMA AnswerWithBox ==
    ASSUME ResizerInv, NEW status \in {200, 400, 403, 404, 500}, Answer(status),
           UNCHANGED <<image, placed>>, box'.w \in Nat, box'.h \in Nat, BoxesHaveSides',
           stage # "done", status = 200 => stage = "encode",
           stage = "gates" => isSigned \/ status \in {403, 404}
    PROVE  ResizerInv'
<1>1. UNCHANGED <<verifier, request, source, options, image, placed>> /\ reply' = status /\ stage' = "done"
  BY DEF Answer
<1>2. /\ isLegacy' = isLegacy /\ Requested' = Requested /\ isSigned' = isSigned
      /\ PadIsTransparent' = PadIsTransparent /\ Keep' = Keep
  BY <1>1, SameRequest
<1>3. TypeOK'
  BY <1>1 DEF ResizerInv, TypeOK
<1>4. AreasInside' /\ BoxesHaveSides'
  BY <1>1, <1>2 DEF ResizerInv, AreasInside
<1>5. Where' = (IF status = 200 THEN "encode" ELSE "done")
  BY <1>1 DEF Where
<1>6. CASE status = 200
  <2>1. Where = "encode" /\ Where' = "encode" /\ stage' \in LegacyStages /\ stage' \in ParamStages
    BY <1>1, <1>5, <1>6 DEF Where, LegacyStages, ParamStages
  <2>2. ~ isLegacy => isSigned
    BY <1>6 DEF ResizerInv, SignedOK
  <2>3. ~ isLegacy' => SignedOK'
    BY <1>2, <2>2 DEF SignedOK
  <2>4. QED
    BY <1>1, <1>2, <1>3, <1>4, <2>1, <2>3 DEF ResizerInv
<1>7. CASE status # 200
  <2>1. Where' = "done" /\ stage' \in LegacyStages /\ stage' \in ParamStages
    BY <1>1, <1>5, <1>7 DEF LegacyStages, ParamStages
  <2>2. LegacyOK(Where', image', request'.fit, source', Requested', Keep')
    BY <2>1 DEF LegacyOK
  <2>3. /\ SizeOK(Where', image', options', source', Requested')
        /\ AlphaOK(Where', image', source', PadIsTransparent')
    BY <2>1 DEF SizeOK, AlphaOK, Padded
  <2>4. ~ isLegacy' => SignedOK'
    <3>1. CASE ~ isLegacy /\ stage = "gates" /\ ~ isSigned
      <4>1. Where = "gates" /\ image = source
        BY <3>1 DEF Where, ResizerInv, SizeOK
      <4>2. QED
        BY <1>1, <1>2, <3>1, <4>1 DEF SignedOK
    <3>2. CASE ~ isLegacy /\ isSigned
      BY <1>2, <3>2 DEF SignedOK
    <3>3. CASE ~ isLegacy /\ stage # "gates" /\ ~ isSigned
      BY <3>3 DEF SignedOK, ResizerInv
    <3>4. QED
      BY <1>2, <3>1, <3>2, <3>3
  <2>5. QED
    BY <1>2, <1>3, <1>4, <2>1, <2>2, <2>3, <2>4 DEF ResizerInv
<1>8. QED
  BY <1>6, <1>7

LEMMA AnswerStep ==
    ASSUME ResizerInv, NEW status \in {200, 400, 403, 404, 500}, Answer(status),
           UNCHANGED <<image, placed, box>>,
           stage # "done", status = 200 => stage = "encode",
           stage = "gates" => isSigned \/ status \in {403, 404}
    PROVE  ResizerInv'
<1>1. isLegacy' = isLegacy /\ Requested' = Requested
  BY SameRequest DEF Answer
<1>2. BoxesHaveSides' /\ box'.w \in Nat /\ box'.h \in Nat
  BY <1>1 DEF ResizerInv, BoxesHaveSides, TypeOK, Answer
<1>3. QED
  BY <1>2, AnswerWithBox

-----------------------------------------------------------------------------
(* The gates.                                                              *)

LEMMA VerdictKnown ==
    ASSUME NEW segments, NEW good \in BOOLEAN, NEW max
    PROVE  /\ Verdict(segments, good, max) \in {200, 400, 403, 404}
           /\ ~ good => Verdict(segments, good, max) \in {403, 404}
           /\ Verdict(segments, good, max) = 200 =>
                good /\ \A o \in ParseOptions(segments) : Validate(o, max)
BY DEF Verdict

LEMMA SignedIsBoolean == isSigned \in BOOLEAN
BY DEF isSigned, Verify

LEMMA GatesStep ==
    ASSUME ResizerInv, RouteIsOff \/ Refuse
    PROVE  ResizerInv'
<1>1. CASE RouteIsOff
  BY <1>1, AnswerStep DEF RouteIsOff
<1>2. CASE Refuse
  <2>1. PICK status \in {Verdict(request.segments, isSigned, MaxDimension)} \ {200} : Answer(status)
    BY <1>2 DEF Refuse
  <2> DEFINE verdict == Verdict(request.segments, isSigned, MaxDimension)
  <2>a. verdict \in {200, 400, 403, 404} /\ (~ isSigned => verdict \in {403, 404})
    BY SignedIsBoolean, VerdictKnown
  <2>b. status = verdict /\ status # 200
    BY <2>1
  <2> HIDE DEF verdict
  <2>2. status \in {200, 400, 403, 404, 500} /\ status # 200 /\ (isSigned \/ status \in {403, 404})
    BY <2>a, <2>b
  <2>3. stage = "gates" /\ UNCHANGED <<image, placed, box>>
    BY <1>2 DEF Refuse
  <2>4. QED
    BY <2>1, <2>2, <2>3, AnswerStep
<1>3. QED
  BY <1>1, <1>2

LEMMA AdmittedIsValid ==
    ASSUME ResizerInv, NEW o \in Admitted
    PROVE  /\ stage = "gates" /\ ~ isLegacy /\ isSigned /\ image = source
           /\ o \in OptionRecord /\ Validate(o, MaxDimension)
<1>1. /\ stage = "gates" /\ Verdict(request.segments, isSigned, MaxDimension) = 200
      /\ o \in ParseOptions(request.segments)
  BY DEF Admitted
<1>2. ~ isLegacy
  BY <1>1 DEF ResizerInv, LegacyStages
<1>3. request \in Requests
  BY <1>2, ResizerAssumption DEF ResizerInv, TypeOK, isLegacy
<1>4. isSigned /\ Validate(o, MaxDimension)
  BY <1>1, SignedIsBoolean, VerdictKnown
<1>5. image = source
  BY <1>1, <1>2 DEF ResizerInv, Where, SizeOK
<1>6. o \in OptionRecord
  <2>1. request.segments \in Seq(PathSegment)
    BY <1>3, ResizerAssumption
  <2>2. ParseOptions(request.segments) \subseteq OptionRecord
    BY <2>1, ParsedIsTyped, LenProperties
  <2>3. QED
    BY <1>1, <2>2
<1>7. QED
  BY <1>1, <1>2, <1>4, <1>5, <1>6

LEMMA ServeUntouchedStep ==
    ASSUME ResizerInv, ServeUntouched
    PROVE  ResizerInv'
<1>1. ~ isLegacy /\ isSigned /\ stage = "gates"
  BY AdmittedIsValid DEF ServeUntouched
<1>2. /\ UNCHANGED <<verifier, request, source, options, image, placed, box>>
      /\ reply' = 200 /\ stage' = "untouched"
  BY DEF ServeUntouched
<1>3. isLegacy' = isLegacy /\ Requested' = Requested /\ isSigned' = isSigned
  BY <1>2, SameRequest
<1>4. TypeOK' /\ AreasInside' /\ BoxesHaveSides'
  BY <1>2, <1>3 DEF ResizerInv, TypeOK, AreasInside, BoxesHaveSides
<1>5. Where' = "untouched" /\ stage' \in ParamStages
  BY <1>2 DEF Where, ParamStages
<1>6. /\ SizeOK(Where', image', options', source', Requested')
      /\ AlphaOK(Where', image', source', PadIsTransparent') /\ SignedOK'
  BY <1>1, <1>3, <1>5 DEF SizeOK, AlphaOK, SignedOK, Padded
<1>7. QED
  BY <1>1, <1>3, <1>4, <1>5, <1>6 DEF ResizerInv

LEMMA AdmitStep ==
    ASSUME ResizerInv, Admit
    PROVE  ResizerInv'
<1>1. PICK o \in Admitted : options' = o
  BY DEF Admit
<1>2. /\ ~ isLegacy /\ isSigned /\ stage = "gates" /\ image = source
      /\ options' \in OptionRecord /\ Validate(options', MaxDimension)
  BY <1>1, AdmittedIsValid
<1>3. UNCHANGED <<verifier, request, source, reply, image, placed, box>> /\ stage' = "crop"
  BY DEF Admit
<1>4. isLegacy' = isLegacy /\ isSigned' = isSigned
  BY <1>3 DEF isLegacy, isSigned
<1>5. TypeOK' /\ AreasInside'
  BY <1>2, <1>3 DEF ResizerInv, TypeOK, AreasInside
<1>6. BoxesHaveSides'
  BY <1>2, <1>3, <1>4 DEF ResizerInv, BoxesHaveSides
<1>7. Where' = "crop" /\ stage' \in ParamStages
  BY <1>3 DEF Where, ParamStages
<1>8. /\ SizeOK(Where', image', options', source', Requested')
      /\ AlphaOK(Where', image', source', PadIsTransparent') /\ SignedOK'
  BY <1>2, <1>3, <1>4, <1>7 DEF SizeOK, AlphaOK, SignedOK, Padded
<1>9. QED
  BY <1>2, <1>4, <1>5, <1>6, <1>7, <1>8 DEF ResizerInv

-----------------------------------------------------------------------------
(* Cropping and resizing.                                                  *)

LEMMA PlaceInside ==
    ASSUME NEW left \in Nat, NEW top \in Nat, NEW inner, Sized(inner), NEW w \in Nat, NEW h \in Nat,
           left + inner.w <= w, top + inner.h <= h
    PROVE  Inside(Place(left, top, inner, Size(w, h)))
BY DEF Inside, Place, Size, Sized, Positive

\* Cutting an area out of the image.
LEMMA ExtractInside ==
    ASSUME TypeOK, NEW STATE g, g.x \in Int, g.y \in Int, NEW STATE size, Sized(size),
           Within(size, image), Extract(g, size)
    PROVE  /\ Inside(placed') /\ image' \in ImageRecord /\ image'.alpha = image.alpha
           /\ image'.w = size.w /\ image'.h = size.h
<1>1. /\ image' \in ImageRecord /\ image'.alpha = image.alpha
      /\ image'.w = size.w /\ image'.h = size.h
  BY ResizedImage DEF Extract
<1>2. image.w \in Nat /\ image.h \in Nat /\ size.w \in Positive /\ size.h \in Positive
      /\ size.w <= image.w /\ size.h <= image.h /\ Sized(image)
  BY SourceType DEF Sized, Within, Positive
<1>3. ASSUME placed' = Place(0, 0, size, Size(image.w, image.h)) PROVE Inside(placed')
  BY <1>2, <1>3 DEF Inside, Place, Size, Positive
<1>4. ASSUME NEW at \in anchorOffset(g, image, size),
             placed' = Place(at.left, at.top, size, Size(image.w, image.h))
      PROVE  Inside(placed')
  <2>1. at.left \in 0 .. image.w - size.w /\ at.top \in 0 .. image.h - size.h
    BY <1>2, AnchorInside
  <2>2. /\ at.left \in Nat /\ at.left + size.w <= image.w
        /\ at.top \in Nat /\ at.top + size.h <= image.h
    BY <1>2, <2>1 DEF Positive
  <2>3. QED
    BY <1>2, <1>4, <2>2, PlaceInside
<1>5. Inside(placed')
  BY <1>3, <1>4 DEF Extract
<1>6. QED
  BY <1>1, <1>5

\* What a working stage of the pipeline may count on.
LEMMA ParamFacts ==
    ASSUME ResizerInv, stage \in {"crop", "resize", "extend", "extend_aspect_ratio", "background"}
    PROVE  /\ TypeOK /\ ~ isLegacy /\ options \in OptionRecord /\ image \in ImageRecord
           /\ Sized(image) /\ Sized(source) /\ Inside(placed)
           /\ box.w \in Positive /\ box.h \in Positive
           /\ SizeOK(stage, image, options, source, Requested)
           /\ AlphaOK(stage, image, source, PadIsTransparent)
           /\ Requested = Size(options.width, options.height)
<1>1. ~ isLegacy /\ Where = stage
  BY DEF ResizerInv, LegacyStages, Where
<1>2. TypeOK /\ options \in OptionRecord /\ Inside(placed)
  BY DEF ResizerInv, TypeOK, AreasInside, Inside
<1>3. box.w \in Positive /\ box.h \in Positive
  BY <1>1 DEF ResizerInv, TypeOK, BoxesHaveSides, Positive
<1>4. Requested = Size(options.width, options.height)
  BY <1>1 DEF Requested
<1>5. QED
  BY <1>1, <1>2, <1>3, <1>4, SourceType DEF ResizerInv

LEMMA CropStep ==
    ASSUME ResizerInv, applyCropStage
    PROVE  ResizerInv'
<1>1. /\ stage = "crop" /\ stage' = "resize" /\ UNCHANGED box
      /\ UNCHANGED <<verifier, request, source, options, reply>>
  BY DEF applyCropStage, To
<1>2. /\ TypeOK /\ ~ isLegacy /\ Sized(image) /\ image \in ImageRecord /\ image = source
      /\ options.crop.gravity.x \in Int /\ options.crop.gravity.y \in Int
      /\ options.crop.width \in Nat /\ options.crop.height \in Nat
  BY <1>1, ParamFacts, OptionTypes DEF SizeOK
<1>3. CASE UNCHANGED <<image, placed>>
  <2>1. Within(image', source) /\ image'.alpha = source.alpha
    BY <1>2, <1>3 DEF Within, Sized, Positive
  <2>2. SizeOK(stage', image', options, source, Requested) /\ AlphaOK(stage', image', source, PadIsTransparent)
    BY <1>1, <2>1 DEF SizeOK, AlphaOK, Padded
  <2>3. QED
    BY <1>1, <1>2, <1>3, <2>2, ParamFacts, ParamStep DEF Padded
<1>4. ASSUME NEW w \in resolveCropDimension(options.crop.width, image.w),
             NEW h \in resolveCropDimension(options.crop.height, image.h),
             Extract(options.crop.gravity, Size(minInt(w, image.w), minInt(h, image.h)))
      PROVE  ResizerInv'
  <2> DEFINE size == Size(minInt(w, image.w), minInt(h, image.h))
             g == options.crop.gravity
  <2>1. w \in Positive /\ h \in Positive
    BY <1>2, CropDimension DEF Sized
  <2>2. Sized(size) /\ Within(size, image)
    BY <1>2, <2>1 DEF Sized, Within, Size, minInt, Positive
  <2>3. g.x \in Int /\ g.y \in Int /\ Extract(g, size)
    BY <1>2, <1>4
  <2> HIDE DEF size, g
  <2>4. /\ Inside(placed') /\ image' \in ImageRecord /\ image'.alpha = image.alpha
        /\ image'.w = size.w /\ image'.h = size.h
    BY <1>2, <2>2, <2>3, ExtractInside
  <2>5. Within(image', source) /\ image'.alpha = source.alpha
    BY <1>2, <2>2, <2>4 DEF Within
  <2>6. SizeOK(stage', image', options, source, Requested) /\ AlphaOK(stage', image', source, PadIsTransparent)
    BY <1>1, <2>5 DEF SizeOK, AlphaOK, Padded
  <2>7. QED
    BY <1>1, <1>2, <2>4, <2>6, ParamFacts, ParamStep DEF Padded
<1>5. QED
  BY <1>3, <1>4 DEF applyCropStage

LEMMA NoResizeStep ==
    ASSUME ResizerInv, NoResize
    PROVE  ResizerInv'
<1>1. /\ stage = "resize" /\ stage' = "extend" /\ UNCHANGED <<image, placed, box>>
      /\ UNCHANGED <<verifier, request, source, options, reply>> /\ Requested = Size(0, 0)
  BY DEF NoResize, To
<1>2. Within(image, source) /\ image.alpha = source.alpha
  BY <1>1, ParamFacts DEF SizeOK, AlphaOK
<1>3. Fits(Requested, image) /\ ~ Both(Requested)
  BY <1>1 DEF Fits, Both, Size
<1>4. SizeOK(stage', image', options, source, Requested) /\ AlphaOK(stage', image', source, PadIsTransparent)
  BY <1>1, <1>2, <1>3 DEF SizeOK, AlphaOK, Padded
<1>5. QED
  BY <1>1, <1>4, ParamFacts, ParamStep DEF Padded

\* What applyResizeStage works with.
LEMMA ResizeFacts ==
    ASSUME ResizerInv, AskedToResize, UNCHANGED <<verifier, request, source, options, reply>>,
           stage' = "extend"
    PROVE  /\ stage = "resize" /\ TypeOK /\ ~ isLegacy /\ Sized(image) /\ options \in OptionRecord
           /\ Within(image, source) /\ image.alpha = source.alpha
           /\ Sized(Target)
           /\ Requested.w > 0 => Target.w = Requested.w
           /\ Requested.h > 0 => Target.h = Requested.h
           /\ Requested \in [w : Nat, h : Nat]
<1>1. stage = "resize" /\ Requested # Size(0, 0)
  BY DEF AskedToResize
<1>2. /\ TypeOK /\ ~ isLegacy /\ Sized(image) /\ options \in OptionRecord
      /\ Within(image, source) /\ image.alpha = source.alpha
  BY <1>1, ParamFacts DEF SizeOK, AlphaOK
<1>3. Requested \in [w : Nat, h : Nat]
  BY <1>2, RequestedType
<1>4. QED
  BY <1>1, <1>2, <1>3, TargetHasSides DEF Target

\* An image within the target, or as asked.
LEMMA FitsTarget ==
    ASSUME NEW R \in [w : Nat, h : Nat], NEW t, Sized(t), NEW im, im.w \in Nat, im.h \in Nat,
           Within(im, t), R.w > 0 => t.w = R.w, R.h > 0 => t.h = R.h
    PROVE  Fits(R, im)
BY DEF Fits, Within, Sized, Positive

LEMMA ResizeToBoxStep ==
    ASSUME ResizerInv, ResizeToBox
    PROVE  ResizerInv'
<1>1. /\ AskedToResize /\ UNCHANGED <<verifier, request, source, options, reply>>
      /\ stage' = "extend" /\ box' = Target /\ UNCHANGED placed
      /\ ResizingType \in {"force", "fit"}
  BY DEF ResizeToBox, To
<1> DEFINE how == IF ResizingType = "force" THEN "force"
                  ELSE IF options.enlarge THEN "both" ELSE "down"
<1>2. PICK size \in Thumbnail(image, Target, how) : Resized(size)
  BY DEF ResizeToBox
<1>3. /\ stage = "resize" /\ TypeOK /\ ~ isLegacy /\ Sized(image) /\ options \in OptionRecord
      /\ Within(image, source) /\ image.alpha = source.alpha
      /\ Sized(Target) /\ Requested \in [w : Nat, h : Nat]
      /\ Requested.w > 0 => Target.w = Requested.w
      /\ Requested.h > 0 => Target.h = Requested.h
  BY <1>1, ResizeFacts
<1>4. /\ Sized(size) /\ Within(size, Target)
      /\ how \in {"force", "cover"} => size = Target
      /\ how = "down" => Within(size, image)
  <2> HIDE DEF how
  <2>1. QED
    BY <1>2, <1>3, ThumbnailFits
<1>5. /\ image' \in ImageRecord /\ image'.alpha = source.alpha
      /\ image'.w = size.w /\ image'.h = size.h
  BY <1>2, <1>3, <1>4, ResizedImage
<1>6. Fits(Requested, image')
  <2>1. image'.w \in Nat /\ image'.h \in Nat /\ Within(image', Target)
    BY <1>4, <1>5 DEF Within, Sized, Positive
  <2>2. QED
    BY <1>3, <2>1, FitsTarget
<1>7. Both(Requested) /\ Resizing(options) = "force" => Lands(Requested, image')
  BY <1>3, <1>4, <1>5 DEF Both, Lands, Resizing, ResizingType
<1>8. Resizing(options) \notin {"fill", "fill-down"}
  BY <1>1 DEF Resizing, ResizingType
<1>9. options.enlarge \/ Resizing(options) = "force" \/ Within(image', source)
  <2>1. Resizing(options) # "force" => ResizingType # "force"
    BY DEF Resizing, ResizingType, resolveAuto
  <2>2. ~ options.enlarge /\ Resizing(options) # "force" => Within(size, image)
    BY <1>4, <2>1
  <2>3. Within(size, image) => Within(image', source)
    BY <1>3, <1>4, <1>5, SourceType DEF Within, Sized, Positive
  <2>4. QED
    BY <2>2, <2>3
<1>10. SizeOK(stage', image', options, source, Requested) /\ AlphaOK(stage', image', source, PadIsTransparent)
  BY <1>1, <1>5, <1>6, <1>7, <1>8, <1>9 DEF SizeOK, AlphaOK, Padded
<1>11. Inside(placed') /\ box'.w \in Positive /\ box'.h \in Positive
  BY <1>1, <1>3, ParamFacts DEF Sized
<1>12. QED
  BY <1>1, <1>3, <1>5, <1>10, <1>11, ParamStep

LEMMA FillToStep ==
    ASSUME ResizerInv, FillTo
    PROVE  ResizerInv'
<1>1. /\ AskedToResize /\ UNCHANGED <<verifier, request, source, options, reply>>
      /\ stage' = "extend" /\ ResizingType \in {"fill", "fill-down"}
  BY DEF FillTo, To
<1> DEFINE s == coverScale(image, Target, Downscales)
<1>2. PICK covering \in Scaled(image, s) :
        /\ box' = covering
        /\ \E cut \in fitBox(Target, covering) :
             /\ Resized(cut)
             /\ IF cut = covering THEN UNCHANGED placed
                ELSE \E at \in anchorOffset(options.gravity, covering, cut) :
                       placed' = IF options.gravity.type = "sm" THEN Place(0, 0, cut, covering)
                                 ELSE Place(at.left, at.top, cut, covering)
  BY DEF FillTo
<1>3. PICK cut \in fitBox(Target, covering) :
        /\ Resized(cut)
        /\ IF cut = covering THEN UNCHANGED placed
           ELSE \E at \in anchorOffset(options.gravity, covering, cut) :
                  placed' = IF options.gravity.type = "sm" THEN Place(0, 0, cut, covering)
                            ELSE Place(at.left, at.top, cut, covering)
  BY <1>2
<1>4. /\ stage = "resize" /\ TypeOK /\ ~ isLegacy /\ Sized(image) /\ options \in OptionRecord
      /\ Within(image, source) /\ image.alpha = source.alpha
      /\ Sized(Target) /\ Requested \in [w : Nat, h : Nat]
      /\ Requested.w > 0 => Target.w = Requested.w
      /\ Requested.h > 0 => Target.h = Requested.h
  BY <1>1, ResizeFacts
<1>5. Downscales \in BOOLEAN /\ (~ options.enlarge => Downscales)
  BY <1>4, OptionTypes DEF Downscales
<1>6. s.n \in Positive /\ s.d \in Positive /\ (Downscales => s.n <= s.d)
  BY <1>4, <1>5, CoverScale
<1> HIDE DEF s
<1>7. Sized(covering) /\ (Downscales => Within(covering, image))
  BY <1>2, <1>4, <1>6, ScaledSize
<1>8. Sized(cut) /\ Within(cut, Target) /\ Within(cut, covering) /\ InRatio(Target, cut)
  BY <1>3, <1>4, <1>7, FitBox
<1>9. /\ image' \in ImageRecord /\ image'.alpha = source.alpha
      /\ image'.w = cut.w /\ image'.h = cut.h
  BY <1>3, <1>4, <1>8, ResizedImage
<1>10. Fits(Requested, image')
  <2>1. image'.w \in Nat /\ image'.h \in Nat /\ Within(image', Target)
    BY <1>8, <1>9 DEF Within, Sized, Positive
  <2>2. QED
    BY <1>4, <2>1, FitsTarget
<1>11. Both(Requested) => InRatio(Requested, image')
  BY <1>4, <1>8, <1>9 DEF Both, InRatio
<1>12. Resizing(options) # "force"
  BY <1>1 DEF Resizing, ResizingType
<1>13. options.enlarge \/ Within(image', source)
  <2>1. ~ options.enlarge => Within(covering, image)
    BY <1>5, <1>7
  <2>2. Within(covering, image) => Within(image', source)
    BY <1>4, <1>7, <1>8, <1>9, SourceType DEF Within, Sized, Positive
  <2>3. QED
    BY <2>1, <2>2
<1>14. SizeOK(stage', image', options, source, Requested) /\ AlphaOK(stage', image', source, PadIsTransparent)
  BY <1>1, <1>9, <1>10, <1>11, <1>12, <1>13 DEF SizeOK, AlphaOK, Padded
<1>15. Inside(placed')
  <2>1. CASE cut = covering
    BY <1>3, <1>4, <2>1, ParamFacts
  <2>2. ASSUME NEW at \in anchorOffset(options.gravity, covering, cut),
               placed' = IF options.gravity.type = "sm" THEN Place(0, 0, cut, covering)
                         ELSE Place(at.left, at.top, cut, covering)
        PROVE  Inside(placed')
    <3>1. options.gravity.x \in Int /\ options.gravity.y \in Int
      BY <1>4, OptionTypes
    <3>2. at.left \in 0 .. covering.w - cut.w /\ at.top \in 0 .. covering.h - cut.h
      BY <1>7, <1>8, <3>1, AnchorInside
    <3>3. QED
      BY <1>7, <1>8, <2>2, <3>2 DEF Inside, Place, Sized, Within, Positive
  <2>3. QED
    BY <1>3, <2>1, <2>2
<1>16. box'.w \in Positive /\ box'.h \in Positive
  BY <1>2, <1>7 DEF Sized
<1>17. QED
  BY <1>1, <1>4, <1>9, <1>14, <1>15, <1>16, ParamStep

-----------------------------------------------------------------------------
(* Padding and the background.                                             *)

LEMMA EmbedFacts ==
    ASSUME TypeOK, Inside(placed), NEW STATE asked, Sized(asked),
           NEW STATE g, g.x \in Int, g.y \in Int, embedTo(asked, g)
    PROVE  /\ image' \in ImageRecord /\ Inside(placed')
           /\ image'.w = maxInt(asked.w, image.w) /\ image'.h = maxInt(asked.h, image.h)
           /\ image.alpha => image'.alpha
           /\ image'.alpha => image.alpha \/ PadIsTransparent
<1> DEFINE canvas == Size(maxInt(asked.w, image.w), maxInt(asked.h, image.h))
           inner == Size(image.w, image.h)
<1>1. image \in ImageRecord /\ Sized(image) /\ PadIsTransparent \in BOOLEAN
  BY SourceType DEF PadIsTransparent
<1>2. /\ canvas.w = maxInt(asked.w, image.w) /\ canvas.h = maxInt(asked.h, image.h)
      /\ inner.w = image.w /\ inner.h = image.h
  BY DEF Size
<1>3. Sized(canvas) /\ Sized(inner) /\ Within(image, canvas)
  BY <1>1, <1>2 DEF Sized, Within, Positive, maxInt
<1>4. CASE UNCHANGED <<image, placed>> /\ canvas = inner
  BY <1>1, <1>2, <1>4
<1>5. ASSUME NEW at \in anchorOffset(g, canvas, image),
             image' = [image EXCEPT !.w = canvas.w, !.h = canvas.h, !.alpha = @ \/ PadIsTransparent],
             placed' = Place(at.left, at.top, inner, canvas)
      PROVE  /\ image' \in ImageRecord /\ Inside(placed')
             /\ image'.w = canvas.w /\ image'.h = canvas.h
             /\ image'.alpha <=> image.alpha \/ PadIsTransparent
  <2> HIDE DEF canvas, inner
  <2>1. at.left \in 0 .. canvas.w - image.w /\ at.top \in 0 .. canvas.h - image.h
    BY <1>1, <1>3, AnchorInside
  <2>2. Inside(placed')
    BY <1>1, <1>2, <1>3, <1>5, <2>1 DEF Inside, Place, Sized, Within, Positive
  <2>3. canvas.w \in Nat \ {0} /\ canvas.h \in Nat \ {0} /\ (image.alpha \/ PadIsTransparent) \in BOOLEAN
    BY <1>3 DEF Sized, Positive
  <2>4. image' \in ImageRecord
    BY <1>1, <1>5, <2>3 DEF ImageRecord
  <2>5. image'.w = canvas.w /\ image'.h = canvas.h
    BY <1>1, <1>5 DEF ImageRecord
  <2>6. image'.alpha <=> image.alpha \/ PadIsTransparent
    BY <1>1, <1>5 DEF ImageRecord
  <2>7. QED
    BY <2>2, <2>4, <2>5, <2>6
<1>6. \/ UNCHANGED <<image, placed>> /\ canvas = inner
      \/ \E at \in anchorOffset(g, canvas, image) :
           /\ image' = [image EXCEPT !.w = canvas.w, !.h = canvas.h, !.alpha = @ \/ PadIsTransparent]
           /\ placed' = Place(at.left, at.top, inner, canvas)
  <2>1. CASE canvas = inner
    BY <2>1 DEF embedTo
  <2>2. CASE canvas # inner
    BY <1>2, <2>2 DEF embedTo
  <2>3. QED
    BY <2>1, <2>2
<1>7. QED
  <2> HIDE DEF canvas, inner
  <2>1. QED
    BY <1>2, <1>4, <1>5, <1>6

LEMMA LandsInRatio ==
    ASSUME NEW R \in [w : Nat, h : Nat], Both(R), NEW im, Lands(R, im)
    PROVE  InRatio(R, im) /\ Fits(R, im)
<1>1. 2 * (R.w * R.h - R.h * R.w) = 0
  OBVIOUS
<1>2. QED
  BY <1>1 DEF Both, Lands, InRatio, Fits

LEMMA ExtendStep ==
    ASSUME ResizerInv, Extend
    PROVE  ResizerInv'
<1>1. /\ stage = "extend" /\ stage' = "extend_aspect_ratio" /\ UNCHANGED box
      /\ UNCHANGED <<verifier, request, source, options, reply>>
  BY DEF Extend, To
<1>2. /\ TypeOK /\ ~ isLegacy /\ Sized(image) /\ image \in ImageRecord /\ Inside(placed)
      /\ options \in OptionRecord /\ box'.w \in Positive /\ box'.h \in Positive
      /\ SizeOK(stage, image, options, source, Requested) /\ image.alpha = source.alpha
      /\ options.extend.gravity.x \in Int /\ options.extend.gravity.y \in Int
  BY <1>1, ParamFacts, OptionTypes DEF AlphaOK
<1>3. Requested \in [w : Nat, h : Nat]
  BY <1>2, RequestedType
<1>4. CASE options.extend.enabled /\ BothSides
  <2> DEFINE g == options.extend.gravity
  <2>1. embedTo(Requested, g) /\ Sized(Requested) /\ Both(Requested)
    BY <1>3, <1>4 DEF Extend, BothSides, Both, Sized, Positive
  <2>2. g.x \in Int /\ g.y \in Int
    BY <1>2
  <2> HIDE DEF g
  <2>3. /\ image' \in ImageRecord /\ Inside(placed')
        /\ image'.w = maxInt(Requested.w, image.w) /\ image'.h = maxInt(Requested.h, image.h)
        /\ image.alpha => image'.alpha
        /\ image'.alpha => image.alpha \/ PadIsTransparent
    BY <1>2, <2>1, <2>2, EmbedFacts
  <2>4. Fits(Requested, image)
    BY <1>1, <1>2 DEF SizeOK
  <2>5. Lands(Requested, image')
    BY <1>2, <1>3, <2>1, <2>3, <2>4 DEF Lands, Fits, Both, maxInt, Sized, Positive
  <2>6. Fits(Requested, image') /\ InRatio(Requested, image')
    BY <1>3, <2>1, <2>5, LandsInRatio
  <2>7. SizeOK(stage', image', options, source, Requested)
    BY <1>1, <1>4, <2>5, <2>6 DEF SizeOK, Padded
  <2>8. AlphaOK(stage', image', source, PadIsTransparent)
    BY <1>1, <1>2, <2>3 DEF AlphaOK
  <2>9. QED
    BY <1>1, <1>2, <2>3, <2>7, <2>8, ParamStep DEF Padded
<1>5. CASE ~ (options.extend.enabled /\ BothSides)
  <2>1. UNCHANGED <<image, placed>>
    BY <1>5 DEF Extend
  <2>2. SizeOK(stage', image', options, source, Requested)
    BY <1>1, <1>2, <1>5, <2>1 DEF SizeOK, Padded, Both, BothSides
  <2>3. AlphaOK(stage', image', source, PadIsTransparent)
    BY <1>1, <1>2, <2>1 DEF AlphaOK
  <2>4. QED
    BY <1>1, <1>2, <2>1, <2>2, <2>3, ParamStep DEF Padded
<1>6. QED
  BY <1>4, <1>5

LEMMA ExtendAspectRatioStep ==
    ASSUME ResizerInv, ExtendAspectRatio
    PROVE  ResizerInv'
<1>1. /\ stage = "extend_aspect_ratio" /\ stage' = "background" /\ UNCHANGED box
      /\ UNCHANGED <<verifier, request, source, options, reply>>
  BY DEF ExtendAspectRatio, To
<1>2. /\ TypeOK /\ ~ isLegacy /\ Sized(image) /\ image \in ImageRecord /\ Inside(placed)
      /\ options \in OptionRecord /\ box'.w \in Positive /\ box'.h \in Positive
      /\ SizeOK(stage, image, options, source, Requested)
      /\ AlphaOK(stage, image, source, PadIsTransparent)
      /\ options.extend_aspect_ratio.gravity.x \in Int
      /\ options.extend_aspect_ratio.gravity.y \in Int
  BY <1>1, ParamFacts, OptionTypes
<1>3. Requested \in [w : Nat, h : Nat]
  BY <1>2, RequestedType
<1>4. CASE options.extend_aspect_ratio.enabled /\ BothSides
  <2> DEFINE g == options.extend_aspect_ratio.gravity
  <2>1. PICK canvas \in aspectRatioTarget(image, Requested) : embedTo(canvas, g)
    BY <1>4 DEF ExtendAspectRatio
  <2>2. Sized(Requested) /\ Both(Requested) /\ g.x \in Int /\ g.y \in Int
    BY <1>2, <1>3, <1>4 DEF BothSides, Both, Sized, Positive
  <2> HIDE DEF g
  <2>3. /\ Sized(canvas) /\ Within(image, canvas) /\ InRatio(Requested, canvas)
        /\ Within(image, Requested) => Within(canvas, Requested)
        /\ image.w = Requested.w /\ image.h = Requested.h =>
             canvas.w = Requested.w /\ canvas.h = Requested.h
    BY <1>2, <2>1, <2>2, AspectRatio
  <2>4. /\ image' \in ImageRecord /\ Inside(placed')
        /\ image'.w = maxInt(canvas.w, image.w) /\ image'.h = maxInt(canvas.h, image.h)
        /\ image.alpha => image'.alpha
        /\ image'.alpha => image.alpha \/ PadIsTransparent
    BY <1>2, <2>1, <2>2, <2>3, EmbedFacts
  <2>5. image'.w = canvas.w /\ image'.h = canvas.h
    BY <1>2, <2>3, <2>4 DEF maxInt, Within, Sized, Positive
  <2>6. Fits(Requested, image) /\ Within(image, Requested)
    BY <1>1, <1>2, <2>2 DEF SizeOK, Padded, Fits, Within, Both
  <2>7. Fits(Requested, image') /\ InRatio(Requested, image')
    BY <2>3, <2>5, <2>6 DEF Fits, Within, InRatio
  <2>8. Lands(Requested, image) => Lands(Requested, image')
    BY <2>3, <2>5 DEF Lands
  <2>9. SizeOK(stage', image', options, source, Requested)
    BY <1>1, <1>2, <1>4, <2>7, <2>8 DEF SizeOK, Padded
  <2>10. AlphaOK(stage', image', source, PadIsTransparent)
    BY <1>1, <1>2, <2>4 DEF AlphaOK
  <2>11. QED
    BY <1>1, <1>2, <2>4, <2>9, <2>10, ParamStep DEF Padded
<1>5. CASE ~ (options.extend_aspect_ratio.enabled /\ BothSides)
  <2>1. UNCHANGED <<image, placed>>
    BY <1>5 DEF ExtendAspectRatio
  <2>2. SizeOK(stage', image', options, source, Requested)
    BY <1>1, <1>2, <1>5, <2>1 DEF SizeOK, Padded, Both, BothSides
  <2>3. AlphaOK(stage', image', source, PadIsTransparent)
    BY <1>1, <1>2, <2>1 DEF AlphaOK
  <2>4. QED
    BY <1>1, <1>2, <2>1, <2>2, <2>3, ParamStep DEF Padded
<1>6. QED
  BY <1>4, <1>5

LEMMA BackgroundStep ==
    ASSUME ResizerInv, applyBackgroundStage
    PROVE  ResizerInv'
<1>1. /\ stage = "background" /\ stage' = "encode" /\ UNCHANGED <<placed, box>>
      /\ UNCHANGED <<verifier, request, source, options, reply>>
      /\ image' = [image EXCEPT !.alpha = @ /\ PadIsTransparent]
  BY DEF applyBackgroundStage, To
<1>2. /\ TypeOK /\ ~ isLegacy /\ image \in ImageRecord /\ Inside(placed)
      /\ box'.w \in Positive /\ box'.h \in Positive
      /\ SizeOK(stage, image, options, source, Requested)
      /\ AlphaOK(stage, image, source, PadIsTransparent)
  BY <1>1, ParamFacts
<1>3. image' \in ImageRecord /\ image'.w = image.w /\ image'.h = image.h
  BY <1>1, <1>2 DEF ImageRecord
<1>4. image'.alpha <=> image.alpha /\ PadIsTransparent
  BY <1>1, <1>2 DEF ImageRecord
<1>5. /\ Fits(Requested, image) => Fits(Requested, image')
      /\ Lands(Requested, image) => Lands(Requested, image')
      /\ InRatio(Requested, image) => InRatio(Requested, image')
      /\ Within(image, source) => Within(image', source)
  BY <1>3 DEF Fits, Lands, InRatio, Within
<1>6. SizeOK(stage', image', options, source, Requested)
  BY <1>1, <1>2, <1>5 DEF SizeOK, Padded
<1>7. AlphaOK(stage', image', source, PadIsTransparent)
  BY <1>1, <1>2, <1>4 DEF AlphaOK
<1>8. QED
  BY <1>1, <1>2, <1>3, <1>6, <1>7, ParamStep DEF Padded

-----------------------------------------------------------------------------
(* The legacy pipeline.                                                    *)

LEMMA LegacyFacts ==
    ASSUME ResizerInv, stage \in {"thumbnail", "pad", "flatten"}
    PROVE  /\ TypeOK /\ isLegacy /\ Where = stage
           /\ image \in ImageRecord /\ Sized(image) /\ Sized(source) /\ Inside(placed)
           /\ LegacyOK(stage, image, request.fit, source, Requested, Keep)
           /\ Requested \in [w : Nat, h : Nat] /\ box.w \in Nat /\ box.h \in Nat
           /\ Requested # Size(0, 0) => /\ box.w = 0 => Requested.h * source.w <= source.h
                                        /\ box.h = 0 => Requested.w * source.h <= source.w
<1>1. isLegacy /\ Where = stage
  BY DEF ResizerInv, ParamStages, Padded, Where
<1>2. TypeOK /\ Inside(placed) /\ box.w \in Nat /\ box.h \in Nat
  BY DEF ResizerInv, TypeOK, AreasInside, Inside
<1>3. QED
  BY <1>1, <1>2, SourceType, RequestedType DEF ResizerInv, BoxesHaveSides

\* What vips_thumbnail makes of the truncated box.
LEMMA LegacySize ==
    ASSUME NEW R \in [w : Nat, h : Nat], NEW fit, NEW src, Sized(src),
           NEW b \in legacyBox(R, fit, src), b.w > 0,
           NEW size \in Thumbnail(src, IF b.h = 0 THEN Size(b.w, b.w) ELSE b,
                                  IF fit = "cover" THEN "cover" ELSE "both")
    PROVE  /\ Sized(size)
           /\ Both(R) => /\ fit = "contain" => Within(size, R)
                         /\ fit = "cover" => Lands(R, size)
<1> DEFINE to == IF b.h = 0 THEN Size(b.w, b.w) ELSE b
           how == IF fit = "cover" THEN "cover" ELSE "both"
<1>1. /\ b.w \in Nat /\ b.h \in Nat
      /\ fit = "contain" /\ R.w > 0 /\ R.h > 0 => Within(b, R)
      /\ fit # "contain" /\ R.w > 0 /\ R.h > 0 => b = R
      /\ R # Size(0, 0) /\ b.h = 0 => R.w * src.h <= src.w
      /\ fit = "contain" /\ R.w > 0 /\ R.h > 0 /\ b.h = 0 => b.w = R.w
  BY LegacyBox
<1>2. Sized(to)
  BY <1>1 DEF Sized, Positive, Size
<1>3. size \in Thumbnail(src, to, how)
  OBVIOUS
<1>4. how \in {"force", "cover"} <=> fit = "cover"
  OBVIOUS
<1>5. Both(R) => R # Size(0, 0)
  BY DEF Both, Size
<1>6. b.h # 0 => to = b
  OBVIOUS
<1>7. b.h = 0 => to = Size(b.w, b.w)
  OBVIOUS
<1>8. fit # "cover" => how = "both"
  OBVIOUS
<1> HIDE DEF to, how
<1>9. Sized(size) /\ Within(size, to) /\ (fit = "cover" => size = to)
  BY <1>2, <1>3, <1>4, ThumbnailFits
<1>10. ASSUME Both(R), fit = "cover" PROVE Lands(R, size)
  <2>1. b = R /\ b.h # 0
    BY <1>1, <1>10 DEF Both
  <2>2. QED
    BY <1>6, <1>9, <1>10, <2>1 DEF Lands
<1>11. ASSUME Both(R), fit = "contain" PROVE Within(size, R)
  <2>1. CASE b.h # 0
    <3>1. Within(size, b) /\ Within(b, R)
      BY <1>1, <1>6, <1>9, <1>11, <2>1 DEF Both
    <3>2. QED
      BY <1>1, <1>9, <3>1 DEF Within, Sized, Positive
  <2>2. CASE b.h = 0
    <3>1. b.w = R.w /\ R.w \in Positive /\ R.w * src.h <= src.w
      BY <1>1, <1>5, <1>11, <2>2 DEF Both, Positive
    <3>2. size \in Thumbnail(src, Size(R.w, R.w), "both")
      BY <1>3, <1>7, <1>8, <1>11, <2>2, <3>1
    <3>3. size.w = R.w /\ size.h = 1
      BY <3>1, <3>2, FlatThumbnail
    <3>4. QED
      BY <1>11, <3>3 DEF Within, Both
  <2>3. QED
    BY <2>1, <2>2
<1>12. QED
  BY <1>9, <1>10, <1>11

LEMMA LegacyThumbnailStep ==
    ASSUME ResizerInv, LegacyThumbnail
    PROVE  ResizerInv'
<1>1. PICK b \in legacyBox(Requested, request.fit, image) :
        /\ box' = b
        /\ \/ /\ 0 \in {b.w, b.h}
              /\ Answer(500) /\ UNCHANGED <<image, placed>>
           \/ /\ b.w > 0
              /\ \E size \in Thumbnail(image, IF b.h = 0 THEN Size(b.w, b.w) ELSE b,
                                       IF request.fit = "cover" THEN "cover" ELSE "both") :
                   Resized(size)
              /\ To("pad") /\ UNCHANGED placed
  BY DEF LegacyThumbnail
<1>2. stage = "thumbnail"
  BY DEF LegacyThumbnail
<1>3. /\ TypeOK /\ isLegacy /\ image = source /\ Sized(image) /\ Inside(placed)
      /\ image \in ImageRecord /\ Requested \in [w : Nat, h : Nat]
  BY <1>2, LegacyFacts DEF LegacyOK
<1>4. /\ b.w \in Nat /\ b.h \in Nat
      /\ Requested # Size(0, 0) => /\ b.w = 0 => Requested.h * source.w <= source.h
                                   /\ b.h = 0 => Requested.w * source.h <= source.w
  BY <1>3, LegacyBox
<1>5. CASE 0 \in {b.w, b.h} /\ Answer(500) /\ UNCHANGED <<image, placed>>
  <2> DEFINE status == 500
  <2>1. UNCHANGED <<verifier, request, source, options>>
    BY <1>5 DEF Answer
  <2>2. isLegacy' = isLegacy /\ Requested' = Requested /\ source' = source
    BY <2>1, SameRequest
  <2>3. BoxesHaveSides'
    BY <1>1, <1>3, <1>4, <2>2 DEF BoxesHaveSides
  <2>4. Answer(status) /\ status \in {200, 400, 403, 404, 500} /\ status # 200
    BY <1>5
  <2>5. box'.w \in Nat /\ box'.h \in Nat /\ UNCHANGED <<image, placed>>
    BY <1>1, <1>4, <1>5
  <2> HIDE DEF status
  <2>6. QED
    BY <1>2, <2>3, <2>4, <2>5, AnswerWithBox
<1>6. ASSUME b.w > 0,
             NEW size \in Thumbnail(image, IF b.h = 0 THEN Size(b.w, b.w) ELSE b,
                                    IF request.fit = "cover" THEN "cover" ELSE "both"),
             Resized(size), To("pad"), UNCHANGED placed
      PROVE  ResizerInv'
  <2>1. /\ Sized(size)
        /\ Both(Requested) => /\ request.fit = "contain" => Within(size, Requested)
                              /\ request.fit = "cover" => Lands(Requested, size)
    BY <1>3, <1>6, LegacySize
  <2>2. /\ image' \in ImageRecord /\ image'.alpha = image.alpha
        /\ image'.w = size.w /\ image'.h = size.h
    BY <1>3, <1>6, <2>1, ResizedImage
  <2>3. stage' = "pad" /\ UNCHANGED <<verifier, request, source, options, reply>>
    BY <1>6 DEF To
  <2>4. LegacyOK(stage', image', request.fit, source, Requested, Keep)
    BY <1>3, <2>1, <2>2, <2>3 DEF LegacyOK, Within, Lands
  <2>5. Inside(placed') /\ box' = b
    BY <1>1, <1>3, <1>6
  <2>6. QED
    BY <1>2, <1>3, <1>4, <2>2, <2>3, <2>4, <2>5, LegacyStep
<1>7. QED
  BY <1>1, <1>5, <1>6

LEMMA LegacyPadStep ==
    ASSUME ResizerInv, LegacyPad
    PROVE  ResizerInv'
<1>1. /\ stage = "pad" /\ stage' = "flatten" /\ UNCHANGED box
      /\ UNCHANGED <<verifier, request, source, options, reply>>
  BY DEF LegacyPad, To
<1>2. /\ TypeOK /\ isLegacy /\ Sized(image) /\ image \in ImageRecord /\ Inside(placed)
      /\ LegacyOK(stage, image, request.fit, source, Requested, Keep)
      /\ Requested \in [w : Nat, h : Nat] /\ box.w \in Nat /\ box.h \in Nat
      /\ Requested # Size(0, 0) => /\ box.w = 0 => Requested.h * source.w <= source.h
                                   /\ box.h = 0 => Requested.w * source.h <= source.w
  BY <1>1, LegacyFacts
<1>3. CASE request.fit = "contain" /\ BothSides /\ Size(image.w, image.h) # Requested
  <2> DEFINE left == (Requested.w - image.w) \div 2
             top == (Requested.h - image.h) \div 2
             inner == Size(image.w, image.h)
  <2>1. Both(Requested) /\ Sized(Requested) /\ Within(image, Requested)
    BY <1>1, <1>2, <1>3 DEF Both, BothSides, Sized, Positive, LegacyOK
  <2>2. Resized(Requested) /\ placed' = Place(left, top, inner, Requested)
    BY <1>3 DEF LegacyPad
  <2>3. /\ Requested.w \in Nat /\ Requested.h \in Nat /\ image.w \in Nat /\ image.h \in Nat
        /\ image.w > 0 /\ image.h > 0 /\ image.w <= Requested.w /\ image.h <= Requested.h
    BY <1>2, <2>1 DEF Sized, Positive, Within
  <2>4. /\ left >= 0 /\ left + image.w <= Requested.w
        /\ top >= 0 /\ top + image.h <= Requested.h
    BY <2>3
  <2>5. inner.w = image.w /\ inner.h = image.h
    BY DEF Size
  <2> HIDE DEF left, top, inner
  <2>6. Inside(placed')
    BY <2>2, <2>3, <2>4, <2>5 DEF Inside, Place
  <2>7. /\ image' \in ImageRecord /\ image'.alpha = image.alpha
        /\ image'.w = Requested.w /\ image'.h = Requested.h
    BY <1>2, <2>1, <2>2, ResizedImage
  <2>8. LegacyOK(stage', image', request.fit, source, Requested, Keep)
    BY <1>1, <1>2, <2>7 DEF LegacyOK, Lands
  <2>9. QED
    BY <1>1, <1>2, <2>6, <2>7, <2>8, LegacyStep
<1>4. CASE ~ (request.fit = "contain" /\ BothSides /\ Size(image.w, image.h) # Requested)
  <2>1. UNCHANGED <<image, placed>>
    BY <1>4 DEF LegacyPad
  <2>2. Both(Requested) /\ request.fit = "contain" => Lands(Requested, image)
    BY <1>2, <1>4 DEF Both, BothSides, Lands, Size
  <2>3. LegacyOK(stage', image', request.fit, source, Requested, Keep)
    BY <1>1, <1>2, <2>1, <2>2 DEF LegacyOK
  <2>4. QED
    BY <1>1, <1>2, <2>1, <2>3, LegacyStep
<1>5. QED
  BY <1>3, <1>4

LEMMA LegacyFlattenStep ==
    ASSUME ResizerInv, LegacyFlatten
    PROVE  ResizerInv'
<1>1. /\ stage = "flatten" /\ stage' = "encode" /\ UNCHANGED <<placed, box>>
      /\ UNCHANGED <<verifier, request, source, options, reply>>
      /\ image' = [image EXCEPT !.alpha = @ /\ Keep]
  BY DEF LegacyFlatten, To, Keep
<1>2. /\ TypeOK /\ isLegacy /\ image \in ImageRecord /\ Inside(placed)
      /\ LegacyOK(stage, image, request.fit, source, Requested, Keep)
      /\ Requested \in [w : Nat, h : Nat] /\ box.w \in Nat /\ box.h \in Nat
      /\ Requested # Size(0, 0) => /\ box.w = 0 => Requested.h * source.w <= source.h
                                   /\ box.h = 0 => Requested.w * source.h <= source.w
  BY <1>1, LegacyFacts
<1>3. Keep \in BOOLEAN
  BY DEF Keep, effectiveKeepAlpha
<1>4. image' \in ImageRecord /\ image'.w = image.w /\ image'.h = image.h
  BY <1>1, <1>2, <1>3 DEF ImageRecord
<1>5. image'.alpha <=> image.alpha /\ Keep
  BY <1>1, <1>2 DEF ImageRecord
<1>6. Lands(Requested, image) => Lands(Requested, image')
  BY <1>4 DEF Lands
<1>7. LegacyOK(stage', image', request.fit, source, Requested, Keep)
  BY <1>1, <1>2, <1>5, <1>6 DEF LegacyOK
<1>8. QED
  BY <1>1, <1>2, <1>4, <1>7, LegacyStep

-----------------------------------------------------------------------------
(* Every step, and the invariants.                                         *)

LEMMA InitHolds == Init => ResizerInv
<1> SUFFICES ASSUME Init PROVE ResizerInv
  OBVIOUS
<1>1. /\ verifier \in UNION {NewVerifier(env) : env \in Environments}
      /\ request \in Requests \union LegacyJobs /\ source \in Sources /\ image = source
      /\ stage = (IF isLegacy THEN "thumbnail" ELSE "gates") /\ reply = 0
      /\ options = NoOptions /\ placed = NotPlaced /\ box = Size(1, 1)
  BY DEF Init
<1>2. TypeOK
  BY <1>1, NoOptionsType, ResizerAssumption DEF TypeOK, Size
<1>3. AreasInside /\ BoxesHaveSides
  BY <1>1 DEF AreasInside, BoxesHaveSides, NotPlaced, Place, Size
<1>4. Where = stage
  BY <1>1 DEF Where
<1>5. isLegacy => stage \in LegacyStages /\ LegacyOK(Where, image, request.fit, source, Requested, Keep)
  BY <1>1, <1>4 DEF LegacyStages, LegacyOK
<1>6. ~ isLegacy => /\ stage \in ParamStages /\ SignedOK /\ Where = "gates"
                    /\ SizeOK(Where, image, options, source, Requested)
                    /\ AlphaOK(Where, image, source, PadIsTransparent)
  BY <1>1, <1>4 DEF ParamStages, SignedOK, SizeOK, AlphaOK, Padded
<1>7. QED
  BY <1>2, <1>3, <1>5, <1>6 DEF ResizerInv

LEMMA AnswersStep ==
    ASSUME ResizerInv, Export \/ VipsFails
    PROVE  ResizerInv'
<1>1. CASE Export
  <2> DEFINE status == 200
  <2>1. stage = "encode" /\ Answer(status) /\ UNCHANGED <<image, placed, box>>
    BY <1>1 DEF Export
  <2>2. status \in {200, 400, 403, 404, 500}
    OBVIOUS
  <2> HIDE DEF status
  <2>3. QED
    BY <2>1, <2>2, AnswerStep
<1>2. CASE VipsFails
  <2> DEFINE status == 500
  <2>1. /\ stage \notin {"gates", "done"} /\ Answer(status) /\ UNCHANGED <<image, placed, box>>
    BY <1>2 DEF VipsFails
  <2>2. status \in {200, 400, 403, 404, 500} /\ status # 200
    OBVIOUS
  <2> HIDE DEF status
  <2>3. QED
    BY <2>1, <2>2, AnswerStep
<1>3. QED
  BY <1>1, <1>2

LEMMA StutterStep ==
    ASSUME ResizerInv, UNCHANGED vars
    PROVE  ResizerInv'
<1>1. UNCHANGED <<verifier, request, source, options, stage, reply, image, placed, box>>
  BY DEF vars
<1>2. /\ isLegacy' = isLegacy /\ Requested' = Requested /\ isSigned' = isSigned
      /\ PadIsTransparent' = PadIsTransparent /\ Keep' = Keep
  BY <1>1, SameRequest
<1>3. Where' = Where
  BY <1>1 DEF Where
<1>4. TypeOK' /\ AreasInside' /\ BoxesHaveSides' /\ (~ isLegacy' => SignedOK')
  BY <1>1, <1>2 DEF ResizerInv, TypeOK, AreasInside, BoxesHaveSides, SignedOK
<1>5. QED
  BY <1>1, <1>2, <1>3, <1>4 DEF ResizerInv

\* ResizerInv holds throughout, for every image, box, option list and key.
THEOREM ResizerInvariant == Spec => []ResizerInv
<1>1. ASSUME ResizerInv, [Next]_vars PROVE ResizerInv'
  <2>1. CASE RouteIsOff \/ Refuse
    BY <1>1, <2>1, GatesStep
  <2>2. CASE ServeUntouched
    BY <1>1, <2>2, ServeUntouchedStep
  <2>3. CASE Admit
    BY <1>1, <2>3, AdmitStep
  <2>4. CASE applyCropStage
    BY <1>1, <2>4, CropStep
  <2>5. CASE NoResize
    BY <1>1, <2>5, NoResizeStep
  <2>6. CASE ResizeToBox
    BY <1>1, <2>6, ResizeToBoxStep
  <2>7. CASE FillTo
    BY <1>1, <2>7, FillToStep
  <2>8. CASE Extend
    BY <1>1, <2>8, ExtendStep
  <2>9. CASE ExtendAspectRatio
    BY <1>1, <2>9, ExtendAspectRatioStep
  <2>10. CASE applyBackgroundStage
    BY <1>1, <2>10, BackgroundStep
  <2>11. CASE LegacyThumbnail
    BY <1>1, <2>11, LegacyThumbnailStep
  <2>12. CASE LegacyPad
    BY <1>1, <2>12, LegacyPadStep
  <2>13. CASE LegacyFlatten
    BY <1>1, <2>13, LegacyFlattenStep
  <2>14. CASE Export \/ VipsFails
    BY <1>1, <2>14, AnswersStep
  <2>15. CASE UNCHANGED vars
    BY <1>1, <2>15, StutterStep
  <2>16. QED
    BY <1>1, <2>1, <2>2, <2>3, <2>4, <2>5, <2>6, <2>7, <2>8, <2>9, <2>10, <2>11, <2>12, <2>13,
       <2>14, <2>15 DEF Next
<1>2. QED
  BY <1>1, InitHolds, PTL DEF Spec

\* What ResizerInv says of a rendered image, R being the size asked for.
LEMMA RenderedFacts ==
    ASSUME ResizerInv, Rendered
    PROVE  /\ isLegacy => LegacyOK("encode", image, request.fit, source, Requested, Keep)
           /\ ~ isLegacy => /\ SizeOK("encode", image, options, source, Requested)
                            /\ AlphaOK("encode", image, source, PadIsTransparent)
                            /\ Validate(options, MaxDimension)
                            /\ Requested = Size(options.width, options.height)
           /\ Requested \in [w : Nat, h : Nat] /\ image.w \in Nat /\ image.h \in Nat
<1>1. Where = "encode"
  BY DEF Where, Rendered
<1>2. Requested \in [w : Nat, h : Nat] /\ image.w \in Nat /\ image.h \in Nat
  BY RequestedType, SourceType DEF ResizerInv, Sized, Positive
<1>3. QED
  BY <1>1, <1>2 DEF ResizerInv, Requested

\* Every state is well typed, and every admitted option list within its types
\* (ParseOptions).
THEOREM ResizerTypes == Spec => []TypeOK
<1>1. ResizerInv => TypeOK
  BY DEF ResizerInv
<1>2. QED
  BY <1>1, ResizerInvariant, PTL

LEMMA OnlyVerifier ==
    ASSUME NEW env, NEW v \in NewVerifier(env)
    PROVE  /\ NewVerifier(env) = {v} /\ v.allowUnsafe = env.unsafe
           /\ v.key # << >> => env.key # ""
<1> DEFINE size == IF env.size = 0 THEN 32 ELSE env.size
           off == [isOn |-> env.unsafe, key |-> << >>, salt |-> << >>, size |-> 32,
                   allowUnsafe |-> env.unsafe]
           keyed == [isOn |-> TRUE, key |-> HexBytes[env.key], salt |-> HexBytes[env.salt],
                     size |-> size, allowUnsafe |-> env.unsafe]
<1>1. CASE env.key = "" /\ env.salt = ""
  <2>1. NewVerifier(env) = {off}
    BY <1>1 DEF NewVerifier
  <2>2. v = off /\ off.key = << >> /\ off.allowUnsafe = env.unsafe
    BY <2>1
  <2> HIDE DEF off
  <2>3. QED
    BY <2>1, <2>2
<1>2. CASE ~ (env.key = "" /\ env.salt = "")
  <2>1. /\ NewVerifier(env) = {keyed} \/ NewVerifier(env) = {}
        /\ NewVerifier(env) # {} => env.key \in DOMAIN HexBytes
    BY <1>2 DEF NewVerifier
  <2>2. keyed.allowUnsafe = env.unsafe
    OBVIOUS
  <2> HIDE DEF keyed
  <2>3. NewVerifier(env) = {keyed} /\ v = keyed /\ env.key # ""
    BY <2>1, HexAssumption
  <2>4. QED
    BY <2>2, <2>3
<1>3. QED
  BY <1>1, <1>2

\* Whatever key, salt and length a process runs with, a request that its own
\* verifier has not signed reaches no libvips call (NewVerifier, Verify,
\* handleParams).
THEOREM KeyRequired == Spec => []UnsignedGetsNowhere
<1>1. ASSUME ResizerInv, ~ isLegacy, isSigned
      PROVE  \E env \in Environments :
               /\ NewVerifier(env) = {verifier}
               /\ IF request.signature = Unsafe THEN env.unsafe
                  ELSE env.key # "" /\ request.signature = digest(verifier, request.segments)
  <2>1. PICK env \in Environments : verifier \in NewVerifier(env)
    BY <1>1 DEF ResizerInv, TypeOK
  <2>2. /\ NewVerifier(env) = {verifier} /\ verifier.allowUnsafe = env.unsafe
        /\ verifier.key # << >> => env.key # ""
    BY <2>1, OnlyVerifier
  <2>3. QED
    BY <1>1, <2>2 DEF isSigned, Verify
<1>2. ResizerInv => UnsignedGetsNowhere
  BY <1>1 DEF UnsignedGetsNowhere, SignedOK, ResizerInv
<1>3. QED
  BY <1>2, ResizerInvariant, PTL

\* No requested side and no MAX_DIMENSION is exceeded (Validate and the stages).
THEOREM ResultBounded == Spec => []ResultFitsBox
<1>1. ASSUME ResizerInv, Rendered, ~ isLegacy
      PROVE  /\ Requested.w > 0 =>
                  image.w <= Requested.w /\ (MaxDimension > 0 => image.w <= MaxDimension)
             /\ Requested.h > 0 =>
                  image.h <= Requested.h /\ (MaxDimension > 0 => image.h <= MaxDimension)
  <2>1. Fits(Requested, image)
    BY <1>1, RenderedFacts DEF SizeOK, Padded
  <2>2. MaxDimension > 0 => Requested.w <= MaxDimension /\ Requested.h <= MaxDimension
    BY <1>1, RenderedFacts DEF Validate, Size
  <2>3. /\ Requested.w \in Nat /\ Requested.h \in Nat /\ image.w \in Nat /\ image.h \in Nat
        /\ MaxDimension \in Nat
    BY <1>1, RenderedFacts, ResizerAssumption
  <2>4. QED
    BY <2>1, <2>2, <2>3 DEF Fits
<1>2. ResizerInv => ResultFitsBox
  BY <1>1 DEF ResultFitsBox
<1>3. QED
  BY <1>2, ResizerInvariant, PTL

\* No area leaves its image and no image its canvas (anchorOffset, embedTo).
THEOREM AreasStayInside == Spec => []AreasInside
<1>1. ResizerInv => AreasInside
  BY DEF ResizerInv
<1>2. QED
  BY <1>1, ResizerInvariant, PTL

\* A box side is 0 only where the true side is at most one pixel
\* (targetDimensions, fillTo, applyLegacy).
THEOREM BoxesHavePixels == Spec => []BoxesHaveSides
<1>1. ResizerInv => BoxesHaveSides
  BY DEF ResizerInv
<1>2. QED
  BY <1>1, ResizerInvariant, PTL

\* contain, cover, force and extend give the size asked for.
THEOREM SizeAsAsked == Spec => []LandsOnBox
<1>1. ASSUME ResizerInv, Rendered, BothSides,
             IF isLegacy THEN request.fit \in {"contain", "cover"}
             ELSE options.extend.enabled \/ EffectiveResizingType(options) = "force"
      PROVE  Size(image.w, image.h) = Requested
  <2>1. Lands(Requested, image)
    BY <1>1, RenderedFacts DEF SizeOK, LegacyOK, Padded, Both, BothSides, Resizing
  <2>2. QED
    BY <1>1, <2>1, RenderedFacts DEF Lands, Size
<1>2. ResizerInv => LandsOnBox
  BY <1>1 DEF LandsOnBox
<1>3. QED
  BY <1>2, ResizerInvariant, PTL

\* fill, fill-down and extend_aspect_ratio reach the ratio asked for up to one
\* rounding (fitBox, aspectRatioTarget).
THEOREM RatioAsAsked == Spec => []RatioReached
<1>1. ASSUME ResizerInv, Rendered, ~ isLegacy, BothSides,
             \/ EffectiveResizingType(options) \in {"fill", "fill-down"}
             \/ options.extend_aspect_ratio.enabled
      PROVE  InRatio(Requested, image)
  BY <1>1, RenderedFacts DEF SizeOK, Padded, Both, BothSides, Resizing
<1>2. ResizerInv => RatioReached
  BY <1>1 DEF RatioReached, InRatio
<1>3. QED
  BY <1>2, ResizerInvariant, PTL

\* Without enlarge, force or padding no side grows (sizeStrategy, fillTo).
THEOREM NothingGrows == Spec => []NeverEnlarges
<1>1. ASSUME ResizerInv, Rendered, ~ isLegacy,
             ~ options.enlarge, EffectiveResizingType(options) # "force",
             ~ options.extend.enabled, ~ options.extend_aspect_ratio.enabled
      PROVE  image.w <= source.w /\ image.h <= source.h
  BY <1>1, RenderedFacts DEF SizeOK, Padded, Resizing, Within
<1>2. ResizerInv => NeverEnlarges
  BY <1>1 DEF NeverEnlarges
<1>3. QED
  BY <1>2, ResizerInvariant, PTL

\* Transparency reaches the encoder where it was asked for and nowhere else
\* (padColor, applyBackgroundStage, effectiveKeepAlpha).
THEOREM TransparencyKept == Spec => []TransparencyAsAsked
<1>1. ASSUME ResizerInv, Rendered, isLegacy
      PROVE  image.alpha <=> source.alpha /\ Keep
  BY <1>1, RenderedFacts DEF LegacyOK
<1>2. ASSUME ResizerInv, Rendered, ~ isLegacy
      PROVE  /\ image.alpha => PadIsTransparent
             /\ source.alpha /\ PadIsTransparent => image.alpha
  BY <1>2, RenderedFacts DEF AlphaOK
<1>3. ResizerInv => TransparencyAsAsked
  <2> SUFFICES ASSUME ResizerInv, Rendered PROVE TransparencyAsAsked
    BY DEF TransparencyAsAsked
  <2>1. CASE isLegacy
    BY <1>1, <2>1 DEF TransparencyAsAsked, Keep, effectiveKeepAlpha
  <2>2. CASE ~ isLegacy
    BY <1>2, <2>2 DEF TransparencyAsAsked, PadIsTransparent
  <2>3. QED
    BY <2>1, <2>2
<1>4. QED
  BY <1>3, ResizerInvariant, PTL
===============================================================================
