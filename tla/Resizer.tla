------------------------------- MODULE Resizer -------------------------------
(***************************************************************************)
(* One rendering, from the gates of handleParams or from a legacy job      *)
(* through the stages of internal/resizer/resizer.go, on sizes, alpha and  *)
(* where areas are cut and images placed.                                  *)
(***************************************************************************)
EXTENDS ParamRoute, UrlSign, Geometry

CONSTANTS
    Environments,   \* signing configurations
    Requests,       \* [segments, signature] of /_p/ URLs
    LegacyJobs,     \* [w, h, fit, alpha, format] of the other URLs and the worker
    Sources,        \* [w, h, alpha, svg]
    MaxDimension    \* MAX_DIMENSION, 0 for no bound

ImageRecord == [w : Nat \ {0}, h : Nat \ {0}, alpha : BOOLEAN, svg : BOOLEAN]

ASSUME ResizerAssumption ==
    /\ MaxDimension \in Nat
    /\ Sources \subseteq ImageRecord
    /\ \A j \in LegacyJobs : "fit" \in DOMAIN j /\ j.w \in Nat /\ j.h \in Nat
    /\ \A r \in Requests : /\ "fit" \notin DOMAIN r
                          /\ r.segments \in Seq(PathSegment)

VARIABLES
    verifier,       \* the verifier the process runs with
    request,        \* a request or a legacy job
    source,         \* the image it is about
    options,        \* what the request's options parse to, once admitted
    stage,          \* the next stage, or "done" or "untouched"
    reply,          \* 0 while at work, then the status
    image,          \* the image at this stage
    placed,         \* history: the last box cut from, or put on, a canvas
    box             \* history: the box last given to libvips

vars == <<verifier, request, source, options, stage, reply, image, placed, box>>

isLegacy == "fit" \in DOMAIN request

Format == IF isLegacy THEN request.format ELSE OutputFormat(SourceOf(request.segments))

Requested == IF isLegacy THEN Size(request.w, request.h) ELSE Size(options.width, options.height)

BothSides == Requested.w > 0 /\ Requested.h > 0

formatSupportsAlpha(format) == format \in {"png", "webp", "avif"}

Place(left, top, inner, outer) == [left |-> left, top |-> top, inner |-> inner, outer |-> outer]

NotPlaced == Place(0, 0, Size(1, 1), Size(1, 1))

Init ==
    /\ verifier \in UNION {NewVerifier(env) : env \in Environments}
    /\ request \in Requests \union LegacyJobs
    /\ source \in Sources
    /\ stage = IF isLegacy THEN "thumbnail" ELSE "gates"
    /\ options = NoOptions
    /\ reply = 0 /\ image = source /\ placed = NotPlaced /\ box = Size(1, 1)

To(next) == stage' = next /\ UNCHANGED <<verifier, request, source, options, reply>>

Answer(status) == reply' = status /\ stage' = "done" /\ UNCHANGED <<verifier, request, source, options>>

Resized(size) == image' = [image EXCEPT !.w = size.w, !.h = size.h]

-----------------------------------------------------------------------------
(* handleParams                                                            *)

isSigned == Verify(verifier, request.signature, request.segments)

\* Without a verifier "_p/" is a path like any other, and no file's.
RouteIsOff ==
    /\ stage = "gates" /\ ~ verifier.isOn
    /\ Answer(404) /\ UNCHANGED <<image, placed, box>>

Refuse ==
    /\ stage = "gates" /\ verifier.isOn
    /\ \E status \in {Verdict(request.segments, isSigned, MaxDimension)} \ {200} : Answer(status)
    /\ UNCHANGED <<image, placed, box>>

\* Of an admitted request the options are known from here on.
Admitted ==
    IF stage = "gates" /\ verifier.isOn /\ Verdict(request.segments, isSigned, MaxDimension) = 200
    THEN ParseOptions(request.segments) ELSE {}

ServeUntouched ==
    /\ \E o \in Admitted : Passthrough(o, Format)
    /\ reply' = 200 /\ stage' = "untouched"
    /\ UNCHANGED <<verifier, request, source, options, image, placed, box>>

Admit ==
    /\ \E o \in Admitted : ~ Passthrough(o, Format) /\ options' = o
    /\ stage' = "crop" /\ UNCHANGED <<verifier, request, source, reply, image, placed, box>>

-----------------------------------------------------------------------------
(* applyProcessing                                                         *)

\* ExtractArea, or libvips' own choice of a place for a smart crop.
Extract(g, size) ==
    /\ Resized(size)
    /\ IF g.type = "sm" THEN placed' = Place(0, 0, size, Size(image.w, image.h))
       ELSE \E at \in anchorOffset(g, image, size) :
              placed' = Place(at.left, at.top, size, Size(image.w, image.h))

applyCropStage ==
    LET crop == options.crop IN
    /\ stage = "crop" /\ To("resize") /\ UNCHANGED box
    /\ IF CropIsDefault(crop) THEN UNCHANGED <<image, placed>>
       ELSE \E w \in resolveCropDimension(crop.width, image.w),
               h \in resolveCropDimension(crop.height, image.h) :
              IF w >= image.w /\ h >= image.h THEN UNCHANGED <<image, placed>>
              ELSE Extract(crop.gravity, Size(minInt(w, image.w), minInt(h, image.h)))

\* What applyResizeStage has to do, "auto" resolved.
Target == targetDimensions(Requested, image)

ResizingType ==
    LET type == EffectiveResizingType(options) IN
    IF type = "auto" THEN resolveAuto(image, Target) ELSE type

AskedToResize == stage = "resize" /\ Requested # Size(0, 0)

NoResize ==
    /\ stage = "resize" /\ Requested = Size(0, 0)
    /\ To("extend") /\ UNCHANGED <<image, placed, box>>

ResizeToBox ==
    /\ AskedToResize /\ ResizingType \in {"force", "fit"}
    /\ \E size \in Thumbnail(image, Target,
                             IF ResizingType = "force" THEN "force"
                             ELSE IF options.enlarge THEN "both" ELSE "down") : Resized(size)
    /\ box' = Target /\ To("extend") /\ UNCHANGED placed

Downscales == ResizingType = "fill-down" \/ ~ options.enlarge

\* fillTo: stretch to the covering size, then cut the box out.
FillTo ==
    /\ AskedToResize /\ ResizingType \in {"fill", "fill-down"}
    /\ \E covering \in Scaled(image, coverScale(image, Target, Downscales)) :
         /\ box' = covering
         /\ \E cut \in fitBox(Target, covering) :
              /\ Resized(cut)
              /\ IF cut = covering THEN UNCHANGED placed
                 ELSE \E at \in anchorOffset(options.gravity, covering, cut) :
                        placed' = IF options.gravity.type = "sm" THEN Place(0, 0, cut, covering)
                                  ELSE Place(at.left, at.top, cut, covering)
    /\ To("extend")

\* An opaque background, a transparent pad, or white for a format without alpha.
PadIsTransparent == options.background = << >> /\ formatSupportsAlpha(Format)

\* Never shrinks the image.
embedTo(asked, g) ==
    LET canvas == Size(maxInt(asked.w, image.w), maxInt(asked.h, image.h)) IN
    IF canvas = Size(image.w, image.h) THEN UNCHANGED <<image, placed>>
    ELSE \E at \in anchorOffset(g, canvas, image) :
           /\ image' = [image EXCEPT !.w = canvas.w, !.h = canvas.h, !.alpha = @ \/ PadIsTransparent]
           /\ placed' = Place(at.left, at.top, Size(image.w, image.h), canvas)

Extend ==
    /\ stage = "extend" /\ To("extend_aspect_ratio") /\ UNCHANGED box
    /\ IF options.extend.enabled /\ BothSides THEN embedTo(Requested, options.extend.gravity)
       ELSE UNCHANGED <<image, placed>>

ExtendAspectRatio ==
    LET extend == options.extend_aspect_ratio IN
    /\ stage = "extend_aspect_ratio" /\ To("background") /\ UNCHANGED box
    /\ IF extend.enabled /\ BothSides
       THEN \E canvas \in aspectRatioTarget(image, Requested) : embedTo(canvas, extend.gravity)
       ELSE UNCHANGED <<image, placed>>

\* Mutant: only an explicit background flattens.
applyBackgroundStageAsked ==
    /\ stage = "background" /\ To("encode")
    /\ image' = [image EXCEPT !.alpha = @ /\ options.background = << >>]
    /\ UNCHANGED <<placed, box>>

applyBackgroundStage ==
    /\ stage = "background" /\ To("encode")
    /\ image' = [image EXCEPT !.alpha = @ /\ PadIsTransparent]
    /\ UNCHANGED <<placed, box>>

-----------------------------------------------------------------------------
(* applyLegacy                                                             *)

\* libvips refuses a side of 0, or takes the other side for it.
LegacyThumbnail ==
    /\ stage = "thumbnail"
    /\ \E b \in legacyBox(Requested, request.fit, image) :
         /\ box' = b
         /\ \/ /\ 0 \in {b.w, b.h}
               /\ Answer(500) /\ UNCHANGED <<image, placed>>
            \/ /\ b.w > 0
               /\ \E size \in Thumbnail(image, IF b.h = 0 THEN Size(b.w, b.w) ELSE b,
                                        IF request.fit = "cover" THEN "cover" ELSE "both") :
                    Resized(size)
               /\ To("pad") /\ UNCHANGED placed

\* Mutant: an image that already has one of the sides is left as it is.
LegacyPadSmaller ==
    /\ stage = "pad" /\ To("flatten") /\ UNCHANGED box
    /\ IF request.fit = "contain" /\ BothSides /\ image.w < Requested.w /\ image.h < Requested.h
       THEN Resized(Requested) ELSE UNCHANGED image
    /\ UNCHANGED placed

LegacyPad ==
    /\ stage = "pad" /\ To("flatten") /\ UNCHANGED box
    /\ IF request.fit = "contain" /\ BothSides /\ Size(image.w, image.h) # Requested
       THEN /\ Resized(Requested)
            /\ placed' = Place((Requested.w - image.w) \div 2, (Requested.h - image.h) \div 2,
                               Size(image.w, image.h), Requested)
       ELSE UNCHANGED <<image, placed>>

effectiveKeepAlpha(mode, isSvg, format) ==
    /\ formatSupportsAlpha(format)
    /\ mode = "keep" \/ (mode = "auto" /\ isSvg)

LegacyFlatten ==
    /\ stage = "flatten" /\ To("encode")
    /\ image' = [image EXCEPT !.alpha = @ /\ effectiveKeepAlpha(request.alpha, source.svg, Format)]
    /\ UNCHANGED <<placed, box>>

-----------------------------------------------------------------------------

Export == stage = "encode" /\ Answer(200) /\ UNCHANGED <<image, placed, box>>

\* Decoding, any libvips call or the encoder may fail.
VipsFails ==
    /\ stage \in {"crop", "resize", "extend", "extend_aspect_ratio", "background", "thumbnail",
                  "pad", "flatten", "encode"}
    /\ Answer(500) /\ UNCHANGED <<image, placed, box>>

Next ==
    \/ RouteIsOff \/ Refuse \/ ServeUntouched \/ Admit
    \/ applyCropStage \/ NoResize \/ ResizeToBox \/ FillTo \/ Extend \/ ExtendAspectRatio
    \/ applyBackgroundStage
    \/ LegacyThumbnail \/ LegacyPad \/ LegacyFlatten
    \/ Export \/ VipsFails

Spec == Init /\ [][Next]_vars

-----------------------------------------------------------------------------
(* Properties                                                              *)

TypeOK ==
    /\ verifier \in UNION {NewVerifier(env) : env \in Environments}
    /\ request \in Requests \union LegacyJobs /\ source \in Sources
    /\ image \in ImageRecord /\ options \in OptionRecord
    /\ box.w \in Nat /\ box.h \in Nat
    /\ reply \in {0, 200, 400, 403, 404, 500}
    /\ stage \in {"done", "untouched"} <=> reply # 0

Rendered == stage = "done" /\ reply = 200

\* Who does not hold the key learns nothing but 403 or 404, and no libvips call
\* is made for it, whatever the options say (handleParams: "Nothing else runs
\* for an unsigned request"; without a key only "unsafe" can ever verify).
UnsignedGetsNowhere ==
    ~ isLegacy =>
      \/ \E env \in Environments :
           /\ NewVerifier(env) = {verifier}
           /\ IF request.signature = Unsafe THEN env.unsafe
              ELSE env.key # "" /\ request.signature = digest(verifier, request.segments)
      \/ reply \in {0, 403, 404} /\ stage \in {"gates", "done"} /\ image = source

\* Whatever is cut, stretched and padded, a requested side is never exceeded,
\* and so neither is MAX_DIMENSION (Validate, applyResizeStage, applyExtendStage).
ResultFitsBox ==
    Rendered /\ ~ isLegacy =>
      /\ Requested.w > 0 => image.w <= Requested.w /\ (MaxDimension > 0 => image.w <= MaxDimension)
      /\ Requested.h > 0 => image.h <= Requested.h /\ (MaxDimension > 0 => image.h <= MaxDimension)

\* Every area lies inside the image it is cut from and every image inside the
\* canvas it is put on: libvips fails on the one and clips on the other
\* (anchorOffset, fitBox, embedTo, the contain padding of applyLegacy).
AreasInside ==
    /\ placed.left >= 0 /\ placed.left + placed.inner.w <= placed.outer.w
    /\ placed.top >= 0 /\ placed.top + placed.inner.h <= placed.outer.h
    /\ placed.inner.w > 0 /\ placed.inner.h > 0

\* libvips is never asked for a side of 0 by the processing pipeline, and by the
\* legacy one only for an image that much longer than wide that the true side is
\* one pixel or less (applyLegacy's truncations), or for a row of two zeros.
BoxesHaveSides ==
    /\ ~ isLegacy => box.w > 0 /\ box.h > 0
    /\ isLegacy /\ Requested # Size(0, 0) =>
         /\ box.w = 0 => Requested.h * source.w <= source.h
         /\ box.h = 0 => Requested.w * source.h <= source.w

\* contain, cover, force and extend give exactly the size asked for, whatever
\* the sizes and roundings on the way; the aspect-ratio pass adds nothing to an
\* extended image (applyExtendStage, applyLegacy).
LandsOnBox ==
    /\ Rendered /\ BothSides
    /\ IF isLegacy THEN request.fit \in {"contain", "cover"}
       ELSE options.extend.enabled \/ EffectiveResizingType(options) = "force"
    => Size(image.w, image.h) = Requested

\* fill, fill-down and extend_aspect_ratio reach the requested ratio up to the
\* rounding of one side, or run out of pixels (fillTo, fitBox, aspectRatioTarget).
RatioReached ==
    /\ Rendered /\ ~ isLegacy /\ BothSides
    /\ \/ EffectiveResizingType(options) \in {"fill", "fill-down"}
       \/ options.extend_aspect_ratio.enabled
    => LET off == 2 * (image.w * Requested.h - image.h * Requested.w) IN
       \/ 1 \in {image.w, image.h}
       \/ -(Requested.w + Requested.h) <= off /\ off <= Requested.w + Requested.h

\* Without enlarge, force or padding nothing comes out larger than it went in,
\* auto and fill included (sizeStrategy, fillTo).
NeverEnlarges ==
    /\ Rendered /\ ~ isLegacy
    /\ ~ options.enlarge /\ EffectiveResizingType(options) # "force"
    /\ ~ options.extend.enabled /\ ~ options.extend_aspect_ratio.enabled
    => image.w <= source.w /\ image.h <= source.h

\* Transparency reaches the encoder only in a format that carries it and never
\* under a background; a format that does carry it loses none that it should
\* keep (padColor, applyBackgroundStage, effectiveKeepAlpha).
TransparencyAsAsked ==
    Rendered =>
      LET may == formatSupportsAlpha(Format)
                   /\ IF isLegacy THEN request.alpha = "keep" \/ (request.alpha = "auto" /\ source.svg)
                      ELSE options.background = << >>
      IN  /\ image.alpha => may
          /\ source.alpha /\ may => image.alpha
==============================================================================
