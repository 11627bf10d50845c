------------------------------ MODULE ProcOpts ------------------------------
(***************************************************************************)
(* internal/procopts: the processing options of a /_p/ URL.                *)
(*                                                                         *)
(* A segment "name:arg:arg" is the record [name, args]; a segment without  *)
(* that shape, where the source tail begins, has the name "".  Tokens are  *)
(* in lower case, as every parser takes them.  Fractional numbers are kept *)
(* in thousandths.  A parser yields the set of its results: one value, or  *)
(* none when it fails.                                                     *)
(***************************************************************************)
EXTENDS Integers, SequencesExt

CONSTANTS
    Number,     \* Number[s]: the integer token s spells (strconv.Atoi)
    Decimal,    \* Decimal[s]: the number token s spells, in thousandths
    Hex,        \* Hex[s]: the colour the hex digits s spell, as three channels
    Alnum       \* the tokens made of letters and digits only

\* Nothing at all spells no number, and "0" spells zero (strconv).
ASSUME TokenAssumption ==
    /\ "" \notin DOMAIN Number
    /\ \A s \in DOMAIN Number : Number[s] \in Int
    /\ \A s \in DOMAIN Decimal : Decimal[s] \in Int
    /\ "0" \in DOMAIN Number /\ Number["0"] = 0
    /\ "0" \in DOMAIN Decimal /\ Decimal["0"] = 0
    /\ \A s \in DOMAIN Hex : Hex[s] \in Seq(Int)
    /\ Alnum \subseteq STRING

\* What splitSegment makes of a path segment.
PathSegment == [name : STRING, args : Seq(STRING)]

Reads(table, s) == IF s \in DOMAIN table THEN {table[s]} ELSE {}

argAt(args, i) == IF i \in DOMAIN args THEN args[i] ELSE ""

From(args, n) == SubSeq(args, n, Len(args))

-----------------------------------------------------------------------------
(* Option values.  Each zero value is the documented default.              *)

NoGravity == [type |-> "", x |-> 0, y |-> 0]

GravityTypes ==
    {"no", "so", "ea", "we", "noea", "nowe", "soea", "sowe", "ce", "sm", "fp"}

ResizingTypes == {"fit", "fill", "fill-down", "force", "auto"}

NoExtend == [enabled |-> FALSE, gravity |-> NoGravity]

NoCrop == [width |-> 0, height |-> 0, gravity |-> NoGravity]

\* No colour at all stands for HasBackground = false.
NoOptions ==
    [width |-> 0, height |-> 0, resizing_type |-> "", enlarge |-> FALSE,
     extend |-> NoExtend, extend_aspect_ratio |-> NoExtend, gravity |-> NoGravity,
     crop |-> NoCrop, background |-> << >>, raw |-> FALSE, skip_processing |-> {}]

\* What every parser returns.
Gravity == [type : GravityTypes \union {""}, x : Int, y : Int]

Extension == [enabled : BOOLEAN, gravity : Gravity]

OptionRecord ==
    [width : Nat, height : Nat, resizing_type : ResizingTypes \union {""}, enlarge : BOOLEAN,
     extend : Extension, extend_aspect_ratio : Extension, gravity : Gravity,
     crop : [width : Nat, height : Nat, gravity : Gravity],
     background : Seq(Int), raw : BOOLEAN, skip_processing : SUBSET STRING]

parseBool(s) ==
    {b \in BOOLEAN : s \in IF b THEN {"1", "t", "true"} ELSE {"0", "f", "false"}}

parseDimension(s) == {v \in Reads(Number, s) : v >= 0}

parseFloatDimension(s) == IF s = "" THEN {0} ELSE {v \in Reads(Decimal, s) : v >= 0}

parseOffset(s) == IF s = "" THEN {0} ELSE Reads(Decimal, s)

\* Without a type the rest is not even looked at.
parseGravity(args, allowSmart) ==
    IF argAt(args, 1) = "" THEN {NoGravity}
    ELSE {g \in [type : GravityTypes \intersect {args[1]},
                 x : parseOffset(argAt(args, 2)), y : parseOffset(argAt(args, 3))] :
            /\ Len(args) <= 3
            /\ g.type = "sm" => allowSmart /\ g.x = 0 /\ g.y = 0}

parseExtendArgs(args) ==
    [enabled : IF argAt(args, 1) = "" THEN {FALSE} ELSE parseBool(args[1]),
     gravity : parseGravity(From(args, 2), FALSE)]

parseCrop(args) ==
    [width   : parseFloatDimension(argAt(args, 1)),
     height  : parseFloatDimension(argAt(args, 2)),
     gravity : parseGravity(From(args, 3), TRUE)]

parseChannel(s) == Reads(Number, s) \intersect 0 .. 255

parseChannels(args) ==
    {<<r, g, b>> : r \in parseChannel(args[1]), g \in parseChannel(args[2]),
                   b \in parseChannel(args[3])}

parseBackground(args) ==
    IF \A i \in DOMAIN args : args[i] = "" THEN {<< >>}
    ELSE CASE Len(args) = 1 -> Reads(Hex, args[1])
           [] Len(args) = 3 -> parseChannels(args)
           [] OTHER -> {}

\* Order and repetitions of extensions do not matter to anyone.
parseSkipProcessing(args) ==
    LET exts == ToSet(args) \ {""} IN {e \in {exts} : e # {} /\ e \subseteq Alnum}

-----------------------------------------------------------------------------
(* The appliers                                                            *)

\* An atomic option without an argument leaves its field as it is.
AtomicValues(field, s) ==
    CASE field \in {"width", "height"} -> parseDimension(s)
      [] field = "resizing_type"       -> ResizingTypes \intersect {s}
      [] field \in {"enlarge", "raw"}  -> parseBool(s)

applyAtomic(o, field, s) ==
    IF s = "" THEN {o} ELSE {[o EXCEPT ![field] = v] : v \in AtomicValues(field, s)}

\* Any other option replaces its field, arguments or not.
WholeValues(field, args) ==
    CASE field \in {"extend", "extend_aspect_ratio"} -> parseExtendArgs(args)
      [] field = "gravity"         -> parseGravity(args, TRUE)
      [] field = "crop"            -> parseCrop(args)
      [] field = "background"      -> parseBackground(args)
      [] field = "skip_processing" -> parseSkipProcessing(args)

applyWhole(o, field, args) == {[o EXCEPT ![field] = v] : v \in WholeValues(field, args)}

Compound == [resize |-> <<"resizing_type", "width", "height", "enlarge">>,
             size   |-> <<"width", "height", "enlarge">>]

FieldThrough(os, field, s) == UNION {applyAtomic(o, field, s) : o \in os}

\* Field by field, each with the argument in its place.
FieldsAfter(os, fields, args) ==
    LET after[i \in 0 .. Len(fields)] ==
          IF i = 0 THEN os ELSE FieldThrough(after[i - 1], fields[i], argAt(args, i))
    IN  after

applyFields(o, fields, args) == FieldsAfter({o}, fields, args)[Len(fields)]

\* Mutant: a compound option always sets extend, be it to nothing.
applyCompoundClears(o, name, args) ==
    LET fields == Compound[name] IN
    UNION {applyWhole(p, "extend", From(args, Len(fields) + 1)) : p \in applyFields(o, fields, args)}

\* resize and size delegate, argument by argument; what is left over is extend's.
applyCompound(o, name, args) ==
    LET fields == Compound[name]
        atomic == applyFields(o, fields, args)
    IN  IF Len(args) <= Len(fields) THEN atomic
        ELSE UNION {applyWhole(p, "extend", From(args, Len(fields) + 1)) : p \in atomic}

Atomic == {"width", "height", "resizing_type", "enlarge", "raw"}

\* The long name behind every spelling a URL may use.
Aliases == [rs |-> "resize", s |-> "size", w |-> "width", h |-> "height",
            rt |-> "resizing_type", el |-> "enlarge", ex |-> "extend",
            extend_ar |-> "extend_aspect_ratio", exar |-> "extend_aspect_ratio",
            g |-> "gravity", c |-> "crop", bg |-> "background", skp |-> "skip_processing"]

LongNames == DOMAIN NoOptions \union DOMAIN Compound

LongName(name) == IF name \in DOMAIN Aliases THEN Aliases[name] ELSE name

\* One option segment: an unknown name and too many arguments are errors.
Apply(o, segment) ==
    LET name == LongName(segment.name)  args == segment.args IN
    CASE name \notin LongNames      -> {}
      [] name \in Atomic            -> IF Len(args) > 1 THEN {} ELSE applyAtomic(o, name, argAt(args, 1))
      [] name \in DOMAIN Compound   -> applyCompound(o, name, args)
      [] name = "background" /\ Len(args) > 3 -> {}
      [] OTHER                      -> applyWhole(o, name, args)

\* The options come first; the first segment without their shape starts the tail.
OptionCount(segments) ==
    LET tails == {i \in 1 .. Len(segments) : segments[i].name = ""} IN
    IF tails = {} THEN Len(segments) ELSE Min(tails) - 1

SourceOf(segments) == From(segments, OptionCount(segments) + 1)

Through(os, segment) == UNION {Apply(o, segment) : o \in os}

\* What os become by each of the segments in turn: later options override
\* earlier ones of the same name.
OptionsAfter(os, segments) ==
    LET after[i \in 0 .. Len(segments)] ==
          IF i = 0 THEN os ELSE Through(after[i - 1], segments[i])
    IN  after

ParseOptions(segments) == OptionsAfter({NoOptions}, segments)[OptionCount(segments)]

-----------------------------------------------------------------------------
(* What the options mean together                                          *)

\* A bound of 0 disables the check.
Validate(o, maxDimension) ==
    maxDimension > 0 =>
      /\ o.width <= maxDimension /\ o.height <= maxDimension
      /\ o.crop.width <= 1000 * maxDimension /\ o.crop.height <= 1000 * maxDimension

EffectiveResizingType(o) == IF o.resizing_type = "" THEN "fit" ELSE o.resizing_type

SkipsFormat(o, format) == format # "" /\ format \in o.skip_processing

CropIsDefault(c) == c.width = 0 /\ c.height = 0

GravityIsDefault(g) == g.type = "" \/ (g.type = "ce" /\ g.x = 0 /\ g.y = 0)

\* A focus point always shows its coordinates: 0:0 is a corner.
GravityText(g) ==
    IF g.type = "fp" \/ g.x # 0 \/ g.y # 0 THEN <<g.type, g.x, g.y>> ELSE <<g.type>>

OwnGravity(g) == IF GravityIsDefault(g) THEN << >> ELSE GravityText(g)

\* What the canonical form shows of a field: nothing when it is at its default.
CanonicalValue(o, field) ==
    LET v == o[field] IN
    CASE field = "crop" -> IF CropIsDefault(v) THEN << >> ELSE <<v.width, v.height>> \o OwnGravity(v.gravity)
      [] field \in {"extend", "extend_aspect_ratio"} ->
           IF v.enabled THEN <<"1">> \o OwnGravity(v.gravity) ELSE << >>
      [] field = "gravity"       -> OwnGravity(v)
      [] field = "resizing_type" -> IF v \in {"", "fit"} THEN << >> ELSE <<v>>
      [] field = "background"    -> v
      [] field \in {"width", "height"} -> IF v = 0 THEN << >> ELSE <<v>>
      [] field \in {"enlarge", "raw"}  -> IF v THEN <<"1">> ELSE << >>
      [] field = "skip_processing"     -> IF v = {} THEN << >> ELSE <<v>>

\* Mutant: the canonical form forgets where a padded image is anchored.
CanonicalNoAnchor(o) ==
    LET seen == [o EXCEPT !.extend.gravity = NoGravity] IN
    {<<f, CanonicalValue(seen, f)>> : f \in {g \in DOMAIN o : CanonicalValue(seen, g) # << >>}}

\* Named values in a fixed order, so a set; it is part of the cache key.
Canonical(o) ==
    {<<f, CanonicalValue(o, f)>> : f \in {g \in DOMAIN o : CanonicalValue(o, g) # << >>}}
==============================================================================
