---------------------------- MODULE ProcOptsProofs ----------------------------
(***************************************************************************)
(* Proofs about the option parser, for lists of options of any length.     *)
(*                                                                         *)
(* What a list parses to is computed by a recursive function.  Induction   *)
(* over its argument is done with sets of numbers: the library's theorem   *)
(* that every nonempty set of naturals has a least element needs no        *)
(* operator for a parameter.                                               *)
(***************************************************************************)
EXTENDS ProcOpts, SequenceTheorems, WellFoundedInduction, TLAPS

-----------------------------------------------------------------------------
(* Induction up to a number.                                               *)

LEMMA UpTo ==
    ASSUME NEW n \in Nat, NEW T, 0 \in T, \A i \in 0 .. n - 1 : i \in T => i + 1 \in T
    PROVE  0 .. n \subseteq T
<1> DEFINE Bad == (0 .. n) \ T
<1>1. CASE Bad = {}
  BY <1>1
<1>2. CASE Bad # {}
  <2>1. Bad \subseteq Nat
    OBVIOUS
  <2>2. PICK x \in Bad : \A y \in Bad : ~ (<<y, x>> \in OpToRel(<, Nat))
    <3>1. \E x \in Bad : \A y \in Bad : ~ (<<y, x>> \in OpToRel(<, Nat))
      BY <1>2, <2>1, NatLessThanWellFounded, WFMin
    <3> QED
      BY <3>1
  <2>3. x # 0 /\ x - 1 \in 0 .. n - 1
    BY DEF Bad
  <2>4. <<x - 1, x>> \in OpToRel(<, Nat)
    BY <2>1, <2>3 DEF OpToRel
  <2>5. x - 1 \in T
    <3>1. x - 1 \notin Bad
      BY <2>2, <2>4
    <3> QED
      BY <2>3, <3>1 DEF Bad
  <2> QED
    BY <2>3, <2>5 DEF Bad
<1> QED
  BY <1>1, <1>2

-----------------------------------------------------------------------------
(* The recurrence of OptionsAfter, and that nothing else satisfies it.     *)

LEMMA AfterDef ==
    ASSUME NEW os, NEW list, Len(list) \in Nat
    PROVE  /\ OptionsAfter(os, list)[0] = os
           /\ \A i \in 1 .. Len(list) :
                OptionsAfter(os, list)[i] = Through(OptionsAfter(os, list)[i - 1], list[i])
<1> DEFINE n == Len(list)
           Is(h, m) == h = [i \in 0 .. m |->
                              IF i = 0 THEN os ELSE Through(h[i - 1], list[i])]
           T == {m \in 0 .. n : \E h : Is(h, m)}
<1>1. 0 \in T
  <2>1. Is([i \in 0 .. 0 |-> os], 0)
    OBVIOUS
  <2> HIDE DEF Is
  <2>2. \E h : Is(h, 0)
    BY <2>1
  <2> QED
    BY <2>2
<1>2. ASSUME NEW m \in 0 .. n - 1, m \in T
      PROVE  m + 1 \in T
  <2>1. PICK h : Is(h, m)
    BY <1>2
  <2> DEFINE g == [i \in 0 .. m + 1 |->
                     IF i = m + 1 THEN Through(h[m], list[m + 1]) ELSE h[i]]
  <2>2. Is(g, m + 1)
    BY <2>1
  <2> HIDE DEF Is, g
  <2>3. \E k : Is(k, m + 1)
    BY <2>2
  <2> QED
    BY <2>3
<1> HIDE DEF T
<1>3. n \in T
  <2> HIDE DEF n
  <2>1. n \in Nat
    BY DEF n
  <2>2. 0 .. n \subseteq T
    BY <1>1, <1>2, <2>1, UpTo
  <2> QED
    BY <2>1, <2>2
<1> USE DEF T
<1>4. PICK h : Is(h, n)
  BY <1>3
<1>5. Is(OptionsAfter(os, list), n)
  BY <1>4 DEF OptionsAfter
<1> QED
  BY <1>5

LEMMA AfterUnique ==
    ASSUME NEW os, NEW list, Len(list) \in Nat, NEW a, NEW n \in 0 .. Len(list),
           a[0] = os, \A i \in 1 .. n : a[i] = Through(a[i - 1], list[i])
    PROVE  OptionsAfter(os, list)[n] = a[n]
<1> DEFINE T == {i \in 0 .. n : OptionsAfter(os, list)[i] = a[i]}
<1>1. 0 \in T
  BY AfterDef
<1>2. ASSUME NEW i \in 0 .. n - 1, i \in T
      PROVE  i + 1 \in T
  <2>1. OptionsAfter(os, list)[i + 1] = Through(OptionsAfter(os, list)[i], list[i + 1])
    BY AfterDef
  <2>2. a[i + 1] = Through(a[i], list[i + 1])
    OBVIOUS
  <2> QED
    BY <1>2, <2>1, <2>2
<1>3. 0 .. n \subseteq T
  <2> HIDE DEF T
  <2>1. n \in Nat
    OBVIOUS
  <2>2. \A i \in 0 .. n - 1 : i \in T => i + 1 \in T
    BY <1>2
  <2> QED
    BY <1>1, <2>1, <2>2, UpTo
<1> QED
  BY <1>3

-----------------------------------------------------------------------------
(* The parsers: each yields at most one value, and one of its type.        *)

Single(S) == \A a, b \in S : a = b

LEMMA Reading ==
    /\ \A s : Reads(Number, s) \subseteq Int /\ Single(Reads(Number, s))
    /\ \A s : Reads(Decimal, s) \subseteq Int /\ Single(Reads(Decimal, s))
    /\ \A s : Reads(Hex, s) \subseteq Seq(Int) /\ Single(Reads(Hex, s))
BY TokenAssumption DEF TokenAssumption, Reads, Single

LEMMA BoolParsed ==
    ASSUME NEW s
    PROVE  parseBool(s) \subseteq BOOLEAN /\ Single(parseBool(s))
<1>1. parseBool(s) \subseteq BOOLEAN
  BY DEF parseBool
<1>2. TRUE \in parseBool(s) => s \in {"1", "t", "true"}
  BY DEF parseBool
<1>3. FALSE \in parseBool(s) => s \in {"0", "f", "false"}
  BY DEF parseBool
<1>4. ~ (TRUE \in parseBool(s) /\ FALSE \in parseBool(s))
  BY <1>2, <1>3
<1>5. \A a, b \in parseBool(s) : a = b
  BY <1>1, <1>4
<1> QED
  BY <1>1, <1>5 DEF Single

LEMMA NumbersParsed ==
    ASSUME NEW s
    PROVE  /\ parseDimension(s) \subseteq Nat /\ Single(parseDimension(s))
           /\ parseFloatDimension(s) \subseteq Nat /\ Single(parseFloatDimension(s))
           /\ parseOffset(s) \subseteq Int /\ Single(parseOffset(s))
           /\ parseChannel(s) \subseteq Int /\ Single(parseChannel(s))
<1> USE DEF Single
<1>1. parseDimension(s) \subseteq Nat /\ Single(parseDimension(s))
  <2>1. parseDimension(s) \subseteq Reads(Number, s) \intersect Nat
    BY Reading DEF parseDimension
  <2> QED
    BY <2>1, Reading
<1>2. parseFloatDimension(s) \subseteq Nat /\ Single(parseFloatDimension(s))
  <2>1. CASE s = ""
    <3>1. parseFloatDimension(s) = {0}
      BY <2>1 DEF parseFloatDimension
    <3> QED
      BY <3>1
  <2>2. CASE s # ""
    <3>1. parseFloatDimension(s) = {v \in Reads(Decimal, s) : v >= 0}
      BY <2>2 DEF parseFloatDimension
    <3> QED
      BY <3>1, Reading
  <2> QED
    BY <2>1, <2>2
<1>3. parseOffset(s) \subseteq Int /\ Single(parseOffset(s))
  <2>1. CASE s = ""
    <3>1. parseOffset(s) = {0}
      BY <2>1 DEF parseOffset
    <3> QED
      BY <3>1
  <2>2. CASE s # ""
    BY <2>2, Reading DEF parseOffset
  <2> QED
    BY <2>1, <2>2
<1>4. parseChannel(s) \subseteq Int /\ Single(parseChannel(s))
  BY Reading DEF parseChannel
<1> QED
  BY <1>1, <1>2, <1>3, <1>4

LEMMA GravityParsed ==
    ASSUME NEW args, NEW allowSmart \in BOOLEAN
    PROVE  /\ parseGravity(args, allowSmart) \subseteq Gravity
           /\ Single(parseGravity(args, allowSmart))
<1> DEFINE G == parseGravity(args, allowSmart)
           X == parseOffset(argAt(args, 2))
           Y == parseOffset(argAt(args, 3))
           All == [type : GravityTypes \intersect {args[1]}, x : X, y : Y]
<1>1. CASE argAt(args, 1) = ""
  <2>1. G = {NoGravity}
    BY <1>1 DEF parseGravity
  <2>2. NoGravity \in Gravity
    BY DEF NoGravity, Gravity
  <2> QED
    BY <2>1, <2>2 DEF Single
<1>2. CASE argAt(args, 1) # ""
  <2>1. G \subseteq All
    BY <1>2 DEF parseGravity
  <2>2. X \subseteq Int /\ Y \subseteq Int /\ Single(X) /\ Single(Y)
    BY NumbersParsed
  <2> HIDE DEF X, Y, G
  <2>3. All \subseteq Gravity
    BY <2>2 DEF Gravity, GravityTypes
  <2>4. ASSUME NEW a \in All, NEW b \in All
        PROVE  a = b
    <3>1. a.type = b.type /\ a.x = b.x /\ a.y = b.y
      BY <2>2 DEF Single
    <3> QED
      BY <3>1
  <2>5. Single(G)
    BY <2>1, <2>4 DEF Single
  <2> QED
    BY <2>1, <2>3, <2>5 DEF G
<1> QED
  BY <1>1, <1>2

LEMMA ExtendParsed ==
    ASSUME NEW args
    PROVE  /\ parseExtendArgs(args) \subseteq Extension
           /\ Single(parseExtendArgs(args))
<1> DEFINE E == IF argAt(args, 1) = "" THEN {FALSE} ELSE parseBool(args[1])
           G == parseGravity(From(args, 2), FALSE)
<1>1. E \subseteq BOOLEAN /\ Single(E)
  <2>1. CASE argAt(args, 1) = ""
    BY <2>1 DEF Single
  <2>2. CASE argAt(args, 1) # ""
    BY <2>2, BoolParsed
  <2> QED
    BY <2>1, <2>2
<1>2. G \subseteq Gravity /\ Single(G)
  BY GravityParsed
<1>3. parseExtendArgs(args) = [enabled : E, gravity : G]
  BY DEF parseExtendArgs
<1> HIDE DEF E, G
<1>4. [enabled : E, gravity : G] \subseteq Extension
  BY <1>1, <1>2 DEF Extension
<1>5. ASSUME NEW a \in [enabled : E, gravity : G], NEW b \in [enabled : E, gravity : G]
      PROVE  a = b
  <2>1. a.enabled = b.enabled /\ a.gravity = b.gravity
    BY <1>1, <1>2 DEF Single
  <2> QED
    BY <2>1
<1> QED
  BY <1>3, <1>4, <1>5 DEF Single

CropRecord == [width : Nat, height : Nat, gravity : Gravity]

LEMMA CropParsed ==
    ASSUME NEW args
    PROVE  /\ parseCrop(args) \subseteq CropRecord
           /\ Single(parseCrop(args))
<1> DEFINE W == parseFloatDimension(argAt(args, 1))
           H == parseFloatDimension(argAt(args, 2))
           G == parseGravity(From(args, 3), TRUE)
<1>1. W \subseteq Nat /\ Single(W) /\ H \subseteq Nat /\ Single(H)
  BY NumbersParsed
<1>2. G \subseteq Gravity /\ Single(G)
  BY GravityParsed
<1>3. parseCrop(args) = [width : W, height : H, gravity : G]
  BY DEF parseCrop
<1> HIDE DEF W, H, G
<1>4. [width : W, height : H, gravity : G] \subseteq CropRecord
  BY <1>1, <1>2 DEF CropRecord
<1>5. ASSUME NEW a \in [width : W, height : H, gravity : G], NEW b \in [width : W, height : H, gravity : G]
      PROVE  a = b
  <2>1. a.width = b.width /\ a.height = b.height /\ a.gravity = b.gravity
    BY <1>1, <1>2 DEF Single
  <2> QED
    BY <2>1
<1> QED
  BY <1>3, <1>4, <1>5 DEF Single

LEMMA ChannelsParsed ==
    ASSUME NEW args
    PROVE  /\ parseChannels(args) \subseteq Seq(Int)
           /\ Single(parseChannels(args))
<1> DEFINE A == parseChannel(args[1])
           B == parseChannel(args[2])
           C == parseChannel(args[3])
           Channels == {<<r, g, b>> : r \in A, g \in B, b \in C}
<1>1. /\ A \subseteq Int /\ Single(A) /\ B \subseteq Int /\ Single(B)
      /\ C \subseteq Int /\ Single(C)
  BY NumbersParsed
<1>2. parseChannels(args) = Channels
  BY DEF parseChannels
<1> HIDE DEF A, B, C
<1>3. \A r \in A, g \in B, b \in C : <<r, g, b>> \in Seq(Int)
  BY <1>1
<1>4. ASSUME NEW x \in Channels
      PROVE  x \in Seq(Int)
  <2>1. PICK r \in A, g \in B, b \in C : x = <<r, g, b>>
    OBVIOUS
  <2> QED
    BY <1>3, <2>1
<1>5. ASSUME NEW x \in Channels, NEW y \in Channels
      PROVE  x = y
  <2>1. PICK r \in A, g \in B, b \in C : x = <<r, g, b>>
    OBVIOUS
  <2>2. PICK rr \in A, gg \in B, bb \in C : y = <<rr, gg, bb>>
    OBVIOUS
  <2> QED
    BY <1>1, <2>1, <2>2 DEF Single
<1> QED
  BY <1>2, <1>4, <1>5 DEF Single

LEMMA BackgroundParsed ==
    ASSUME NEW args
    PROVE  /\ parseBackground(args) \subseteq Seq(Int)
           /\ Single(parseBackground(args))
<1> DEFINE Digits == Reads(Hex, args[1])
           Channels == parseChannels(args)
<1>1. Digits \subseteq Seq(Int) /\ Single(Digits)
  BY Reading
<1>2. Channels \subseteq Seq(Int) /\ Single(Channels)
  BY ChannelsParsed
<1>3. {<< >>} \subseteq Seq(Int) /\ Single({<< >>}) /\ {} \subseteq Seq(Int) /\ Single({})
  BY DEF Single
<1> HIDE DEF Digits, Channels
<1>4. \/ parseBackground(args) = {<< >>} \/ parseBackground(args) = Digits
      \/ parseBackground(args) = Channels \/ parseBackground(args) = {}
  <2>1. parseBackground(args) =
            IF \A i \in DOMAIN args : args[i] = "" THEN {<< >>}
            ELSE CASE Len(args) = 1 -> Digits [] Len(args) = 3 -> Channels [] OTHER -> {}
    BY DEF parseBackground, Digits, Channels
  <2>2. CASE Len(args) = 1
    <3>1. Len(args) # 3
      BY <2>2
    <3> QED
      BY <2>1, <2>2, <3>1
  <2>3. CASE Len(args) = 3
    <3>1. Len(args) # 1
      BY <2>3
    <3> QED
      BY <2>1, <2>3, <3>1
  <2>4. CASE Len(args) # 1 /\ Len(args) # 3
    BY <2>1, <2>4
  <2> QED
    BY <2>2, <2>3, <2>4
<1> QED
  BY <1>1, <1>2, <1>3, <1>4

LEMMA SkipParsed ==
    ASSUME NEW args
    PROVE  /\ parseSkipProcessing(args) \subseteq SUBSET STRING
           /\ Single(parseSkipProcessing(args))
BY TokenAssumption DEF TokenAssumption, parseSkipProcessing, Single

-----------------------------------------------------------------------------
(* What an option does: it overrides some fields, by the same values       *)
(* whatever the options are so far, or it fails whatever they are.         *)

Overridden(o, C, p) == [f \in DOMAIN NoOptions |-> IF f \in C THEN p[f] ELSE o[f]]

\* F overrides only fields of D.
Acts(F, D) ==
    \E C \in SUBSET D, E \in SUBSET OptionRecord :
      Single(E) /\ \A o \in OptionRecord : F[o] = {Overridden(o, C, p) : p \in E}

LEMMA FieldNames ==
    DOMAIN NoOptions =
      {"width", "height", "resizing_type", "enlarge", "extend", "extend_aspect_ratio",
       "gravity", "crop", "background", "raw", "skip_processing"}
BY DEF NoOptions

LEMMA NoGravityTyped == NoGravity \in Gravity
BY DEF NoGravity, Gravity

LEMMA NoOptionsTyped == NoOptions \in OptionRecord
<1>1. NoGravity \in Gravity
  BY NoGravityTyped
<1>2. << >> \in Seq(Int)
  OBVIOUS
<1> QED
  BY <1>1, <1>2 DEF NoOptions, OptionRecord, NoExtend, NoCrop, Extension

LEMMA RecordFields ==
    ASSUME NEW o \in OptionRecord
    PROVE  DOMAIN o = DOMAIN NoOptions /\ o = [f \in DOMAIN NoOptions |-> o[f]]
BY FieldNames DEF OptionRecord

LEMMA SameFields ==
    ASSUME NEW o \in OptionRecord, NEW p \in OptionRecord, \A f \in DOMAIN NoOptions : o[f] = p[f]
    PROVE  o = p
<1>1. [f \in DOMAIN NoOptions |-> o[f]] = [f \in DOMAIN NoOptions |-> p[f]]
  OBVIOUS
<1> QED
  BY <1>1, RecordFields

LEMMA OverriddenTyped ==
    ASSUME NEW o \in OptionRecord, NEW p \in OptionRecord, NEW C
    PROVE  /\ Overridden(o, C, p) \in OptionRecord
           /\ \A f \in DOMAIN NoOptions : Overridden(o, C, p)[f] = IF f \in C THEN p[f] ELSE o[f]
<1>1. Overridden(o, C, p) \in OptionRecord
  BY FieldNames DEF Overridden, OptionRecord
<1> QED
  BY <1>1 DEF Overridden

LEMMA FieldActs ==
    ASSUME NEW field \in DOMAIN NoOptions, NEW V, Single(V),
           \A v \in V : [NoOptions EXCEPT ![field] = v] \in OptionRecord,
           NEW F, \A o \in OptionRecord : F[o] = {[o EXCEPT ![field] = v] : v \in V}
    PROVE  Acts(F, {field})
<1> DEFINE E == {[NoOptions EXCEPT ![field] = v] : v \in V}
<1>1. Single(E) /\ E \subseteq OptionRecord
  BY DEF Single
<1>2. ASSUME NEW o \in OptionRecord, NEW v \in V
      PROVE  [o EXCEPT ![field] = v] = Overridden(o, {field}, [NoOptions EXCEPT ![field] = v])
  <2>1. DOMAIN o = DOMAIN NoOptions
    BY RecordFields
  <2>2. [o EXCEPT ![field] = v] = [f \in DOMAIN NoOptions |-> IF f = field THEN v ELSE o[f]]
    BY <2>1
  <2>3. [NoOptions EXCEPT ![field] = v][field] = v
    OBVIOUS
  <2> QED
    BY <2>2, <2>3 DEF Overridden
<1>3. ASSUME NEW o \in OptionRecord
      PROVE  F[o] = {Overridden(o, {field}, p) : p \in E}
  <2>1. F[o] = {[o EXCEPT ![field] = v] : v \in V}
    OBVIOUS
  <2>2. ASSUME NEW x \in F[o]
        PROVE  \E p \in E : x = Overridden(o, {field}, p)
    <3>1. PICK v \in V : x = [o EXCEPT ![field] = v]
      BY <2>1
    <3>2. [NoOptions EXCEPT ![field] = v] \in E
      OBVIOUS
    <3>3. x = Overridden(o, {field}, [NoOptions EXCEPT ![field] = v])
      BY <1>2, <3>1
    <3> HIDE DEF E
    <3> QED
      BY <3>2, <3>3
  <2>3. ASSUME NEW p \in E
        PROVE  Overridden(o, {field}, p) \in F[o]
    <3>1. PICK v \in V : p = [NoOptions EXCEPT ![field] = v]
      OBVIOUS
    <3> QED
      BY <1>2, <2>1, <3>1
  <2> HIDE DEF E
  <2> QED
    BY <2>2, <2>3
<1> HIDE DEF E
<1>4. E \in SUBSET OptionRecord /\ {field} \in SUBSET {field}
  BY <1>1
<1> QED
  BY <1>1, <1>3, <1>4, Zenon DEF Acts

LEMMA NothingActs ==
    ASSUME NEW F, NEW D, \A o \in OptionRecord : F[o] = {}
    PROVE  Acts(F, D)
<1>1. Single({}) /\ \A o \in OptionRecord : F[o] = {Overridden(o, {}, p) : p \in {}}
  BY DEF Single
<1> QED
  BY <1>1 DEF Acts

LEMMA IdentityActs ==
    ASSUME NEW F, NEW D, \A o \in OptionRecord : F[o] = {o}
    PROVE  Acts(F, D)
<1>1. ASSUME NEW o \in OptionRecord
      PROVE  F[o] = {Overridden(o, {}, p) : p \in {NoOptions}}
  BY RecordFields DEF Overridden
<1>2. Single({NoOptions}) /\ {NoOptions} \subseteq OptionRecord
  BY NoOptionsTyped DEF Single
<1> QED
  BY <1>1, <1>2 DEF Acts

LEMMA ComposedActs ==
    ASSUME NEW F, NEW G, NEW H, NEW D, Acts(F, D), Acts(G, D),
           \A o \in OptionRecord : H[o] = UNION {G[p] : p \in F[o]}
    PROVE  Acts(H, D)
<1>1. PICK C1 \in SUBSET D, E1 \in SUBSET OptionRecord :
        Single(E1) /\ \A o \in OptionRecord : F[o] = {Overridden(o, C1, p) : p \in E1}
  BY DEF Acts
<1>2. PICK C2 \in SUBSET D, E2 \in SUBSET OptionRecord :
        Single(E2) /\ \A o \in OptionRecord : G[o] = {Overridden(o, C2, p) : p \in E2}
  BY DEF Acts
<1> DEFINE C == C1 \union C2
           E == {Overridden(p, C2, q) : p \in E1, q \in E2}
<1>3. E \subseteq OptionRecord /\ Single(E)
  <2>1. \A p \in E1, q \in E2 : Overridden(p, C2, q) \in OptionRecord
    BY OverriddenTyped
  <2>2. ASSUME NEW x \in E, NEW y \in E
        PROVE  x = y /\ x \in OptionRecord
    <3>1. PICK p \in E1, q \in E2 : x = Overridden(p, C2, q)
      OBVIOUS
    <3>2. PICK pp \in E1, qq \in E2 : y = Overridden(pp, C2, qq)
      OBVIOUS
    <3> QED
      BY <1>1, <1>2, <2>1, <3>1, <3>2 DEF Single
  <2> QED
    BY <2>2 DEF Single
<1>4. ASSUME NEW o \in OptionRecord, NEW p \in E1, NEW q \in E2
      PROVE  Overridden(Overridden(o, C1, p), C2, q) = Overridden(o, C, Overridden(p, C2, q))
  BY DEF Overridden
<1>5. ASSUME NEW o \in OptionRecord
      PROVE  H[o] = {Overridden(o, C, r) : r \in E}
  <2>1. F[o] = {Overridden(o, C1, p) : p \in E1} /\ H[o] = UNION {G[p] : p \in F[o]}
    BY <1>1
  <2>2. ASSUME NEW p \in E1
        PROVE  G[Overridden(o, C1, p)] = {Overridden(o, C, Overridden(p, C2, q)) : q \in E2}
    <3>1. Overridden(o, C1, p) \in OptionRecord
      BY OverriddenTyped
    <3>2. G[Overridden(o, C1, p)] = {Overridden(Overridden(o, C1, p), C2, q) : q \in E2}
      BY <1>2, <3>1
    <3> HIDE DEF C
    <3> QED
      BY <1>4, <3>2
  <2> HIDE DEF C
  <2>3. ASSUME NEW x \in H[o]
        PROVE  \E r \in E : x = Overridden(o, C, r)
    <3>1. PICK p \in E1 : x \in G[Overridden(o, C1, p)]
      BY <2>1
    <3>2. PICK q \in E2 : x = Overridden(o, C, Overridden(p, C2, q))
      BY <2>2, <3>1
    <3> QED
      BY <3>2
  <2>4. ASSUME NEW r \in E
        PROVE  Overridden(o, C, r) \in H[o]
    <3>1. PICK p \in E1, q \in E2 : r = Overridden(p, C2, q)
      OBVIOUS
    <3>2. Overridden(o, C1, p) \in F[o]
      BY <2>1
    <3>3. Overridden(o, C, r) \in G[Overridden(o, C1, p)]
      BY <2>2, <3>1
    <3> QED
      BY <2>1, <3>2, <3>3
  <2> HIDE DEF E
  <2> QED
    BY <2>3, <2>4
<1>6. C \in SUBSET D
  OBVIOUS
<1> HIDE DEF C, E
<1>7. E \in SUBSET OptionRecord
  BY <1>3
<1>8. Single(E) /\ \A o \in OptionRecord : H[o] = {Overridden(o, C, r) : r \in E}
  BY <1>3, <1>5
<1> QED
  BY <1>6, <1>7, <1>8, Zenon DEF Acts

LEMMA ActsMore ==
    ASSUME NEW F, NEW D, NEW DD, D \subseteq DD, Acts(F, D)
    PROVE  Acts(F, DD)
BY DEF Acts

\* What an option makes of a record is at most one record.
LEMMA ActsTyped ==
    ASSUME NEW F, NEW D, Acts(F, D), NEW o \in OptionRecord
    PROVE  F[o] \subseteq OptionRecord /\ Single(F[o])
<1>1. PICK C \in SUBSET D, E \in SUBSET OptionRecord :
        Single(E) /\ \A q \in OptionRecord : F[q] = {Overridden(q, C, p) : p \in E}
  BY DEF Acts
<1>2. F[o] = {Overridden(o, C, p) : p \in E}
  BY <1>1
<1>3. \A p \in E : Overridden(o, C, p) \in OptionRecord
  BY OverriddenTyped
<1> QED
  BY <1>1, <1>2, <1>3 DEF Single

-----------------------------------------------------------------------------
(* What each kind of option does.                                          *)

LEMMA AtomicTyped ==
    ASSUME NEW field \in Atomic, NEW s
    PROVE  /\ Single(AtomicValues(field, s))
           /\ \A v \in AtomicValues(field, s) : [NoOptions EXCEPT ![field] = v] \in OptionRecord
<1> USE NoOptionsTyped
<1>1. CASE field \in {"width", "height"}
  <2>1. AtomicValues(field, s) = parseDimension(s)
    BY <1>1 DEF AtomicValues
  <2>2. \A v \in Nat : [NoOptions EXCEPT ![field] = v] \in OptionRecord
    BY <1>1 DEF OptionRecord
  <2> QED
    BY <2>1, <2>2, NumbersParsed
<1>2. CASE field = "resizing_type"
  <2>1. AtomicValues(field, s) = ResizingTypes \intersect {s}
    BY <1>2 DEF AtomicValues
  <2>2. \A v \in ResizingTypes : [NoOptions EXCEPT ![field] = v] \in OptionRecord
    BY <1>2 DEF OptionRecord
  <2> QED
    BY <2>1, <2>2 DEF Single
<1>3. CASE field \in {"enlarge", "raw"}
  <2>1. AtomicValues(field, s) = parseBool(s)
    BY <1>3 DEF AtomicValues
  <2>2. \A v \in BOOLEAN : [NoOptions EXCEPT ![field] = v] \in OptionRecord
    BY <1>3 DEF OptionRecord
  <2> QED
    BY <2>1, <2>2, BoolParsed
<1> QED
  BY <1>1, <1>2, <1>3 DEF Atomic

LEMMA AtomicActs ==
    ASSUME NEW field \in Atomic, NEW s, NEW F,
           \A o \in OptionRecord : F[o] = applyAtomic(o, field, s)
    PROVE  Acts(F, {field})
<1>1. CASE s = ""
  <2>1. \A o \in OptionRecord : F[o] = {o}
    BY <1>1 DEF applyAtomic
  <2> QED
    BY <2>1, IdentityActs
<1>2. CASE s # ""
  <2>1. \A o \in OptionRecord : F[o] = {[o EXCEPT ![field] = v] : v \in AtomicValues(field, s)}
    BY <1>2 DEF applyAtomic
  <2>2. field \in DOMAIN NoOptions
    BY FieldNames DEF Atomic
  <2> QED
    BY <2>1, <2>2, AtomicTyped, FieldActs
<1> QED
  BY <1>1, <1>2

Whole == {"extend", "extend_aspect_ratio", "gravity", "crop", "background", "skip_processing"}

LEMMA WholeTyped ==
    ASSUME NEW field \in Whole, NEW args
    PROVE  /\ Single(WholeValues(field, args))
           /\ \A v \in WholeValues(field, args) : [NoOptions EXCEPT ![field] = v] \in OptionRecord
<1> USE NoOptionsTyped
<1>1. CASE field \in {"extend", "extend_aspect_ratio"}
  <2>1. WholeValues(field, args) = parseExtendArgs(args)
    BY <1>1 DEF WholeValues
  <2>2. \A v \in Extension : [NoOptions EXCEPT ![field] = v] \in OptionRecord
    BY <1>1 DEF OptionRecord
  <2> QED
    BY <2>1, <2>2, ExtendParsed
<1>2. CASE field = "gravity"
  <2>1. WholeValues(field, args) = parseGravity(args, TRUE)
    BY <1>2 DEF WholeValues
  <2>2. \A v \in Gravity : [NoOptions EXCEPT ![field] = v] \in OptionRecord
    BY <1>2 DEF OptionRecord
  <2> QED
    BY <2>1, <2>2, GravityParsed
<1>3. CASE field = "crop"
  <2>1. WholeValues(field, args) = parseCrop(args)
    BY <1>3 DEF WholeValues
  <2>2. \A v \in CropRecord : [NoOptions EXCEPT ![field] = v] \in OptionRecord
    BY <1>3 DEF OptionRecord, CropRecord
  <2> QED
    BY <2>1, <2>2, CropParsed
<1>4. CASE field = "background"
  <2>1. WholeValues(field, args) = parseBackground(args)
    BY <1>4 DEF WholeValues
  <2>2. \A v \in Seq(Int) : [NoOptions EXCEPT ![field] = v] \in OptionRecord
    BY <1>4 DEF OptionRecord
  <2> QED
    BY <2>1, <2>2, BackgroundParsed
<1>5. CASE field = "skip_processing"
  <2>1. WholeValues(field, args) = parseSkipProcessing(args)
    BY <1>5 DEF WholeValues
  <2>2. \A v \in SUBSET STRING : [NoOptions EXCEPT ![field] = v] \in OptionRecord
    BY <1>5 DEF OptionRecord
  <2>3. \A v \in parseSkipProcessing(args) : v \in SUBSET STRING
    BY SkipParsed
  <2> QED
    BY <2>1, <2>2, <2>3, SkipParsed
<1> QED
  BY <1>1, <1>2, <1>3, <1>4, <1>5 DEF Whole

LEMMA WholeActs ==
    ASSUME NEW field \in Whole, NEW args, NEW F,
           \A o \in OptionRecord : F[o] = applyWhole(o, field, args)
    PROVE  Acts(F, {field})
<1>1. \A o \in OptionRecord : F[o] = {[o EXCEPT ![field] = v] : v \in WholeValues(field, args)}
  BY DEF applyWhole
<1>2. field \in DOMAIN NoOptions
  BY FieldNames DEF Whole
<1> QED
  BY <1>1, <1>2, WholeTyped, FieldActs

LEMMA FieldsAfterDef ==
    ASSUME NEW os, NEW fields, NEW args, Len(fields) \in Nat
    PROVE  /\ FieldsAfter(os, fields, args)[0] = os
           /\ \A i \in 1 .. Len(fields) :
                FieldsAfter(os, fields, args)[i] =
                  FieldThrough(FieldsAfter(os, fields, args)[i - 1], fields[i], argAt(args, i))
<1> DEFINE n == Len(fields)
           Step(S, i) == FieldThrough(S, fields[i], argAt(args, i))
           Is(h, m) == h = [i \in 0 .. m |->
                              IF i = 0 THEN os ELSE Step(h[i - 1], i)]
           T == {m \in 0 .. n : \E h : Is(h, m)}
<1>1. 0 \in T
  <2>1. Is([i \in 0 .. 0 |-> os], 0)
    OBVIOUS
  <2> HIDE DEF Is
  <2>2. \E h : Is(h, 0)
    BY <2>1
  <2> QED
    BY <2>2
<1>2. ASSUME NEW m \in 0 .. n - 1, m \in T
      PROVE  m + 1 \in T
  <2>1. PICK h : Is(h, m)
    BY <1>2
  <2> DEFINE g == [i \in 0 .. m + 1 |->
                     IF i = m + 1 THEN Step(h[m], m + 1) ELSE h[i]]
  <2> HIDE DEF Step
  <2>2. Is(g, m + 1)
    BY <2>1
  <2> HIDE DEF Is, g
  <2>3. \E k : Is(k, m + 1)
    BY <2>2
  <2> QED
    BY <2>3
<1> HIDE DEF T
<1>3. n \in T
  <2> HIDE DEF n
  <2>1. n \in Nat
    BY DEF n
  <2>2. 0 .. n \subseteq T
    BY <1>1, <1>2, <2>1, UpTo
  <2> QED
    BY <2>1, <2>2
<1> USE DEF T
<1>4. PICK h : Is(h, n)
  BY <1>3
<1>5. Is(FieldsAfter(os, fields, args), n)
  BY <1>4 DEF FieldsAfter
<1> QED
  BY <1>5

LEMMA FieldsAct ==
    ASSUME NEW fields, Len(fields) \in Nat, \A i \in 1 .. Len(fields) : fields[i] \in Atomic,
           NEW args, NEW D, \A i \in 1 .. Len(fields) : fields[i] \in D
    PROVE  Acts([o \in OptionRecord |-> applyFields(o, fields, args)], D)
<1> DEFINE n == Len(fields)
           F(i) == [o \in OptionRecord |-> FieldsAfter({o}, fields, args)[i]]
           T == {i \in 0 .. n : Acts(F(i), D)}
<1>1. 0 \in T
  <2>1. \A o \in OptionRecord : F(0)[o] = {o}
    BY FieldsAfterDef
  <2> HIDE DEF F
  <2>2. Acts(F(0), D)
    BY <2>1, IdentityActs
  <2> QED
    BY <2>2
<1>2. ASSUME NEW i \in 0 .. n - 1, i \in T
      PROVE  i + 1 \in T
  <2> DEFINE G == [o \in OptionRecord |-> applyAtomic(o, fields[i + 1], argAt(args, i + 1))]
  <2>1. Acts(F(i), D)
    BY <1>2
  <2>2. Acts(G, D)
    <3>0. fields[i + 1] \in Atomic /\ fields[i + 1] \in D
      OBVIOUS
    <3>1. Acts(G, {fields[i + 1]})
      <4>1. \A o \in OptionRecord : G[o] = applyAtomic(o, fields[i + 1], argAt(args, i + 1))
        OBVIOUS
      <4> HIDE DEF G
      <4> QED
        BY <3>0, <4>1, AtomicActs
    <3> QED
      BY <3>0, <3>1, ActsMore
  <2>3. ASSUME NEW o \in OptionRecord
        PROVE  F(i + 1)[o] = UNION {G[p] : p \in F(i)[o]}
    <3>1. F(i + 1)[o] = FieldThrough(F(i)[o], fields[i + 1], argAt(args, i + 1))
      BY FieldsAfterDef
    <3>2. \A p \in F(i)[o] : p \in OptionRecord
      BY <2>1, ActsTyped
    <3> QED
      BY <3>1, <3>2 DEF FieldThrough
  <2> HIDE DEF F, G
  <2>4. Acts(F(i + 1), D)
    BY <2>1, <2>2, <2>3, ComposedActs
  <2> QED
    BY <2>4
<1>3. n \in T
  <2> HIDE DEF T
  <2>1. 0 .. n \subseteq T
    <3>1. \A i \in 0 .. n - 1 : i \in T => i + 1 \in T
      BY <1>2
    <3> QED
      BY <1>1, <3>1, UpTo
  <2> QED
    BY <2>1
<1> QED
  BY <1>3 DEF applyFields

\* What a compound option may set.
CompoundSets(name, args) ==
    {Compound[name][i] : i \in DOMAIN Compound[name]}
      \union (IF Len(args) <= Len(Compound[name]) THEN {} ELSE {"extend"})

LEMMA CompoundFields ==
    ASSUME NEW name \in DOMAIN Compound
    PROVE  /\ Len(Compound[name]) \in Nat
           /\ DOMAIN Compound[name] = 1 .. Len(Compound[name])
           /\ \A i \in 1 .. Len(Compound[name]) : Compound[name][i] \in Atomic
BY DEF Compound, Atomic

LEMMA CompoundActs ==
    ASSUME NEW name \in DOMAIN Compound, NEW args
    PROVE  Acts([o \in OptionRecord |-> applyCompound(o, name, args)], CompoundSets(name, args))
<1> DEFINE fields == Compound[name]
           D == CompoundSets(name, args)
           F == [o \in OptionRecord |-> applyFields(o, fields, args)]
           G == [o \in OptionRecord |-> applyWhole(o, "extend", From(args, Len(fields) + 1))]
           H == [o \in OptionRecord |-> applyCompound(o, name, args)]
<1>1. Acts(F, D)
  <2>1. \A i \in 1 .. Len(fields) : fields[i] \in D
    BY CompoundFields DEF CompoundSets
  <2> HIDE DEF D, fields
  <2> QED
    BY <2>1, CompoundFields, FieldsAct DEF fields
<1>2. CASE Len(args) <= Len(fields)
  <2>1. H = F
    BY <1>2 DEF applyCompound
  <2> QED
    BY <1>1, <2>1
<1>3. CASE ~ (Len(args) <= Len(fields))
  <2>1. "extend" \in D
    BY <1>3 DEF CompoundSets
  <2>2. Acts(G, {"extend"})
    BY WholeActs DEF Whole
  <2>3. Acts(G, D)
    BY <2>1, <2>2, ActsMore
  <2>4. ASSUME NEW o \in OptionRecord
        PROVE  H[o] = UNION {G[p] : p \in F[o]}
    <3>1. H[o] = UNION {applyWhole(p, "extend", From(args, Len(fields) + 1)) : p \in F[o]}
      BY <1>3 DEF applyCompound
    <3>2. \A p \in F[o] : p \in OptionRecord
      BY <1>1, ActsTyped
    <3> QED
      BY <3>1, <3>2
  <2> HIDE DEF F, G, H, D
  <2>5. Acts(H, D)
    BY <1>1, <2>3, <2>4, ComposedActs
  <2> QED
    BY <2>5 DEF H, D
<1> QED
  BY <1>2, <1>3

\* The fields a segment may set.
Sets(segment) ==
    LET name == LongName(segment.name) IN
    IF name \in DOMAIN Compound THEN CompoundSets(name, segment.args) ELSE {name}

LEMMA NamesApart ==
    /\ LongNames = DOMAIN NoOptions \union DOMAIN Compound
    /\ DOMAIN NoOptions = Atomic \union Whole
    /\ DOMAIN Compound = {"resize", "size"}
    /\ DOMAIN Compound \intersect (Atomic \union Whole) = {}
    /\ Atomic \intersect Whole = {}
BY FieldNames DEF LongNames, Atomic, Whole, Compound

ApplyTo(segment) == [o \in OptionRecord |-> Apply(o, segment)]

LEMMA ApplyActs ==
    ASSUME NEW segment
    PROVE  Acts(ApplyTo(segment), Sets(segment))
<1> DEFINE name == LongName(segment.name)
           args == segment.args
           F == ApplyTo(segment)
<1>0. \A o \in OptionRecord :
        F[o] = CASE name \notin LongNames      -> {}
                 [] name \in Atomic            -> IF Len(args) > 1 THEN {} ELSE applyAtomic(o, name, argAt(args, 1))
                 [] name \in DOMAIN Compound   -> applyCompound(o, name, args)
                 [] name = "background" /\ Len(args) > 3 -> {}
                 [] OTHER                      -> applyWhole(o, name, args)
  BY DEF ApplyTo, Apply
<1>00. Sets(segment) = IF name \in DOMAIN Compound THEN CompoundSets(name, args) ELSE {name}
  BY DEF Sets
<1> HIDE DEF name, args, F
<1>1. CASE name \notin LongNames
  <2>1. name \notin Atomic /\ name \notin DOMAIN Compound /\ name # "background"
    BY <1>1, NamesApart DEF Whole
  <2>2. \A o \in OptionRecord : F[o] = {}
    BY <1>0, <1>1, <2>1
  <2> QED
    BY <2>2, NothingActs DEF F
<1>2. CASE name \in Atomic
  <2>1. name \in LongNames /\ name \notin DOMAIN Compound /\ name # "background"
    BY <1>2, NamesApart DEF Whole
  <2>2. CASE Len(args) > 1
    <3>1. \A o \in OptionRecord : F[o] = {}
      BY <1>0, <1>2, <2>1, <2>2
    <3> QED
      BY <3>1, NothingActs DEF F
  <2>3. CASE ~ (Len(args) > 1)
    <3>1. \A o \in OptionRecord : F[o] = applyAtomic(o, name, argAt(args, 1))
      BY <1>0, <1>2, <2>1, <2>3
    <3>2. Acts(F, {name})
      BY <1>2, <3>1, AtomicActs
    <3> QED
      BY <1>00, <2>1, <3>2 DEF F
  <2> QED
    BY <2>2, <2>3
<1>3. CASE name \in DOMAIN Compound
  <2>1. name \in LongNames /\ name \notin Atomic /\ name # "background"
    BY <1>3, NamesApart DEF Whole
  <2>2. \A o \in OptionRecord : F[o] = applyCompound(o, name, args)
    BY <1>0, <1>3, <2>1
  <2>3. F = [o \in OptionRecord |-> applyCompound(o, name, args)]
    BY <2>2 DEF F, ApplyTo
  <2> QED
    BY <1>00, <1>3, <2>3, CompoundActs DEF F
<1>4. CASE name \in Whole
  <2>1. name \in LongNames /\ name \notin Atomic /\ name \notin DOMAIN Compound
    BY <1>4, NamesApart
  <2>2. CASE name = "background" /\ Len(args) > 3
    <3>1. \A o \in OptionRecord : F[o] = {}
      BY <1>0, <2>1, <2>2
    <3> QED
      BY <3>1, NothingActs DEF F
  <2>3. CASE ~ (name = "background" /\ Len(args) > 3)
    <3>1. \A o \in OptionRecord : F[o] = applyWhole(o, name, args)
      BY <1>0, <2>1, <2>3
    <3>2. Acts(F, {name})
      BY <1>4, <3>1, WholeActs
    <3> QED
      BY <1>00, <2>1, <3>2 DEF F
  <2> QED
    BY <2>2, <2>3
<1> QED
  BY <1>1, <1>2, <1>3, <1>4, NamesApart

-----------------------------------------------------------------------------
(* What a list of options parses to.                                       *)

LEMMA AfterTyped ==
    ASSUME NEW os \in SUBSET OptionRecord, Single(os), NEW list, Len(list) \in Nat
    PROVE  \A n \in 0 .. Len(list) :
             OptionsAfter(os, list)[n] \subseteq OptionRecord /\ Single(OptionsAfter(os, list)[n])
<1> DEFINE a == OptionsAfter(os, list)
           T == {n \in 0 .. Len(list) : a[n] \subseteq OptionRecord /\ Single(a[n])}
<1>1. 0 \in T
  BY AfterDef
<1>2. ASSUME NEW n \in 0 .. Len(list) - 1, n \in T
      PROVE  n + 1 \in T
  <2>1. a[n + 1] = UNION {Apply(o, list[n + 1]) : o \in a[n]}
    <3>1. n + 1 \in 1 .. Len(list) /\ (n + 1) - 1 = n
      OBVIOUS
    <3>2. a[n + 1] = Through(a[n], list[n + 1])
      BY <3>1, AfterDef
    <3> QED
      BY <3>2, Zenon DEF Through
  <2>2. a[n] \subseteq OptionRecord /\ Single(a[n])
    BY <1>2
  <2>3. \A o \in a[n] : Apply(o, list[n + 1]) \subseteq OptionRecord /\ Single(Apply(o, list[n + 1]))
    <3> DEFINE F == ApplyTo(list[n + 1])
    <3>1. Acts(F, Sets(list[n + 1]))
      BY ApplyActs
    <3>2. \A o \in OptionRecord : F[o] = Apply(o, list[n + 1])
      BY DEF ApplyTo
    <3> HIDE DEF F
    <3> QED
      BY <2>2, <3>1, <3>2, ActsTyped
  <2> HIDE DEF a
  <2>4. a[n + 1] \subseteq OptionRecord /\ Single(a[n + 1])
    BY <2>1, <2>2, <2>3 DEF Single
  <2> QED
    BY <2>4
<1>3. 0 .. Len(list) \subseteq T
  <2> HIDE DEF T
  <2>1. \A n \in 0 .. Len(list) - 1 : n \in T => n + 1 \in T
    BY <1>2
  <2> QED
    BY <1>1, <2>1, UpTo
<1> QED
  BY <1>3

LEMMA TailFound ==
    ASSUME NEW list, Len(list) \in Nat
    PROVE  /\ OptionCount(list) \in 0 .. Len(list)
           /\ (\A i \in 1 .. Len(list) : list[i].name # "") => OptionCount(list) = Len(list)
<1> DEFINE I == {i \in 1 .. Len(list) : list[i].name = ""}
<1>1. OptionCount(list) = IF I = {} THEN Len(list) ELSE Min(I) - 1
  BY Zenon DEF OptionCount
<1>0. I \subseteq 1 .. Len(list) /\ ((\A i \in 1 .. Len(list) : list[i].name # "") => I = {})
  OBVIOUS
<1>00. \A i \in I : i \in 1 .. Len(list) /\ list[i].name = ""
  OBVIOUS
<1> HIDE DEF I
<1>2. CASE I = {}
  <2>1. OptionCount(list) = Len(list)
    BY <1>1, <1>2
  <2> QED
    BY <2>1
<1>3. CASE I # {}
  <2>1. I \subseteq Nat
    <3>1. ASSUME NEW i \in I
          PROVE  i \in Nat
      <4>1. i \in 1 .. Len(list)
        BY <1>0
      <4> QED
        BY <4>1
    <3> QED
      BY <3>1
  <2>2. \E x \in I : \A y \in I : x <= y
    <3>1. PICK x \in I : \A y \in I : ~ (<<y, x>> \in OpToRel(<, Nat))
      <4>1. \E x \in I : \A y \in I : ~ (<<y, x>> \in OpToRel(<, Nat))
        BY <1>3, <2>1, NatLessThanWellFounded, WFMin
      <4> QED
        BY <4>1
    <3>2. ASSUME NEW y \in I
          PROVE  x <= y
      <4>1. x \in Nat /\ y \in Nat
        BY <2>1
      <4>2. ~ (y < x)
        <5>1. (y < x) => <<y, x>> \in OpToRel(<, Nat)
          BY <4>1 DEF OpToRel
        <5> QED
          BY <3>1, <5>1
      <4> QED
        BY <4>1, <4>2
    <3> QED
      BY <3>2
  <2>3. Min(I) \in I
    BY <2>2 DEF Min
  <2>4. list[Min(I)].name = "" /\ Min(I) \in 1 .. Len(list)
    BY <1>00, <2>3
  <2>5. OptionCount(list) = Min(I) - 1
    BY <1>1, <1>3
  <2>6. ~ (\A i \in 1 .. Len(list) : list[i].name # "")
    BY <2>4
  <2>7. OptionCount(list) \in 0 .. Len(list)
    <3> DEFINE m == Min(I)
    <3>1. m \in 1 .. Len(list) /\ OptionCount(list) = m - 1
      BY <2>4, <2>5
    <3> HIDE DEF m
    <3> QED
      BY <3>1
  <2> QED
    BY <2>6, <2>7
<1> QED
  BY <1>2, <1>3

\* Whatever a client writes, the parser makes at most one record of it, and
\* every field of that is of its type: a dimension is never negative, a type is
\* one of those listed, a colour is a list of channels (ParseOptions and the
\* appliers).
THEOREM ParsedIsTyped ==
    ASSUME NEW list, Len(list) \in Nat
    PROVE  ParseOptions(list) \subseteq OptionRecord /\ Single(ParseOptions(list))
<1>1. {NoOptions} \in SUBSET OptionRecord /\ Single({NoOptions})
  BY NoOptionsTyped DEF Single
<1>2. OptionCount(list) \in 0 .. Len(list)
  BY TailFound
<1> QED
  BY <1>1, <1>2, AfterTyped DEF ParseOptions
===============================================================================
