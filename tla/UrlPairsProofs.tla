---------------------------- MODULE UrlPairsProofs ----------------------------
(***************************************************************************)
(* Proofs about UrlPairs: for any clients, groups, versions, folders,      *)
(* sizes, names and option lists that meet UrlAssumption.                  *)
(***************************************************************************)
EXTENDS UrlPairs, ProcOptsProofs

-----------------------------------------------------------------------------
(* Sequences, whatever they are made of.                                   *)

IsSeq(s) == \E S : s \in Seq(S)

LEMMA SeqFacts ==
    ASSUME NEW s, IsSeq(s)
    PROVE  Len(s) \in Nat /\ DOMAIN s = 1 .. Len(s)
BY LenProperties DEF IsSeq

LEMMA Joined ==
    ASSUME NEW s, NEW t, IsSeq(s), IsSeq(t)
    PROVE  /\ IsSeq(s \o t) /\ Len(s \o t) = Len(s) + Len(t)
           /\ \A i \in 1 .. Len(s) + Len(t) : (s \o t)[i] = IF i <= Len(s) THEN s[i] ELSE t[i - Len(s)]
<1>1. PICK S : s \in Seq(S)
  BY DEF IsSeq
<1>2. PICK T : t \in Seq(T)
  BY DEF IsSeq
<1>3. s \in Seq(S \union T) /\ t \in Seq(S \union T)
  BY <1>1, <1>2, SeqMonotonic
<1> QED
  BY <1>3, ConcatProperties DEF IsSeq

LEMMA SameSeq ==
    ASSUME NEW s, NEW t, IsSeq(s), IsSeq(t), Len(s) = Len(t), \A i \in 1 .. Len(s) : s[i] = t[i]
    PROVE  s = t
<1>1. PICK S : s \in Seq(S)
  BY DEF IsSeq
<1>2. PICK T : t \in Seq(T)
  BY DEF IsSeq
<1>3. s \in Seq(S \union T) /\ t \in Seq(S \union T)
  BY <1>1, <1>2, SeqMonotonic
<1> QED
  BY <1>3, SeqEqual

LEMMA Tuples ==
    /\ IsSeq(<< >>) /\ Len(<< >>) = 0
    /\ \A a : IsSeq(<<a>>) /\ Len(<<a>>) = 1 /\ <<a>>[1] = a
    /\ \A a, b : /\ IsSeq(<<a, b>>) /\ Len(<<a, b>>) = 2
                 /\ <<a, b>>[1] = a /\ <<a, b>>[2] = b
    /\ \A a, b, c : /\ IsSeq(<<a, b, c>>) /\ Len(<<a, b, c>>) = 3
                    /\ <<a, b, c>>[1] = a /\ <<a, b, c>>[2] = b /\ <<a, b, c>>[3] = c
<1>1. << >> \in Seq({})
  OBVIOUS
<1>2. \A a : <<a>> \in Seq({a})
  OBVIOUS
<1>3. \A a, b : <<a, b>> \in Seq({a, b})
  OBVIOUS
<1>4. \A a, b, c : <<a, b, c>> \in Seq({a, b, c})
  OBVIOUS
<1>5. IsSeq(<< >>)
  BY <1>1 DEF IsSeq
<1>6. \A a : IsSeq(<<a>>)
  BY <1>2 DEF IsSeq
<1>7. \A a, b : IsSeq(<<a, b>>)
  BY <1>3 DEF IsSeq
<1>8. \A a, b, c : IsSeq(<<a, b, c>>)
  BY <1>4 DEF IsSeq
<1> QED
  BY <1>5, <1>6, <1>7, <1>8

-----------------------------------------------------------------------------
(* The canonical form tells apart whatever the resizer treats differently. *)

LEMMA GravitySame ==
    ASSUME NEW g \in Gravity, NEW h \in Gravity, OwnGravity(g) = OwnGravity(h)
    PROVE  Anchor(g) = Anchor(h)
<1>1. /\ g = [type |-> g.type, x |-> g.x, y |-> g.y]
      /\ h = [type |-> h.type, x |-> h.x, y |-> h.y]
  BY DEF Gravity
<1>2. CASE GravityIsDefault(g) /\ GravityIsDefault(h)
  <2> DEFINE centre == [type |-> "ce", x |-> 0, y |-> 0]
  <2>1. [NoGravity EXCEPT !.type = "ce"] = centre
    <3> DEFINE a == [NoGravity EXCEPT !.type = "ce"]
    <3>1. a \in Gravity /\ a.type = "ce" /\ a.x = 0 /\ a.y = 0
      <4>1. NoGravity.x = 0 /\ NoGravity.y = 0
        BY DEF NoGravity
      <4> QED
        BY <4>1, NoGravityTyped DEF Gravity, GravityTypes
    <3> HIDE DEF a
    <3>2. a = [type |-> a.type, x |-> a.x, y |-> a.y]
      BY <3>1 DEF Gravity
    <3> QED
      BY <3>1, <3>2 DEF a
  <2>2. ASSUME NEW k \in {g, h}
        PROVE  Anchor(k) = centre
    <3>1. CASE k.type = ""
      BY <2>1, <3>1 DEF Anchor
    <3>2. CASE k.type # ""
      <4>1. k.type = "ce" /\ k.x = 0 /\ k.y = 0
        BY <1>2, <3>2 DEF GravityIsDefault
      <4>2. Anchor(k) = k
        BY <3>2 DEF Anchor
      <4> QED
        BY <1>1, <4>1, <4>2
    <3> QED
      BY <3>1, <3>2
  <2> HIDE DEF centre
  <2> QED
    BY <2>2
<1>3. CASE ~ GravityIsDefault(g) /\ ~ GravityIsDefault(h)
  <2>1. g.type = h.type /\ g.x = h.x /\ g.y = h.y
    BY <1>3 DEF OwnGravity, GravityText, Gravity
  <2> QED
    BY <1>1, <2>1
<1>4. CASE GravityIsDefault(g) /\ ~ GravityIsDefault(h)
  BY <1>4 DEF OwnGravity, GravityText
<1>5. CASE ~ GravityIsDefault(g) /\ GravityIsDefault(h)
  BY <1>5 DEF OwnGravity, GravityText
<1> QED
  BY <1>2, <1>3, <1>4, <1>5

LEMMA OwnGravityIsSeq ==
    ASSUME NEW g
    PROVE  IsSeq(OwnGravity(g))
BY Tuples DEF OwnGravity, GravityText

LEMMA CanonicalFields ==
    ASSUME NEW o \in OptionRecord, NEW p \in OptionRecord, Canonical(o) = Canonical(p),
           NEW f \in DOMAIN NoOptions
    PROVE  CanonicalValue(o, f) = CanonicalValue(p, f)
<1>1. DOMAIN o = DOMAIN NoOptions /\ DOMAIN p = DOMAIN NoOptions
  BY RecordFields
<1>2. ASSUME NEW a \in OptionRecord, NEW b \in OptionRecord, Canonical(a) = Canonical(b),
             DOMAIN a = DOMAIN NoOptions, CanonicalValue(a, f) # << >>
      PROVE  CanonicalValue(b, f) = CanonicalValue(a, f)
  <2>1. <<f, CanonicalValue(a, f)>> \in Canonical(a)
    BY <1>2 DEF Canonical
  <2>2. <<f, CanonicalValue(a, f)>> \in Canonical(b)
    BY <1>2, <2>1
  <2>3. PICK g \in DOMAIN b : <<f, CanonicalValue(a, f)>> = <<g, CanonicalValue(b, g)>>
    BY <2>2 DEF Canonical
  <2> QED
    BY <2>3
<1>3. CASE CanonicalValue(o, f) # << >>
  BY <1>1, <1>2, <1>3
<1>4. CASE CanonicalValue(p, f) # << >>
  BY <1>1, <1>2, <1>4
<1> QED
  BY <1>3, <1>4

LEMMA CropSame ==
    ASSUME NEW c \in CropRecord, NEW d \in CropRecord,
           NEW o \in OptionRecord, NEW p \in OptionRecord, o.crop = c, p.crop = d,
           CanonicalValue(o, "crop") = CanonicalValue(p, "crop")
    PROVE  Cropped(c) = Cropped(d)
<1> DEFINE G(e) == OwnGravity(e.gravity)
           V(e) == IF CropIsDefault(e) THEN << >> ELSE <<e.width, e.height>> \o G(e)
<1>1. V(c) = V(d)
  BY DEF CanonicalValue
<1>2. \A e : IsSeq(G(e))
  BY OwnGravityIsSeq
<1>3. \A e : /\ Len(<<e.width, e.height>> \o G(e)) = 2 + Len(G(e)) /\ Len(G(e)) \in Nat
             /\ (<<e.width, e.height>> \o G(e))[1] = e.width
             /\ (<<e.width, e.height>> \o G(e))[2] = e.height
             /\ \A i \in 1 .. Len(G(e)) : (<<e.width, e.height>> \o G(e))[i + 2] = G(e)[i]
  <2>1. ASSUME NEW w, NEW h, NEW t, IsSeq(t)
        PROVE  /\ Len(<<w, h>> \o t) = 2 + Len(t) /\ Len(t) \in Nat
               /\ (<<w, h>> \o t)[1] = w /\ (<<w, h>> \o t)[2] = h
               /\ \A i \in 1 .. Len(t) : (<<w, h>> \o t)[i + 2] = t[i]
    BY <2>1, Joined, Tuples, SeqFacts
  <2> QED
    BY <1>2, <2>1
<1>4. CASE CropIsDefault(c)
  <2>1. CropIsDefault(d)
    <3>1. SUFFICES ASSUME ~ CropIsDefault(d)
                   PROVE  FALSE
      OBVIOUS
    <3>2. <<d.width, d.height>> \o G(d) = << >>
      BY <1>1, <1>4, <3>1
    <3> HIDE DEF G
    <3>3. Len(<<d.width, d.height>> \o G(d)) = 0
      BY <3>2, Tuples
    <3> QED
      BY <1>3, <3>3
  <2> QED
    BY <1>4, <2>1 DEF Cropped
<1>5. CASE ~ CropIsDefault(c)
  <2>1. ~ CropIsDefault(d)
    BY <1>1, <1>3, <1>5, Tuples
  <2>2. <<c.width, c.height>> \o G(c) = <<d.width, d.height>> \o G(d)
    BY <1>1, <1>5, <2>1
  <2> HIDE DEF G
  <2>3. c.width = d.width /\ c.height = d.height /\ Len(G(c)) = Len(G(d))
    BY <1>3, <2>2
  <2>4. G(c) = G(d)
    <3>1. \A i \in 1 .. Len(G(c)) : G(c)[i] = G(d)[i]
      BY <1>3, <2>2, <2>3
    <3> QED
      BY <1>2, <2>3, <3>1, SameSeq
  <2>5. Anchor(c.gravity) = Anchor(d.gravity)
    BY <2>4, GravitySame DEF G, CropRecord
  <2>6. [c EXCEPT !.gravity = Anchor(c.gravity)] = [d EXCEPT !.gravity = Anchor(d.gravity)]
    BY <2>3, <2>5 DEF CropRecord
  <2> QED
    BY <1>5, <2>1, <2>6 DEF Cropped
<1> QED
  BY <1>4, <1>5

LEMMA PaddingSame ==
    ASSUME NEW e \in Extension, NEW x \in Extension,
           NEW V, NEW W,
           V = IF e.enabled THEN <<"1">> \o OwnGravity(e.gravity) ELSE << >>,
           W = IF x.enabled THEN <<"1">> \o OwnGravity(x.gravity) ELSE << >>,
           V = W
    PROVE  Padding(e) = Padding(x)
<1>1. IsSeq(OwnGravity(e.gravity)) /\ IsSeq(OwnGravity(x.gravity))
  BY OwnGravityIsSeq
<1>2. ASSUME NEW t, IsSeq(t)
      PROVE  /\ Len(<<"1">> \o t) = 1 + Len(t) /\ Len(t) \in Nat
             /\ \A i \in 1 .. Len(t) : (<<"1">> \o t)[i + 1] = t[i]
  BY <1>2, Joined, Tuples, SeqFacts
<1>3. e.enabled \in BOOLEAN /\ x.enabled \in BOOLEAN
  BY DEF Extension
<1>4. CASE e.enabled /\ x.enabled
  <2>1. <<"1">> \o OwnGravity(e.gravity) = <<"1">> \o OwnGravity(x.gravity)
    BY <1>4
  <2>2. Len(OwnGravity(e.gravity)) = Len(OwnGravity(x.gravity))
    BY <1>1, <1>2, <2>1
  <2>3. \A i \in 1 .. Len(OwnGravity(e.gravity)) : OwnGravity(e.gravity)[i] = OwnGravity(x.gravity)[i]
    BY <1>1, <1>2, <2>1, <2>2
  <2>4. OwnGravity(e.gravity) = OwnGravity(x.gravity)
    BY <1>1, <2>2, <2>3, SameSeq
  <2> QED
    BY <1>4, <2>4, GravitySame DEF Padding, Extension
<1>5. CASE ~ e.enabled /\ ~ x.enabled
  BY <1>5 DEF Padding
<1>6. CASE e.enabled /\ ~ x.enabled
  BY <1>1, <1>2, <1>6, Tuples
<1>7. CASE ~ e.enabled /\ x.enabled
  BY <1>1, <1>2, <1>7, Tuples
<1> QED
  BY <1>3, <1>4, <1>5, <1>6, <1>7

LEMMA AppliedFields ==
    ASSUME NEW o \in OptionRecord
    PROVE  /\ DOMAIN Applied(o) = DOMAIN NoOptions
           /\ \A f \in {"width", "height", "enlarge", "background", "raw", "skip_processing"} :
                Applied(o)[f] = o[f]
           /\ Applied(o).resizing_type = EffectiveResizingType(o)
           /\ Applied(o).gravity = Anchor(o.gravity)
           /\ Applied(o).crop = Cropped(o.crop)
           /\ Applied(o).extend = Padding(o.extend)
           /\ Applied(o).extend_aspect_ratio = Padding(o.extend_aspect_ratio)
           /\ Applied(o) = [f \in DOMAIN NoOptions |-> Applied(o)[f]]
<1>1. DOMAIN o = DOMAIN NoOptions
  BY RecordFields
<1>2. DOMAIN Applied(o) = DOMAIN NoOptions
  BY <1>1 DEF Applied
<1>3. \A f \in {"width", "height", "enlarge", "background", "raw", "skip_processing"} :
         Applied(o)[f] = o[f]
  BY <1>1, FieldNames DEF Applied
<1>4. Applied(o).resizing_type = EffectiveResizingType(o)
  BY <1>1, FieldNames DEF Applied
<1>5. Applied(o).gravity = Anchor(o.gravity)
  <2>1. "gravity" \in DOMAIN o
    BY <1>1, FieldNames
  <2> QED
    BY <2>1 DEF Applied
<1>6. Applied(o).crop = Cropped(o.crop)
  BY <1>1, FieldNames DEF Applied
<1>7. Applied(o).extend = Padding(o.extend)
  BY <1>1, FieldNames DEF Applied
<1>8. Applied(o).extend_aspect_ratio = Padding(o.extend_aspect_ratio)
  BY <1>1, FieldNames DEF Applied
<1>9. Applied(o) = [f \in DOMAIN NoOptions |-> Applied(o)[f]]
  BY <1>1 DEF Applied
<1> QED
  BY <1>2, <1>3, <1>4, <1>5, <1>6, <1>7, <1>8, <1>9

\* What the canonical form tells apart is all the resizer can tell apart.
LEMMA CanonicalDeterminesApplied ==
    ASSUME NEW o \in OptionRecord, NEW p \in OptionRecord, Canonical(o) = Canonical(p)
    PROVE  Applied(o) = Applied(p)
<1> DEFINE Same(f) == CanonicalValue(o, f) = CanonicalValue(p, f)
<1>1. \A f \in DOMAIN NoOptions : Same(f)
  BY CanonicalFields
<1>2. /\ o.width \in Nat /\ p.width \in Nat /\ o.height \in Nat /\ p.height \in Nat
      /\ o.enlarge \in BOOLEAN /\ p.enlarge \in BOOLEAN /\ o.raw \in BOOLEAN /\ p.raw \in BOOLEAN
      /\ o.gravity \in Gravity /\ p.gravity \in Gravity
      /\ o.crop \in CropRecord /\ p.crop \in CropRecord
      /\ o.extend \in Extension /\ p.extend \in Extension
      /\ o.extend_aspect_ratio \in Extension /\ p.extend_aspect_ratio \in Extension
      /\ o.resizing_type \in ResizingTypes \union {""} /\ p.resizing_type \in ResizingTypes \union {""}
  BY DEF OptionRecord, CropRecord
<1>3. o.width = p.width
  <2>1. Same("width")
    BY <1>1, FieldNames
  <2> QED
    BY <2>1 DEF CanonicalValue
<1>4. o.height = p.height
  <2>1. Same("height")
    BY <1>1, FieldNames
  <2> QED
    BY <2>1 DEF CanonicalValue
<1>5. o.enlarge = p.enlarge
  <2>1. Same("enlarge")
    BY <1>1, FieldNames
  <2>2. /\ CanonicalValue(o, "enlarge") = IF o.enlarge THEN <<"1">> ELSE << >>
        /\ CanonicalValue(p, "enlarge") = IF p.enlarge THEN <<"1">> ELSE << >>
    BY DEF CanonicalValue
  <2>3. <<"1">> # << >>
    BY Tuples
  <2>4. CASE o.enlarge
    <3>1. p.enlarge
      BY <2>1, <2>2, <2>3, <2>4
    <3> QED
      BY <1>2, <2>4, <3>1
  <2>5. CASE ~ o.enlarge
    <3>1. ~ p.enlarge
      BY <2>1, <2>2, <2>3, <2>5
    <3> QED
      BY <1>2, <2>5, <3>1
  <2> QED
    BY <2>4, <2>5
<1>6. o.raw = p.raw
  <2>1. Same("raw")
    BY <1>1, FieldNames
  <2> QED
    BY <1>2, <2>1 DEF CanonicalValue
<1>7. o.background = p.background
  <2>1. Same("background")
    BY <1>1, FieldNames
  <2> QED
    BY <2>1 DEF CanonicalValue
<1>8. o.skip_processing = p.skip_processing
  <2>1. Same("skip_processing")
    BY <1>1, FieldNames
  <2> QED
    BY <2>1 DEF CanonicalValue
<1>9. EffectiveResizingType(o) = EffectiveResizingType(p)
  <2>1. Same("resizing_type")
    BY <1>1, FieldNames
  <2> QED
    BY <2>1 DEF CanonicalValue, EffectiveResizingType
<1>10. Anchor(o.gravity) = Anchor(p.gravity)
  <2>1. Same("gravity")
    BY <1>1, FieldNames
  <2>2. OwnGravity(o.gravity) = OwnGravity(p.gravity)
    BY <2>1 DEF CanonicalValue
  <2> QED
    BY <1>2, <2>2, GravitySame
<1>11. Applied(o).crop = Applied(p).crop
  <2>1. Same("crop")
    BY <1>1, FieldNames
  <2>2. Cropped(o.crop) = Cropped(p.crop)
    BY <1>2, <2>1, CropSame
  <2>3. Applied(o).crop = Cropped(o.crop) /\ Applied(p).crop = Cropped(p.crop)
    BY AppliedFields
  <2> QED
    BY <2>2, <2>3
<1>12. Padding(o.extend) = Padding(p.extend)
  <2>1. Same("extend")
    BY <1>1, FieldNames
  <2> QED
    BY <1>2, <2>1, PaddingSame DEF CanonicalValue
<1>13. Padding(o.extend_aspect_ratio) = Padding(p.extend_aspect_ratio)
  <2>1. Same("extend_aspect_ratio")
    BY <1>1, FieldNames
  <2> QED
    BY <1>2, <2>1, PaddingSame DEF CanonicalValue
<1>14. ASSUME NEW f \in DOMAIN NoOptions
       PROVE  Applied(o)[f] = Applied(p)[f]
  <2>1. CASE f \in {"width", "height", "enlarge", "background", "raw", "skip_processing"}
    <3>1. Applied(o)[f] = o[f] /\ Applied(p)[f] = p[f]
      BY <2>1, AppliedFields
    <3> QED
      BY <1>3, <1>4, <1>5, <1>6, <1>7, <1>8, <2>1, <3>1
  <2>2. CASE f \in {"resizing_type", "gravity", "extend", "extend_aspect_ratio"}
    <3>1. \A q \in {o, p} :
            /\ Applied(q).resizing_type = EffectiveResizingType(q)
            /\ Applied(q).gravity = Anchor(q.gravity)
            /\ Applied(q).extend = Padding(q.extend)
            /\ Applied(q).extend_aspect_ratio = Padding(q.extend_aspect_ratio)
      BY AppliedFields
    <3> QED
      BY <1>9, <1>10, <1>12, <1>13, <2>2, <3>1
  <2>3. CASE f = "crop"
    BY <1>11, <2>3
  <2> QED
    BY <2>1, <2>2, <2>3, FieldNames
<1>15. [f \in DOMAIN NoOptions |-> Applied(o)[f]] = [f \in DOMAIN NoOptions |-> Applied(p)[f]]
  BY <1>14
<1> QED
  BY <1>15, AppliedFields

-----------------------------------------------------------------------------
(* The URLs, those with respelled options included.                        *)

Parses(list) == Len(list) \in Nat /\ ParseOptions(list) # {}

\* A segment left out.
Absent(s) == s = ""

LEMMA AbsentAlike ==
    \A s, t : Absent(s) /\ Absent(t) => s = t
BY DEF Absent

Families == {"resize", "folder", "file", "param", "paramfile"}

IsUrl(u) ==
    /\ DOMAIN u = DOMAIN Blank /\ u.family \in Families
    /\ u.client \in Clients /\ u.group \in Groups /\ u.name \in Names
    /\ u.family = "resize" =>
         /\ u.version \in Versions /\ u.images \in BOOLEAN /\ u.folder = "products"
         /\ u.width \in Widths /\ u.height \in Heights
    /\ u.family = "folder" =>
         /\ u.version \in Versions /\ u.images = TRUE /\ Absent(u.width) /\ Absent(u.height)
    /\ u.family \in {"file", "paramfile"} => u.folder = "7"
    /\ u.family \in {"file", "param", "paramfile"} => Absent(u.alpha)
    /\ u.family \in {"param", "paramfile"} => Parses(u.options)

LEMMA OptionsTyped ==
    ASSUME NEW list, Parses(list)
    PROVE  OptionsOf(list) \in OptionRecord /\ ParseOptions(list) = {OptionsOf(list)}
<1>1. ParseOptions(list) \subseteq OptionRecord /\ Single(ParseOptions(list))
  BY ParsedIsTyped DEF Parses
<1>2. OptionsOf(list) \in ParseOptions(list)
  BY DEF OptionsOf, Parses
<1> QED
  BY <1>1, <1>2 DEF Single

LEMMA ListsParse ==
    ASSUME NEW list \in OptionLists
    PROVE  Parses(list)
<1>1. list \in Seq(PathSegment) /\ ParseOptions(list) # {}
  BY UrlAssumption DEF UrlAssumption
<1> QED
  BY <1>1, LenProperties DEF Parses

LEMMA FormsOf ==
    ASSUME NEW list
    PROVE  /\ CanonicalForm(list) = Canonical(OptionsOf(list))
           /\ AppliedOptions(list) = Applied(OptionsOf(list))
BY DEF CanonicalForm, CanonicalOf, AppliedOptions, AppliedOf

LEMMA UrlsAreUrls ==
    ASSUME NEW u \in UrlSpace
    PROVE  IsUrl(u)
<1>1. CASE u \in ResizeUrls
  <2>1. PICK c \in Clients, g \in Groups, v \in Versions, i \in BOOLEAN,
             w \in Widths, h \in Heights, a \in Alphas, n \in Names :
          u = ResizeUrl(c, g, v, i, w, h, a, n)
    BY <1>1 DEF ResizeUrls
  <2> QED
    BY <2>1 DEF ResizeUrl, Blank, IsUrl, Absent, Families
<1>2. CASE u \in FolderUrls
  <2>1. PICK c \in Clients, g \in Groups, v \in Versions, f \in Folders, a \in Alphas, n \in Names :
          u = FolderUrl(c, g, v, f, a, n)
    BY <1>2 DEF FolderUrls
  <2> QED
    BY <2>1 DEF FolderUrl, Blank, IsUrl, Absent, Families
<1>3. CASE u \in FileUrlSpace
  <2>1. PICK c \in Clients, g \in Groups, n \in Names :
          u = FileUrl(c, g, n)
    BY <1>3 DEF FileUrlSpace
  <2> QED
    BY <2>1 DEF FileUrl, Blank, IsUrl, Absent, Families
<1>4. CASE u \in ParamUrls
  <2>1. PICK c \in Clients, g \in Groups, f \in Folders, o \in OptionLists, n \in Names :
          u = ParamUrl(c, g, f, o, n)
    BY <1>4 DEF ParamUrls
  <2> QED
    BY <2>1, ListsParse DEF ParamUrl, Blank, IsUrl, Absent, Families
<1>5. CASE u \in ParamFileUrls
  <2>1. PICK c \in Clients, g \in Groups, o \in OptionLists, n \in Names :
          u = ParamFileUrl(c, g, o, n)
    BY <1>5 DEF ParamFileUrls
  <2> QED
    BY <2>1, ListsParse DEF ParamFileUrl, Blank, IsUrl, Absent, Families
<1> QED
  BY <1>1, <1>2, <1>3, <1>4, <1>5 DEF UrlSpace

-----------------------------------------------------------------------------
(* What the keys look like.                                                *)

\* What is known of r when it is s followed by x.
Follows(r, s, x) ==
    /\ IsSeq(r) /\ Len(s) \in Nat /\ Len(x) \in Nat /\ Len(r) = Len(s) + Len(x)
    /\ \A i \in 1 .. Len(s) : r[i] = s[i]
    /\ \A i \in 1 .. Len(x) : r[Len(s) + i] = x[i]

LEMMA Chain ==
    ASSUME NEW s, IsSeq(s), NEW x, IsSeq(x), NEW r, r = s \o x
    PROVE  Follows(r, s, x) /\ IsSeq(r)
<1>1. Len(s) \in Nat /\ Len(x) \in Nat
  BY SeqFacts
<1>2. /\ IsSeq(r) /\ Len(r) = Len(s) + Len(x)
      /\ \A i \in 1 .. Len(s) + Len(x) : r[i] = IF i <= Len(s) THEN s[i] ELSE x[i - Len(s)]
  BY Joined
<1>3. ASSUME NEW i \in 1 .. Len(s)
      PROVE  r[i] = s[i]
  BY <1>1, <1>2
<1>4. ASSUME NEW i \in 1 .. Len(x)
      PROVE  r[Len(s) + i] = x[i]
  <2>1. Len(s) + i \in 1 .. Len(s) + Len(x) /\ ~ Len(s) + i <= Len(s) /\ Len(s) + i - Len(s) = i
    BY <1>1
  <2>2. r[Len(s) + i] = IF Len(s) + i <= Len(s) THEN s[Len(s) + i] ELSE x[Len(s) + i - Len(s)]
    BY <1>2, <2>1
  <2> QED
    BY <2>1, <2>2
<1> QED
  BY <1>1, <1>2, <1>3, <1>4 DEF Follows

\* Six pieces, of which only the first and the fourth are single segments; of
\* the others, none, one or two.
Pieces(d, t, p, m, f, z, q) ==
    /\ Len(d) = 2 + Len(p) + Len(m) + Len(z) + Len(q)
    /\ d[1] = t
    /\ Len(p) = 1 => d[2] = p[1]
    /\ Len(m) = 1 => d[2 + Len(p)] = m[1]
    /\ d[2 + Len(p) + Len(m)] = f
    /\ Len(z) = 2 => /\ d[3 + Len(p) + Len(m)] = z[1]
                     /\ d[4 + Len(p) + Len(m)] = z[2]
    /\ Len(q) = 1 => d[3 + Len(p) + Len(m) + Len(z)] = q[1]

LEMMA SixPieces ==
    ASSUME NEW t, NEW p, IsSeq(p), NEW m, IsSeq(m), NEW f, NEW z, IsSeq(z), NEW q, IsSeq(q),
           NEW d, d = <<t>> \o p \o m \o <<f>> \o z \o q
    PROVE  Pieces(d, t, p, m, f, z, q)
<1>1. PICK s1 : s1 = <<t>>
  OBVIOUS
<1>2. PICK s2 : s2 = s1 \o p
  OBVIOUS
<1>3. PICK s3 : s3 = s2 \o m
  OBVIOUS
<1>4. PICK s4 : s4 = s3 \o <<f>>
  OBVIOUS
<1>5. PICK s5 : s5 = s4 \o z
  OBVIOUS
<1>6. d = s5 \o q
  BY <1>1, <1>2, <1>3, <1>4, <1>5
<1>7. IsSeq(s1) /\ Len(s1) = 1 /\ s1[1] = t /\ IsSeq(<<f>>) /\ Len(<<f>>) = 1 /\ <<f>>[1] = f
  BY <1>1, Tuples
<1>8. Follows(s2, s1, p) /\ IsSeq(s2)
  BY <1>2, <1>7, Chain, Zenon
<1>9. Follows(s3, s2, m) /\ IsSeq(s3)
  BY <1>3, <1>8, Chain, Zenon
<1>10. Follows(s4, s3, <<f>>) /\ IsSeq(s4)
  BY <1>4, <1>7, <1>9, Chain, Zenon
<1>11. Follows(s5, s4, z) /\ IsSeq(s5)
  BY <1>5, <1>10, Chain, Zenon
<1>12. Follows(d, s5, q)
  BY <1>6, <1>11, Chain, Zenon
<1>13. /\ Len(p) \in Nat /\ Len(s2) = 1 + Len(p)
       /\ \A i \in 1 .. 1 : s2[i] = s1[i]
       /\ \A i \in 1 .. Len(p) : s2[1 + i] = p[i]
  BY <1>7, <1>8 DEF Follows
<1>14. /\ Len(m) \in Nat /\ Len(s3) = Len(s2) + Len(m)
       /\ \A i \in 1 .. Len(s2) : s3[i] = s2[i]
       /\ \A i \in 1 .. Len(m) : s3[Len(s2) + i] = m[i]
  BY <1>9 DEF Follows
<1>15. /\ Len(s4) = Len(s3) + Len(<<f>>)
       /\ \A i \in 1 .. Len(s3) : s4[i] = s3[i]
       /\ \A i \in 1 .. Len(<<f>>) : s4[Len(s3) + i] = <<f>>[i]
  BY <1>10 DEF Follows
<1>16. /\ Len(z) \in Nat /\ Len(s5) = Len(s4) + Len(z)
       /\ \A i \in 1 .. Len(s4) : s5[i] = s4[i]
       /\ \A i \in 1 .. Len(z) : s5[Len(s4) + i] = z[i]
  BY <1>11 DEF Follows
<1>17. /\ Len(q) \in Nat /\ Len(d) = Len(s5) + Len(q)
       /\ \A i \in 1 .. Len(s5) : d[i] = s5[i]
       /\ \A i \in 1 .. Len(q) : d[Len(s5) + i] = q[i]
  BY <1>12 DEF Follows
<1>18. s4[Len(s3) + 1] = f /\ Len(s4) = Len(s3) + 1
  BY <1>7, <1>15
<1>19. /\ Len(s3) = 1 + Len(p) + Len(m) /\ Len(s4) = 2 + Len(p) + Len(m)
       /\ Len(s5) = 2 + Len(p) + Len(m) + Len(z)
       /\ Len(d) = 2 + Len(p) + Len(m) + Len(z) + Len(q)
  BY <1>13, <1>14, <1>16, <1>17, <1>18
<1>20. d[1] = t
  BY <1>7, <1>13, <1>14, <1>15, <1>16, <1>17, <1>19
<1>21. ASSUME NEW i \in 1 .. Len(p)
       PROVE  d[1 + i] = p[i]
  <2>1. /\ 1 + i \in 1 .. Len(s2) /\ 1 + i \in 1 .. Len(s3) /\ 1 + i \in 1 .. Len(s4)
        /\ 1 + i \in 1 .. Len(s5)
    BY <1>13, <1>14, <1>16, <1>17, <1>19
  <2> QED
    BY <1>13, <1>14, <1>15, <1>16, <1>17, <2>1
<1>22. ASSUME NEW i \in 1 .. Len(m)
       PROVE  d[1 + Len(p) + i] = m[i]
  <2>1. /\ Len(s2) + i \in 1 .. Len(s3) /\ Len(s2) + i \in 1 .. Len(s4)
        /\ Len(s2) + i \in 1 .. Len(s5)
    BY <1>13, <1>14, <1>16, <1>17, <1>19
  <2>2. d[Len(s2) + i] = m[i]
    <3>1. d[Len(s2) + i] = s5[Len(s2) + i]
      BY <1>17, <2>1
    <3>2. s5[Len(s2) + i] = s4[Len(s2) + i]
      BY <1>16, <2>1
    <3>3. s4[Len(s2) + i] = s3[Len(s2) + i]
      BY <1>15, <2>1
    <3>4. s3[Len(s2) + i] = m[i]
      BY <1>14
    <3> QED
      BY <3>1, <3>2, <3>3, <3>4
  <2> QED
    BY <1>13, <2>2
<1>23. d[2 + Len(p) + Len(m)] = f
  <2>1. Len(s3) + 1 \in 1 .. Len(s4) /\ Len(s3) + 1 \in 1 .. Len(s5)
    BY <1>13, <1>14, <1>16, <1>17, <1>19
  <2>2. d[Len(s3) + 1] = f
    BY <1>16, <1>17, <1>18, <2>1
  <2> QED
    BY <1>13, <1>14, <1>19, <2>2
<1>24. ASSUME NEW i \in 1 .. Len(z)
       PROVE  d[2 + Len(p) + Len(m) + i] = z[i]
  <2>1. Len(s4) + i \in 1 .. Len(s5)
    BY <1>13, <1>14, <1>16, <1>17, <1>19
  <2>2. d[Len(s4) + i] = z[i]
    BY <1>16, <1>17, <2>1
  <2> QED
    BY <1>19, <2>2
<1>25. ASSUME NEW i \in 1 .. Len(q)
       PROVE  d[2 + Len(p) + Len(m) + Len(z) + i] = q[i]
  BY <1>17, <1>19
<1>26. Len(p) = 1 => d[2] = p[1]
  <2>1. Len(p) = 1 => d[1 + 1] = p[1]
    BY <1>21
  <2> QED
    BY <2>1
<1>27. Len(m) = 1 => d[2 + Len(p)] = m[1]
  <2>1. Len(m) = 1 => d[1 + Len(p) + 1] = m[1]
    BY <1>22
  <2>2. 1 + Len(p) + 1 = 2 + Len(p)
    BY <1>13
  <2> QED
    BY <2>1, <2>2
<1>28. Len(z) = 2 => d[3 + Len(p) + Len(m)] = z[1] /\ d[4 + Len(p) + Len(m)] = z[2]
  <2>1. Len(z) = 2 => 1 \in 1 .. Len(z) /\ 2 \in 1 .. Len(z)
    OBVIOUS
  <2>2. Len(z) = 2 => d[2 + Len(p) + Len(m) + 1] = z[1] /\ d[2 + Len(p) + Len(m) + 2] = z[2]
    BY <1>24, <2>1, Zenon
  <2>3. /\ 2 + Len(p) + Len(m) + 1 = 3 + Len(p) + Len(m)
        /\ 2 + Len(p) + Len(m) + 2 = 4 + Len(p) + Len(m)
    BY <1>13, <1>14
  <2> QED
    BY <2>2, <2>3
<1>29. Len(q) = 1 => d[3 + Len(p) + Len(m) + Len(z)] = q[1]
  <2>1. Len(q) = 1 => 1 \in 1 .. Len(q)
    OBVIOUS
  <2>2. Len(q) = 1 => d[2 + Len(p) + Len(m) + Len(z) + 1] = q[1]
    BY <1>25, <2>1, Zenon
  <2>3. 2 + Len(p) + Len(m) + Len(z) + 1 = 3 + Len(p) + Len(m) + Len(z)
    BY <1>13, <1>14, <1>16
  <2> QED
    BY <2>2, <2>3
<1> QED
  BY <1>19, <1>20, <1>23, <1>26, <1>27, <1>28, <1>29 DEF Pieces

Dir(t, p, m, f, z, q) == <<t>> \o p \o m \o <<f>> \o z \o q

\* With or without a version, "images" and sizes.
PlainForm(d, t, v, f, w, h, q) ==
    /\ d[1] = t /\ d[2] = v /\ d[3] = f /\ d[4] = w /\ d[5] = h
    /\ Len(q) = 0 => Len(d) = 5
    /\ Len(q) = 1 => Len(d) = 6 /\ d[6] = q[1]

LEMMA PlainParts ==
    ASSUME NEW t, NEW v, NEW f, NEW w, NEW h, NEW q, IsSeq(q)
    PROVE  PlainForm(Dir(t, <<v>>, << >>, f, <<w, h>>, q), t, v, f, w, h, q)
<1>1. PICK p, m, z, d : p = <<v>> /\ m = << >> /\ z = <<w, h>>
                             /\ d = Dir(t, <<v>>, << >>, f, <<w, h>>, q)
  OBVIOUS
<1>2. d = <<t>> \o p \o m \o <<f>> \o z \o q
  BY <1>1 DEF Dir
<1>3. /\ IsSeq(p) /\ Len(p) = 1 /\ p[1] = v
      /\ IsSeq(m) /\ Len(m) = 0
      /\ IsSeq(z) /\ Len(z) = 2 /\ z[1] = w /\ z[2] = h
  BY <1>1, Tuples
<1>4. Pieces(d, t, p, m, f, z, q)
  BY <1>2, <1>3, SixPieces, Zenon
<1>5. /\ 2 + Len(p) = 3 /\ 2 + Len(p) + Len(m) = 3
      /\ 3 + Len(p) + Len(m) = 4 /\ 4 + Len(p) + Len(m) = 5
      /\ 2 + Len(p) + Len(m) + Len(z) = 5 /\ 3 + Len(p) + Len(m) + Len(z) = 6
  BY <1>3
<1>6. Len(d) = 5 + Len(q)
  BY <1>4, <1>5 DEF Pieces
<1>7. Len(q) = 1 => d[6] = q[1]
  BY <1>4, <1>5 DEF Pieces
<1>8. /\ d[1] = t /\ d[2] = v /\ d[3] = f /\ d[4] = w /\ d[5] = h
  BY <1>3, <1>4, <1>5 DEF Pieces
<1>9. Len(q) = 0 => Len(d) = 5
  BY <1>6
<1>10. Len(q) = 1 => Len(d) = 6
  BY <1>6
<1> QED
  BY <1>7, <1>8, <1>9, <1>10, <1>1, Zenon DEF PlainForm

ImagesForm(d, t, v, i, f, w, h, q) ==
    /\ d[1] = t /\ d[2] = v /\ d[3] = i /\ d[4] = f /\ d[5] = w /\ d[6] = h
    /\ Len(q) = 0 => Len(d) = 6
    /\ Len(q) = 1 => Len(d) = 7 /\ d[7] = q[1]

LEMMA ImagesParts ==
    ASSUME NEW t, NEW v, NEW i, NEW f, NEW w, NEW h, NEW q, IsSeq(q)
    PROVE  ImagesForm(Dir(t, <<v>>, <<i>>, f, <<w, h>>, q), t, v, i, f, w, h, q)
<1>1. PICK p, m, z, d : p = <<v>> /\ m = <<i>> /\ z = <<w, h>>
                             /\ d = Dir(t, <<v>>, <<i>>, f, <<w, h>>, q)
  OBVIOUS
<1>2. d = <<t>> \o p \o m \o <<f>> \o z \o q
  BY <1>1 DEF Dir
<1>3. /\ IsSeq(p) /\ Len(p) = 1 /\ p[1] = v
      /\ IsSeq(m) /\ Len(m) = 1 /\ m[1] = i
      /\ IsSeq(z) /\ Len(z) = 2 /\ z[1] = w /\ z[2] = h
  BY <1>1, Tuples
<1>4. Pieces(d, t, p, m, f, z, q)
  BY <1>2, <1>3, SixPieces, Zenon
<1>5. /\ 2 + Len(p) = 3 /\ 2 + Len(p) + Len(m) = 4
      /\ 3 + Len(p) + Len(m) = 5 /\ 4 + Len(p) + Len(m) = 6
      /\ 2 + Len(p) + Len(m) + Len(z) = 6 /\ 3 + Len(p) + Len(m) + Len(z) = 7
  BY <1>3
<1>6. Len(d) = 6 + Len(q)
  BY <1>4, <1>5 DEF Pieces
<1>7. Len(q) = 1 => d[7] = q[1]
  BY <1>4, <1>5 DEF Pieces
<1>8. /\ d[1] = t /\ d[2] = v /\ d[3] = i /\ d[4] = f /\ d[5] = w /\ d[6] = h
  BY <1>3, <1>4, <1>5 DEF Pieces
<1>9. Len(q) = 0 => Len(d) = 6
  BY <1>6
<1>10. Len(q) = 1 => Len(d) = 7
  BY <1>6
<1> QED
  BY <1>7, <1>8, <1>9, <1>10, <1>1, Zenon DEF ImagesForm

FolderForm(d, t, v, i, f, q) ==
    /\ d[1] = t /\ d[2] = v /\ d[3] = i /\ d[4] = f
    /\ Len(q) = 0 => Len(d) = 4
    /\ Len(q) = 1 => Len(d) = 5 /\ d[5] = q[1]

LEMMA FolderParts ==
    ASSUME NEW t, NEW v, NEW i, NEW f, NEW q, IsSeq(q)
    PROVE  FolderForm(Dir(t, <<v>>, <<i>>, f, << >>, q), t, v, i, f, q)
<1>1. PICK p, m, z, d : p = <<v>> /\ m = <<i>> /\ z = << >>
                             /\ d = Dir(t, <<v>>, <<i>>, f, << >>, q)
  OBVIOUS
<1>2. d = <<t>> \o p \o m \o <<f>> \o z \o q
  BY <1>1 DEF Dir
<1>3. /\ IsSeq(p) /\ Len(p) = 1 /\ p[1] = v
      /\ IsSeq(m) /\ Len(m) = 1 /\ m[1] = i
      /\ IsSeq(z) /\ Len(z) = 0
  BY <1>1, Tuples
<1>4. Pieces(d, t, p, m, f, z, q)
  BY <1>2, <1>3, SixPieces, Zenon
<1>5. /\ 2 + Len(p) = 3 /\ 2 + Len(p) + Len(m) = 4
      /\ 3 + Len(p) + Len(m) = 5 /\ 4 + Len(p) + Len(m) = 6
      /\ 2 + Len(p) + Len(m) + Len(z) = 4 /\ 3 + Len(p) + Len(m) + Len(z) = 5
  BY <1>3
<1>6. Len(d) = 4 + Len(q)
  BY <1>4, <1>5 DEF Pieces
<1>7. Len(q) = 1 => d[5] = q[1]
  BY <1>4, <1>5 DEF Pieces
<1>8. /\ d[1] = t /\ d[2] = v /\ d[3] = i /\ d[4] = f
  BY <1>3, <1>4, <1>5 DEF Pieces
<1>9. Len(q) = 0 => Len(d) = 4
  BY <1>6
<1>10. Len(q) = 1 => Len(d) = 5
  BY <1>6
<1> QED
  BY <1>7, <1>8, <1>9, <1>10, <1>1, Zenon DEF FolderForm

UnversionedPlainForm(d, t, f, w, h) ==
    /\ d[1] = t /\ d[2] = f

LEMMA UnversionedPlain ==
    ASSUME NEW t, NEW f, NEW w, NEW h, NEW q, IsSeq(q)
    PROVE  UnversionedPlainForm(Dir(t, << >>, << >>, f, <<w, h>>, q), t, f, w, h)
<1>1. PICK p, m, z, d : p = << >> /\ m = << >> /\ z = <<w, h>>
                             /\ d = Dir(t, << >>, << >>, f, <<w, h>>, q)
  OBVIOUS
<1>2. d = <<t>> \o p \o m \o <<f>> \o z \o q
  BY <1>1 DEF Dir
<1>3. /\ IsSeq(p) /\ Len(p) = 0
      /\ IsSeq(m) /\ Len(m) = 0
      /\ IsSeq(z) /\ Len(z) = 2 /\ z[1] = w /\ z[2] = h
  BY <1>1, Tuples
<1>4. Pieces(d, t, p, m, f, z, q)
  BY <1>2, <1>3, SixPieces, Zenon
<1>5. /\ 2 + Len(p) = 2 /\ 2 + Len(p) + Len(m) = 2
      /\ 3 + Len(p) + Len(m) = 3 /\ 4 + Len(p) + Len(m) = 4
      /\ 2 + Len(p) + Len(m) + Len(z) = 4 /\ 3 + Len(p) + Len(m) + Len(z) = 5
  BY <1>3
<1> QED
  BY <1>1, <1>3, <1>4, <1>5 DEF Pieces, UnversionedPlainForm

UnversionedImagesForm(d, t, i, f, w, h) ==
    /\ d[1] = t /\ d[2] = i

LEMMA UnversionedImages ==
    ASSUME NEW t, NEW i, NEW f, NEW w, NEW h, NEW q, IsSeq(q)
    PROVE  UnversionedImagesForm(Dir(t, << >>, <<i>>, f, <<w, h>>, q), t, i, f, w, h)
<1>1. PICK p, m, z, d : p = << >> /\ m = <<i>> /\ z = <<w, h>>
                             /\ d = Dir(t, << >>, <<i>>, f, <<w, h>>, q)
  OBVIOUS
<1>2. d = <<t>> \o p \o m \o <<f>> \o z \o q
  BY <1>1 DEF Dir
<1>3. /\ IsSeq(p) /\ Len(p) = 0
      /\ IsSeq(m) /\ Len(m) = 1 /\ m[1] = i
      /\ IsSeq(z) /\ Len(z) = 2 /\ z[1] = w /\ z[2] = h
  BY <1>1, Tuples
<1>4. Pieces(d, t, p, m, f, z, q)
  BY <1>2, <1>3, SixPieces, Zenon
<1>5. /\ 2 + Len(p) = 2 /\ 2 + Len(p) + Len(m) = 3
      /\ 3 + Len(p) + Len(m) = 4 /\ 4 + Len(p) + Len(m) = 5
      /\ 2 + Len(p) + Len(m) + Len(z) = 5 /\ 3 + Len(p) + Len(m) + Len(z) = 6
  BY <1>3
<1> QED
  BY <1>1, <1>3, <1>4, <1>5 DEF Pieces, UnversionedImagesForm

UnversionedFolderForm(d, t, i, f) ==
    /\ d[1] = t /\ d[2] = i

LEMMA UnversionedFolder ==
    ASSUME NEW t, NEW i, NEW f, NEW q, IsSeq(q)
    PROVE  UnversionedFolderForm(Dir(t, << >>, <<i>>, f, << >>, q), t, i, f)
<1>1. PICK p, m, z, d : p = << >> /\ m = <<i>> /\ z = << >>
                             /\ d = Dir(t, << >>, <<i>>, f, << >>, q)
  OBVIOUS
<1>2. d = <<t>> \o p \o m \o <<f>> \o z \o q
  BY <1>1 DEF Dir
<1>3. /\ IsSeq(p) /\ Len(p) = 0
      /\ IsSeq(m) /\ Len(m) = 1 /\ m[1] = i
      /\ IsSeq(z) /\ Len(z) = 0
  BY <1>1, Tuples
<1>4. Pieces(d, t, p, m, f, z, q)
  BY <1>2, <1>3, SixPieces, Zenon
<1>5. /\ 2 + Len(p) = 2 /\ 2 + Len(p) + Len(m) = 3
      /\ 3 + Len(p) + Len(m) = 4 /\ 4 + Len(p) + Len(m) = 5
      /\ 2 + Len(p) + Len(m) + Len(z) = 3 /\ 3 + Len(p) + Len(m) + Len(z) = 4
  BY <1>3
<1> QED
  BY <1>1, <1>3, <1>4, <1>5 DEF Pieces, UnversionedFolderForm

LEMMA SegmentFacts ==
    ASSUME NEW s
    PROVE  /\ IsSeq(Segment(s))
           /\ Absent(s) => Len(Segment(s)) = 0
           /\ ~ Absent(s) => Segment(s) = <<s>> /\ Len(Segment(s)) = 1 /\ Segment(s)[1] = s
<1>1. CASE Absent(s)
  BY <1>1, Tuples DEF Segment, Absent
<1>2. CASE ~ Absent(s)
  <2>1. Segment(s) = <<s>>
    BY <1>2 DEF Segment, Absent
  <2> QED
    BY <1>2, <2>1, Tuples
<1> QED
  BY <1>1, <1>2

\* The directory of a resize, with "images" and without, and of a folder URL.
PlainDir(d, u, x) ==
    /\ d[1] = Tenant(u) /\ d[2] = x /\ d[3] = "products" /\ d[4] = u.width /\ d[5] = u.height
    /\ Absent(u.alpha) => Len(d) = 5
    /\ ~ Absent(u.alpha) => Len(d) = 6 /\ d[6] = u.alpha

ImagesDir(d, u, x) ==
    /\ d[1] = Tenant(u) /\ d[2] = x /\ d[3] = "images" /\ d[4] = "products"
    /\ d[5] = u.width /\ d[6] = u.height
    /\ Absent(u.alpha) => Len(d) = 6
    /\ ~ Absent(u.alpha) => Len(d) = 7 /\ d[7] = u.alpha

FolderDir(d, u, x) ==
    /\ d[1] = Tenant(u) /\ d[2] = x /\ d[3] = "images" /\ d[4] = u.folder
    /\ Absent(u.alpha) => Len(d) = 4
    /\ ~ Absent(u.alpha) => Len(d) = 5 /\ d[5] = u.alpha

LEMMA LegacyName ==
    ASSUME NEW u, NEW x, NEW a, NEW n
    PROVE  LegacyKey(u, x, a, n).name = n
BY DEF LegacyKey, Key

LEMMA PlainKey ==
    ASSUME NEW u, u.family = "resize", u.folder = "products", ~ u.images, NEW x, ~ Absent(x), NEW n
    PROVE  PlainDir(LegacyKey(u, x, u.alpha, n).dir, u, x)
<1>1. PICK d : d = LegacyKey(u, x, u.alpha, n).dir
  OBVIOUS
<1>2. d = Dir(Tenant(u), <<x>>, << >>, u.folder, <<u.width, u.height>>, Segment(u.alpha))
  BY <1>1 DEF LegacyKey, Key, Segment, Absent, Dir
<1>3. IsSeq(Segment(u.alpha))
  BY SegmentFacts
<1>4. PlainForm(d, Tenant(u), x, u.folder, u.width, u.height, Segment(u.alpha))
  BY <1>2, <1>3, PlainParts, Zenon
<1> QED
  BY <1>1, <1>4, SegmentFacts, Zenon DEF PlainForm, PlainDir

LEMMA ImagesKey ==
    ASSUME NEW u, u.family = "resize", u.folder = "products", u.images, NEW x, ~ Absent(x), NEW n
    PROVE  ImagesDir(LegacyKey(u, x, u.alpha, n).dir, u, x)
<1>1. PICK d : d = LegacyKey(u, x, u.alpha, n).dir
  OBVIOUS
<1>2. d = Dir(Tenant(u), <<x>>, <<"images">>, u.folder, <<u.width, u.height>>, Segment(u.alpha))
  BY <1>1 DEF LegacyKey, Key, Segment, Absent, Dir
<1>3. IsSeq(Segment(u.alpha))
  BY SegmentFacts
<1>4. ImagesForm(d, Tenant(u), x, "images", u.folder, u.width, u.height, Segment(u.alpha))
  BY <1>2, <1>3, ImagesParts, Zenon
<1> QED
  BY <1>1, <1>4, SegmentFacts, Zenon DEF ImagesForm, ImagesDir

LEMMA FolderKey ==
    ASSUME NEW u, u.family = "folder", u.images, NEW x, ~ Absent(x), NEW n
    PROVE  FolderDir(LegacyKey(u, x, u.alpha, n).dir, u, x)
<1>1. PICK d : d = LegacyKey(u, x, u.alpha, n).dir
  OBVIOUS
<1>2. d = Dir(Tenant(u), <<x>>, <<"images">>, u.folder, << >>, Segment(u.alpha))
  BY <1>1 DEF LegacyKey, Key, Segment, Absent, Dir
<1>3. IsSeq(Segment(u.alpha))
  BY SegmentFacts
<1>4. FolderForm(d, Tenant(u), x, "images", u.folder, Segment(u.alpha))
  BY <1>2, <1>3, FolderParts, Zenon
<1> QED
  BY <1>1, <1>4, SegmentFacts, Zenon DEF FolderForm, FolderDir

\* Where no version is spelt out, something else stands in its place.
LEMMA UnversionedKey ==
    ASSUME NEW u, IsUrl(u), u.family \in {"resize", "folder"}, NEW x, Absent(x), NEW a, NEW n
    PROVE  LegacyKey(u, x, a, n).dir[2] \in {"images", "products"}
<1>1. PICK d : d = LegacyKey(u, x, a, n).dir
  OBVIOUS
<1>2. u.images \in BOOLEAN
  BY DEF IsUrl
<1>3. IsSeq(Segment(a))
  BY SegmentFacts
<1>4. CASE u.family = "resize" /\ u.images
  <2>1. d = Dir(Tenant(u), << >>, <<"images">>, u.folder, <<u.width, u.height>>, Segment(a))
    BY <1>1, <1>4 DEF LegacyKey, Key, Segment, Absent, Dir
  <2>2. UnversionedImagesForm(d, Tenant(u), "images", u.folder, u.width, u.height)
    BY <1>3, <2>1, UnversionedImages, Zenon
  <2>3. d[2] = "images"
    BY <2>2 DEF UnversionedImagesForm
  <2> QED
    BY <1>1, <2>3
<1>5. CASE u.family = "resize" /\ ~ u.images
  <2>1. d = Dir(Tenant(u), << >>, << >>, u.folder, <<u.width, u.height>>, Segment(a))
    BY <1>1, <1>5 DEF LegacyKey, Key, Segment, Absent, Dir
  <2>2. UnversionedPlainForm(d, Tenant(u), u.folder, u.width, u.height)
    BY <1>3, <2>1, UnversionedPlain, Zenon
  <2>3. d[2] = u.folder
    BY <2>2 DEF UnversionedPlainForm
  <2>4. u.folder = "products"
    BY <1>5 DEF IsUrl
  <2> QED
    BY <1>1, <2>3, <2>4
<1>6. CASE u.family = "folder"
  <2>1. u.images
    BY <1>6 DEF IsUrl
  <2>2. d = Dir(Tenant(u), << >>, <<"images">>, u.folder, << >>, Segment(a))
    BY <1>1, <1>6, <2>1 DEF LegacyKey, Key, Segment, Absent, Dir
  <2>3. UnversionedFolderForm(d, Tenant(u), "images", u.folder)
    BY <1>3, <2>2, UnversionedFolder, Zenon
  <2>4. d[2] = "images"
    BY <2>3 DEF UnversionedFolderForm
  <2> QED
    BY <1>1, <2>4
<1> QED
  BY <1>2, <1>4, <1>5, <1>6

\* The first segment but one tells the families' keys apart.
Reserved == {"_p", "files", "catalog", "images", "products"}

LEMMA Versioned ==
    ASSUME NEW u, IsUrl(u), u.family \in {"resize", "folder"}
    PROVE  ~ Absent(Version(u)) /\ Version(u) \notin Reserved
<1>1. \A x \in Versions : x \notin Reserved
  BY UrlAssumption DEF Reserved
<1>2. u.version \in Versions
  BY DEF IsUrl
<1> QED
  BY <1>1, <1>2 DEF Version, Reserved, Absent

LEMMA StoredLegacy ==
    ASSUME NEW u, IsUrl(u), u.family \in {"resize", "folder"}, NEW k, k = getNormalizedKey(u)
    PROVE  /\ u.family = "resize" /\ ~ u.images => PlainDir(k.dir, u, Version(u))
           /\ u.family = "resize" /\ u.images => ImagesDir(k.dir, u, Version(u))
           /\ u.family = "folder" => FolderDir(k.dir, u, Version(u))
           /\ k.name = u.name
<1>1. k = LegacyKey(u, Version(u), u.alpha, u.name)
  BY DEF getNormalizedKey, KeyOf
<1>2. ~ Absent(Version(u))
  BY Versioned
<1>3. k.name = u.name
  <2>1. LegacyKey(u, Version(u), u.alpha, u.name).name = u.name
    BY LegacyName
  <2> QED
    BY <1>1, <2>1
<1>4. CASE u.family = "resize" /\ ~ u.images
  <2>1. u.folder = "products"
    BY <1>4 DEF IsUrl
  <2>2. PlainDir(LegacyKey(u, Version(u), u.alpha, u.name).dir, u, Version(u))
    BY <1>2, <1>4, <2>1, PlainKey, Zenon
  <2>3. PlainDir(k.dir, u, Version(u))
    BY <1>1, <2>2
  <2> QED
    BY <1>4, <1>3, <2>3
<1>5. CASE u.family = "resize" /\ u.images
  <2>1. u.folder = "products"
    BY <1>5 DEF IsUrl
  <2>2. ImagesDir(LegacyKey(u, Version(u), u.alpha, u.name).dir, u, Version(u))
    BY <1>2, <1>5, <2>1, ImagesKey, Zenon
  <2>3. ImagesDir(k.dir, u, Version(u))
    BY <1>1, <2>2
  <2> QED
    BY <1>5, <1>3, <2>3
<1>6. CASE u.family = "folder"
  <2>1. u.images
    BY <1>6 DEF IsUrl
  <2>2. FolderDir(LegacyKey(u, Version(u), u.alpha, u.name).dir, u, Version(u))
    BY <1>2, <1>6, <2>1, FolderKey, Zenon
  <2>3. FolderDir(k.dir, u, Version(u))
    BY <1>1, <2>2
  <2> QED
    BY <1>6, <1>3, <2>3
<1> QED
  BY <1>4, <1>5, <1>6, <1>3

LEMMA TailFacts ==
    ASSUME NEW s, IsSeq(s), s # << >>
    PROVE  /\ Head(s) = s[1] /\ IsSeq(Tail(s)) /\ Len(Tail(s)) = Len(s) - 1
           /\ \A i \in 1 .. Len(s) - 1 : Tail(s)[i] = s[i + 1]
<1>1. PICK S : s \in Seq(S)
  BY DEF IsSeq
<1> QED
  BY <1>1, HeadTailProperties DEF IsSeq

TwoParts(s, t, f) == IsSeq(s) /\ Len(s) = 2 /\ s[1] = t /\ s[2] = f

ThreeParts(s, t, e, f) == IsSeq(s) /\ Len(s) = 3 /\ s[1] = t /\ s[2] = e /\ s[3] = f

LEMMA SourceDirs ==
    ASSUME NEW t, NEW e, NEW f
    PROVE  /\ TwoParts(<<t>> \o << >> \o <<f>>, t, f)
           /\ ThreeParts(<<t>> \o <<e>> \o <<f>>, t, e, f)
<1>1. ASSUME NEW x, IsSeq(x), Len(x) \in {0, 1}, NEW s, s = <<t>> \o x \o <<f>>
      PROVE  /\ IsSeq(s) /\ Len(s) = Len(x) + 2 /\ s[1] = t /\ s[Len(x) + 2] = f
             /\ Len(x) = 1 => s[2] = x[1]
  <2>1. PICK a, b, r : a = <<t>> /\ b = <<f>> /\ r = a \o x
    OBVIOUS
  <2>2. IsSeq(a) /\ Len(a) = 1 /\ a[1] = t /\ IsSeq(b) /\ Len(b) = 1 /\ b[1] = f
    BY <2>1, Tuples
  <2>3. Follows(r, a, x) /\ IsSeq(r)
    BY <1>1, <2>1, <2>2, Chain, Zenon
  <2>4. s = r \o b
    BY <1>1, <2>1
  <2>5. Follows(s, r, b) /\ IsSeq(s)
    BY <2>2, <2>3, <2>4, Chain, Zenon
  <2>6. Len(r) = 1 + Len(x) /\ Len(x) \in Nat
    BY <2>2, <2>3 DEF Follows
  <2>7. Len(s) = Len(x) + 2
    BY <2>2, <2>5, <2>6 DEF Follows
  <2>8. r[1] = t
    BY <2>2, <2>3 DEF Follows
  <2>9. s[1] = t
    BY <2>5, <2>6, <2>8 DEF Follows
  <2>10. s[Len(r) + 1] = f
    BY <2>2, <2>5 DEF Follows
  <2>11. Len(r) + 1 = Len(x) + 2
    BY <2>6
  <2>12. Len(x) = 1 => s[2] = x[1]
    <3>1. Len(x) = 1 => r[1 + 1] = x[1]
      BY <2>2, <2>3 DEF Follows
    <3>2. Len(x) = 1 => s[2] = r[2]
      BY <2>5, <2>6 DEF Follows
    <3> QED
      BY <3>1, <3>2
  <2> QED
    BY <2>5, <2>7, <2>9, <2>10, <2>11, <2>12
<1>2. ASSUME NEW s, s = <<t>> \o << >> \o <<f>>
      PROVE  IsSeq(s) /\ Len(s) = 2 /\ s[1] = t /\ s[2] = f
  <2>1. PICK x : x = << >>
    OBVIOUS
  <2>2. IsSeq(x) /\ Len(x) = 0 /\ s = <<t>> \o x \o <<f>>
    BY <1>2, <2>1, Tuples
  <2>3. IsSeq(s) /\ Len(s) = Len(x) + 2 /\ s[1] = t /\ s[Len(x) + 2] = f
    BY <1>1, <2>2
  <2>4. Len(x) + 2 = 2
    BY <2>2
  <2> QED
    BY <2>3, <2>4
<1>3. ASSUME NEW s, s = <<t>> \o <<e>> \o <<f>>
      PROVE  IsSeq(s) /\ Len(s) = 3 /\ s[1] = t /\ s[2] = e /\ s[3] = f
  <2>1. PICK x : x = <<e>>
    OBVIOUS
  <2>2. IsSeq(x) /\ Len(x) = 1 /\ x[1] = e /\ s = <<t>> \o x \o <<f>>
    BY <1>3, <2>1, Tuples
  <2>3. IsSeq(s) /\ Len(s) = Len(x) + 2 /\ s[1] = t /\ s[Len(x) + 2] = f /\ s[2] = x[1]
    BY <1>1, <2>2
  <2>4. Len(x) + 2 = 3
    BY <2>2
  <2> QED
    BY <2>2, <2>3, <2>4
<1> QED
  BY <1>2, <1>3, Zenon DEF TwoParts, ThreeParts

SplicedForm(d, s, x, c) ==
    /\ Len(d) = Len(s) + 2 /\ d[1] = s[1] /\ d[2] = x /\ d[3] = c
    /\ d[4] = s[2]

LEMMA Spliced ==
    ASSUME NEW s, IsSeq(s), Len(s) \in {2, 3}, NEW x, NEW c,
           NEW d, d = <<Head(s), x, c>> \o Tail(s)
    PROVE  SplicedForm(d, s, x, c)
<1>1. s # << >>
  BY Tuples
<1>2. PICK a, b : a = <<Head(s), x, c>> /\ b = Tail(s)
  OBVIOUS
<1>3. /\ IsSeq(a) /\ Len(a) = 3 /\ a[1] = s[1] /\ a[2] = x /\ a[3] = c
      /\ IsSeq(b) /\ Len(b) = Len(s) - 1 /\ \A i \in 1 .. Len(s) - 1 : b[i] = s[i + 1]
  BY <1>1, <1>2, Tuples, TailFacts
<1>4. Follows(d, a, b)
  BY <1>2, <1>3, Chain
<1>5. b[1] = s[2]
  BY <1>3
<1>6. Len(d) = Len(s) + 2
  BY <1>3, <1>4 DEF Follows
<1>7. d[1] = s[1] /\ d[2] = x /\ d[3] = c
  BY <1>3, <1>4 DEF Follows
<1>8. d[3 + 1] = b[1]
  BY <1>3, <1>4 DEF Follows
<1> QED
  BY <1>5, <1>6, <1>7, <1>8 DEF SplicedForm

LEMMA StoredParam ==
    ASSUME NEW u, u.family \in {"param", "paramfile"}, NEW k, k = getNormalizedKey(u)
    PROVE  /\ k.name = u.name
           /\ k.dir[1] = Tenant(u) /\ k.dir[2] = "_p" /\ k.dir[3] = Canonical(OptionsOf(u.options))
           /\ u.family = "param" => Len(k.dir) = 4 /\ k.dir[4] = u.folder
           /\ u.family = "paramfile" => Len(k.dir) = 5
<1>1. PICK c, s, d : /\ c = CanonicalForm(u.options) /\ s = SourceTail(u).dir
                     /\ d = <<Head(s), "_p", c>> \o Tail(s)
  OBVIOUS
<1>2. k = paramCacheKey(SourceTail(u), CanonicalForm(u.options))
  BY DEF getNormalizedKey, KeyOf
<1>3. k.dir = d /\ k.name = SourceTail(u).name
  BY <1>1, <1>2 DEF paramCacheKey, Key
<1>4. SourceTail(u).name = u.name
  BY DEF SourceTail, Key
<1>5. c = Canonical(OptionsOf(u.options))
  BY <1>1, FormsOf
<1>6. CASE u.family = "param"
  <2>1. s = <<Tenant(u)>> \o << >> \o <<u.folder>>
    BY <1>1, <1>6 DEF SourceTail, Key
  <2>2. IsSeq(s) /\ Len(s) = 2 /\ s[1] = Tenant(u) /\ s[2] = u.folder
    <3>1. TwoParts(<<Tenant(u)>> \o << >> \o <<u.folder>>, Tenant(u), u.folder)
      BY SourceDirs, Zenon
    <3> QED
      BY <2>1, <3>1 DEF TwoParts
  <2>3. /\ Len(d) = Len(s) + 2 /\ d[1] = s[1] /\ d[2] = "_p" /\ d[3] = c
        /\ d[4] = s[2]
    <3>1. Len(s) \in {2, 3}
      BY <2>2
    <3>2. SplicedForm(d, s, "_p", c)
      BY <1>1, <2>2, <3>1, Spliced, Zenon
    <3> QED
      BY <3>2 DEF SplicedForm
  <2>4. Len(d) = 4
    BY <2>2, <2>3
  <2> QED
    BY <1>3, <1>4, <1>5, <1>6, <2>2, <2>3, <2>4
<1>7. CASE u.family = "paramfile"
  <2>1. s = <<Tenant(u)>> \o <<"files">> \o <<u.folder>>
    BY <1>1, <1>7 DEF SourceTail, Key
  <2>2. IsSeq(s) /\ Len(s) = 3 /\ s[1] = Tenant(u)
    <3>1. ThreeParts(<<Tenant(u)>> \o <<"files">> \o <<u.folder>>, Tenant(u), "files", u.folder)
      BY SourceDirs, Zenon
    <3> QED
      BY <2>1, <3>1 DEF ThreeParts
  <2>3. Len(d) = Len(s) + 2 /\ d[1] = s[1] /\ d[2] = "_p" /\ d[3] = c
    <3>1. Len(s) \in {2, 3}
      BY <2>2
    <3>2. SplicedForm(d, s, "_p", c)
      BY <1>1, <2>2, <3>1, Spliced, Zenon
    <3> QED
      BY <3>2 DEF SplicedForm
  <2>4. Len(d) = 5
    BY <2>2, <2>3
  <2> QED
    BY <1>3, <1>4, <1>5, <1>7, <2>2, <2>3, <2>4
<1> QED
  BY <1>6, <1>7

LEMMA StoredFile ==
    ASSUME NEW u, IsUrl(u), u.family = "file", NEW k, k = getNormalizedKey(u)
    PROVE  /\ k.name = u.name /\ k.dir[1] = Tenant(u) /\ k.dir[2] = "files"
           /\ k.dir = <<Tenant(u), "files", "7">> /\ RawKey(u) = k
<1>1. k = Key(<<Tenant(u), "files", u.folder>>, u.name) /\ RawKey(u) = k
  BY DEF getNormalizedKey, KeyOf, RawKey
<1>2. u.folder = "7"
  BY DEF IsUrl
<1> QED
  BY <1>1, <1>2 DEF Key

\* Which segment tells which family.
LEMMA FamilyOf ==
    ASSUME NEW u, IsUrl(u), NEW k, k = getNormalizedKey(u)
    PROVE  /\ k.dir[1] = Tenant(u) /\ k.name = u.name
           /\ u.family \in {"resize", "folder"} <=> k.dir[2] \notin Reserved
           /\ u.family = "file" <=> k.dir[2] = "files"
           /\ u.family \in {"param", "paramfile"} <=> k.dir[2] = "_p"
           /\ u.family = "param" <=> k.dir[2] = "_p" /\ Len(k.dir) = 4
<1>1. CASE u.family \in {"resize", "folder"}
  <2>1. k.dir[1] = Tenant(u) /\ k.name = u.name /\ k.dir[2] = Version(u)
    <3>1. u.images \in BOOLEAN
      BY <1>1 DEF IsUrl
    <3> QED
      BY <1>1, <3>1, StoredLegacy DEF PlainDir, ImagesDir, FolderDir
  <2>2. k.dir[2] \notin Reserved
    BY <1>1, <2>1, Versioned
  <2>3. k.dir[2] # "files" /\ k.dir[2] # "_p"
    BY <2>2 DEF Reserved
  <2> QED
    BY <1>1, <2>1, <2>2, <2>3
<1>2. CASE u.family \in {"param", "paramfile"}
  <2>1. /\ k.dir[1] = Tenant(u) /\ k.name = u.name /\ k.dir[2] = "_p"
        /\ u.family = "param" => Len(k.dir) = 4
        /\ u.family = "paramfile" => Len(k.dir) = 5
    BY <1>2, StoredParam
  <2> QED
    BY <1>2, <2>1 DEF Reserved
<1>3. CASE u.family = "file"
  <2>1. k.dir[1] = Tenant(u) /\ k.name = u.name /\ k.dir[2] = "files"
    BY <1>3, StoredFile
  <2> QED
    BY <1>3, <2>1 DEF Reserved
<1> QED
  BY <1>1, <1>2, <1>3 DEF IsUrl, Families

LEMMA TenantTells ==
    ASSUME NEW u, IsUrl(u), NEW v, IsUrl(v)
    PROVE  /\ Tenant(u) # "_p"
           /\ Tenant(u) = Tenant(v) => u.client = v.client
<1> DEFINE T(x) == Tenant([client |-> x.client, group |-> x.group])
<1>1. Tenant(u) = T(u) /\ Tenant(v) = T(v)
  BY DEF Tenant
<1>2. u.client \in Clients /\ v.client \in Clients /\ u.group \in Groups /\ v.group \in Groups
  BY DEF IsUrl
<1>3. T(u) # "_p" /\ (T(u) = T(v) => u.client = v.client)
  BY <1>2, UrlAssumption
<1> QED
  BY <1>1, <1>3

\* What a key says of a URL is all its rendering and its candidates depend on.
LEMMA SameResize ==
    ASSUME NEW u, NEW v, u.family = "resize", v.family = "resize", Version(u) = Version(v),
           u.width = v.width, u.height = v.height, u.alpha = v.alpha, u.name = v.name,
           u.client = v.client, u.folder = v.folder
    PROVE  SameImage(u, v)
<1>1. Rendering(u) = Rendering(v)
  BY DEF Rendering
<1>2. Candidates(u) = Candidates(v)
  BY DEF Candidates
<1> QED
  BY <1>1, <1>2 DEF SameImage

LEMMA SameFolder ==
    ASSUME NEW u, NEW v, u.family = "folder", v.family = "folder",
           u.alpha = v.alpha, u.name = v.name, u.client = v.client, u.folder = v.folder
    PROVE  SameImage(u, v)
<1>1. Rendering(u) = Rendering(v)
  BY DEF Rendering
<1>2. Candidates(u) = Candidates(v)
  BY DEF Candidates
<1> QED
  BY <1>1, <1>2 DEF SameImage

LEMMA SameParam ==
    ASSUME NEW u, NEW v, u.family \in {"param", "paramfile"}, v.family = u.family,
           AppliedOptions(u.options) = AppliedOptions(v.options), Tenant(u) = Tenant(v),
           u.name = v.name, u.client = v.client, u.folder = v.folder,
           u.alpha = v.alpha
    PROVE  SameImage(u, v)
<1>1. Rendering(u) = Rendering(v)
  BY DEF Rendering
<1>2. Candidates(u) = Candidates(v)
  BY DEF Candidates, SourceTail
<1> QED
  BY <1>1, <1>2 DEF SameImage

LEMMA SameFile ==
    ASSUME NEW u, NEW v, u.family = "file", v.family = "file", u.alpha = v.alpha,
           u.name = v.name, u.client = v.client, u.folder = v.folder
    PROVE  SameImage(u, v)
<1>1. Rendering(u) = Rendering(v)
  BY DEF Rendering
<1>2. Candidates(u) = Candidates(v)
  BY DEF Candidates
<1> QED
  BY <1>1, <1>2 DEF SameImage

\* Two URLs of one stored key ask for the same image.
LEMMA OneKeyOneImage ==
    ASSUME NEW u, IsUrl(u), NEW v, IsUrl(v), getNormalizedKey(u) = getNormalizedKey(v)
    PROVE  SameImage(u, v)
<1>1. PICK k : k = getNormalizedKey(u) /\ k = getNormalizedKey(v)
  OBVIOUS
<1>2. /\ Tenant(u) = Tenant(v) /\ u.name = v.name
      /\ u.family \in {"resize", "folder"} <=> v.family \in {"resize", "folder"}
      /\ u.family = "file" <=> v.family = "file"
      /\ u.family \in {"param", "paramfile"} <=> v.family \in {"param", "paramfile"}
      /\ u.family = "param" <=> v.family = "param"
  BY <1>1, FamilyOf
<1>3. u.client = v.client
  BY <1>2, TenantTells
<1>4. u.family \in Families
  BY DEF IsUrl
<1>5. CASE u.family = "file"
  <2>1. u.folder = "7" /\ v.folder = "7" /\ Absent(u.alpha) /\ Absent(v.alpha)
    BY <1>2, <1>5 DEF IsUrl
  <2> QED
    BY <1>2, <1>3, <1>5, <2>1, AbsentAlike, SameFile
<1>6. CASE u.family = "param"
  <2>1. Absent(u.alpha) /\ Absent(v.alpha) /\ Parses(u.options) /\ Parses(v.options) /\ v.family = "param"
    BY <1>2, <1>6 DEF IsUrl
  <2>2. /\ k.dir[3] = Canonical(OptionsOf(u.options)) /\ k.dir[3] = Canonical(OptionsOf(v.options))
        /\ k.dir[4] = u.folder /\ k.dir[4] = v.folder
    BY <1>1, <1>6, <2>1, StoredParam
  <2>3. AppliedOptions(u.options) = AppliedOptions(v.options)
    BY <2>1, <2>2, OptionsTyped, CanonicalDeterminesApplied, FormsOf
  <2>4. u.alpha = v.alpha
    BY <2>1, AbsentAlike
  <2>5. /\ u.folder = v.folder /\ u.family \in {"param", "paramfile"} /\ v.family = u.family
        /\ Tenant(u) = Tenant(v) /\ u.name = v.name
    BY <1>2, <1>6, <2>1, <2>2
  <2> QED
    BY <1>3, <2>3, <2>4, <2>5, SameParam
<1>7. CASE u.family = "paramfile"
  <2>1. v.family = "paramfile"
    BY <1>2, <1>7
  <2>2. /\ Absent(u.alpha) /\ Absent(v.alpha) /\ Parses(u.options) /\ Parses(v.options)
        /\ u.folder = "7" /\ v.folder = "7"
    BY <1>7, <2>1 DEF IsUrl
  <2>3. k.dir[3] = Canonical(OptionsOf(u.options)) /\ k.dir[3] = Canonical(OptionsOf(v.options))
    BY <1>1, <1>7, <2>1, StoredParam
  <2>4. AppliedOptions(u.options) = AppliedOptions(v.options)
    BY <2>2, <2>3, OptionsTyped, CanonicalDeterminesApplied, FormsOf
  <2> QED
    BY <1>2, <1>3, <1>7, <2>1, <2>2, <2>4, AbsentAlike, SameParam
<1>8. CASE u.family \in {"resize", "folder"}
  <2>1. v.family \in {"resize", "folder"} /\ u.images \in BOOLEAN /\ v.images \in BOOLEAN
    BY <1>2, <1>8 DEF IsUrl
  <2>2. ASSUME NEW x, x \in {u, v}
        PROVE  /\ x.family = "resize" /\ ~ x.images => PlainDir(k.dir, x, Version(x))
               /\ x.family = "resize" /\ x.images => ImagesDir(k.dir, x, Version(x))
               /\ x.family = "folder" => FolderDir(k.dir, x, Version(x))
               /\ x.family = "resize" => x.folder = "products"
    <3>1. IsUrl(x) /\ x.family \in {"resize", "folder"} /\ k = getNormalizedKey(x)
      BY <1>1, <1>8, <2>1, <2>2
    <3>2. x.family = "resize" => x.folder = "products"
      BY <3>1 DEF IsUrl
    <3> QED
      BY <3>1, <3>2, StoredLegacy
  <2>3. CASE u.family = "folder"
    <3>1. FolderDir(k.dir, u, Version(u))
      BY <2>2, <2>3
    <3>2. v.family = "folder"
      <4>1. ~ ImagesDir(k.dir, v, Version(v)) /\ ~ PlainDir(k.dir, v, Version(v))
        BY <3>1 DEF FolderDir, ImagesDir, PlainDir
      <4> QED
        BY <2>1, <2>2, <4>1
    <3>3. FolderDir(k.dir, v, Version(v))
      BY <2>2, <3>2
    <3>4. u.folder = v.folder /\ u.alpha = v.alpha
      BY <3>1, <3>3, AbsentAlike DEF FolderDir
    <3> QED
      BY <1>2, <1>3, <2>3, <3>2, <3>4, SameFolder
  <2>4. CASE u.family = "resize" /\ u.images
    <3>1. ImagesDir(k.dir, u, Version(u))
      BY <2>2, <2>4
    <3>2. v.family = "resize" /\ v.images
      <4>1. ~ FolderDir(k.dir, v, Version(v)) /\ ~ PlainDir(k.dir, v, Version(v))
        BY <3>1 DEF FolderDir, ImagesDir, PlainDir
      <4> QED
        BY <2>1, <2>2, <4>1
    <3>3. ImagesDir(k.dir, v, Version(v))
      BY <2>2, <3>2
    <3>4. /\ Version(u) = Version(v) /\ u.width = v.width /\ u.height = v.height
          /\ u.alpha = v.alpha
      BY <3>1, <3>3, AbsentAlike DEF ImagesDir
    <3> QED
      BY <1>2, <1>3, <2>2, <2>4, <3>2, <3>4, SameResize
  <2>5. CASE u.family = "resize" /\ ~ u.images
    <3>1. PlainDir(k.dir, u, Version(u))
      BY <2>2, <2>5
    <3>2. v.family = "resize" /\ ~ v.images
      <4>1. ~ FolderDir(k.dir, v, Version(v)) /\ ~ ImagesDir(k.dir, v, Version(v))
        BY <3>1 DEF FolderDir, ImagesDir, PlainDir
      <4> QED
        BY <2>1, <2>2, <4>1
    <3>3. PlainDir(k.dir, v, Version(v))
      BY <2>2, <3>2
    <3>4. /\ Version(u) = Version(v) /\ u.width = v.width /\ u.height = v.height
          /\ u.alpha = v.alpha
      BY <3>1, <3>3, AbsentAlike DEF PlainDir
    <3> QED
      BY <1>2, <1>3, <2>2, <2>5, <3>2, <3>4, SameResize
  <2> QED
    BY <1>8, <2>1, <2>3, <2>4, <2>5
<1> QED
  BY <1>4, <1>5, <1>6, <1>7, <1>8 DEF Families

Starts(d, a) == d[1] = a

LEMMA First ==
    ASSUME NEW a, NEW b, NEW c, NEW e, NEW x, IsSeq(x), NEW f
    PROVE  Starts(<<a, b, c, e>> \o x \o <<f>>, a)
<1>1. PICK s, r : s = <<a, b, c, e>> /\ r = s \o x
  OBVIOUS
<1>2. IsSeq(s) /\ Len(s) = 4 /\ s[1] = a
  <2>1. s \in Seq({a, b, c, e}) /\ Len(s) = 4 /\ s[1] = a
    BY <1>1
  <2> QED
    BY <2>1 DEF IsSeq
<1>3. Follows(r, s, x) /\ IsSeq(r)
  BY <1>1, <1>2, Chain, Zenon
<1>4. IsSeq(<<f>>)
  BY Tuples
<1>5. PICK d : d = r \o <<f>>
  OBVIOUS
<1>6. Follows(d, r, <<f>>)
  BY <1>3, <1>4, <1>5, Chain, Zenon
<1>7. r[1] = a /\ Len(r) \in Nat /\ Len(r) >= 1
  BY <1>2, <1>3 DEF Follows
<1>8. d[1] = a
  BY <1>6, <1>7 DEF Follows
<1> QED
  BY <1>1, <1>5, <1>8 DEF Starts

\* A stored key that a URL spells out is the key of that URL.
LEMMA RawIsStored ==
    ASSUME NEW u, IsUrl(u), NEW v, IsUrl(v), RawKey(u) = getNormalizedKey(v)
    PROVE  getNormalizedKey(u) = getNormalizedKey(v)
<1>1. PICK k : k = RawKey(u) /\ k = getNormalizedKey(v)
  OBVIOUS
<1>2. /\ k.dir[1] = Tenant(v)
      /\ v.family \in {"resize", "folder"} <=> k.dir[2] \notin Reserved
      /\ v.family = "file" <=> k.dir[2] = "files"
      /\ v.family \in {"param", "paramfile"} <=> k.dir[2] = "_p"
  BY <1>1, FamilyOf
<1>3. k.dir[2] \notin {"images", "products"}
  <2>1. v.family \in {"resize", "folder", "file", "param", "paramfile"}
    BY DEF IsUrl, Families
  <2> QED
    BY <1>2, <2>1 DEF Reserved
<1>4. CASE u.family \in {"resize", "folder"}
  <2>1. k = LegacyKey(u, u.version, u.alpha, u.name)
    BY <1>1, <1>4 DEF RawKey
  <2>2. ~ Absent(u.version)
    BY <1>3, <1>4, <2>1, UnversionedKey
  <2>3. Version(u) = u.version
    BY <2>2 DEF Version, Absent
  <2> QED
    BY <1>1, <1>4, <2>1, <2>3 DEF getNormalizedKey, KeyOf
<1>5. CASE u.family = "file"
  BY <1>1, <1>5, StoredFile
<1>6. CASE u.family \in {"param", "paramfile"}
  <2>1. PICK x : /\ x \in {<< >>, <<"files">>}
                 /\ k = Key(<<"_p", "signature", u.options, Tenant(u)>> \o x \o <<u.folder>>, u.name)
    BY <1>1, <1>6 DEF RawKey
  <2>2. IsSeq(x)
    BY <2>1, Tuples
  <2>3. Starts(<<"_p", "signature", u.options, Tenant(u)>> \o x \o <<u.folder>>, "_p")
    BY <2>2, First, Zenon
  <2>4. k.dir[1] = "_p"
    BY <2>1, <2>3 DEF Key, Starts
  <2> QED
    BY <1>2, <2>4, TenantTells
<1> QED
  BY <1>4, <1>5, <1>6 DEF IsUrl, Families

LEMMA StoredBy ==
    ASSUME NEW s \in Stored
    PROVE  \E v \in UrlSpace : /\ IsUrl(v) /\ IsRendered(v)
                               /\ s = <<getNormalizedKey(v), Rendering(v), Candidates(v)>>
BY UrlsAreUrls DEF Stored

LEMMA OneRendering ==
    ASSUME NEW u, IsUrl(u), NEW k,
           \A v : IsUrl(v) /\ getNormalizedKey(v) = k => getNormalizedKey(u) = k
    PROVE  HoldsOnly(k, u)
<1>1. SUFFICES ASSUME NEW s \in Stored, s[1] = k
               PROVE  s = <<k, Rendering(u), Candidates(u)>>
  BY DEF HoldsOnly
<1>2. PICK v \in UrlSpace : /\ IsUrl(v) /\ IsRendered(v)
                            /\ s = <<getNormalizedKey(v), Rendering(v), Candidates(v)>>
  BY StoredBy
<1>3. getNormalizedKey(v) = k
  BY <1>1, <1>2
<1>4. getNormalizedKey(u) = getNormalizedKey(v)
  BY <1>2, <1>3
<1>5. SameImage(u, v)
  BY <1>2, <1>4, OneKeyOneImage
<1> QED
  BY <1>2, <1>3, <1>5 DEF SameImage

\* What is stored under a key of a URL, the one it spells out or the one it
\* means, is what the URL asks for.
LEMMA RightRenderings ==
    ASSUME NEW u, IsUrl(u)
    PROVE  HoldsOnly(getNormalizedKey(u), u) /\ HoldsOnly(RawKey(u), u)
<1>1. HoldsOnly(getNormalizedKey(u), u)
  BY OneRendering
<1>2. \A v : IsUrl(v) /\ getNormalizedKey(v) = RawKey(u) => getNormalizedKey(u) = RawKey(u)
  BY RawIsStored
<1>3. HoldsOnly(RawKey(u), u)
  BY <1>2, OneRendering
<1> QED
  BY <1>1, <1>3

-----------------------------------------------------------------------------
(* Other ways to write one list of options.                                *)

\* What os become by a whole list.
Run(os, list) == OptionsAfter(os, list)[Len(list)]

Named(list) == Len(list) \in Nat /\ \A i \in 1 .. Len(list) : ~ Absent(list[i].name)

LEMMA NamedRuns ==
    ASSUME NEW list, Named(list)
    PROVE  ParseOptions(list) = Run({NoOptions}, list)
<1>1. \A i \in 1 .. Len(list) : list[i].name # ""
  BY Zenon DEF Named, Absent
<1>2. Len(list) \in Nat
  BY Zenon DEF Named
<1>3. OptionCount(list) = Len(list)
  BY <1>1, <1>2, TailFound, Zenon
<1> QED
  BY <1>3 DEF ParseOptions, Run

LEMMA RunConcat ==
    ASSUME NEW s, IsSeq(s), NEW t, IsSeq(t), NEW os
    PROVE  Run(os, s \o t) = Run(Run(os, s), t)
<1>1. PICK r : r = s \o t
  OBVIOUS
<1>2. IsSeq(r) /\ Follows(r, s, t)
  BY <1>1, Chain, Zenon
<1>3. PICK n \in Nat, m \in Nat : n = Len(s) /\ m = Len(t)
  BY SeqFacts
<1>4. /\ Len(r) = n + m
      /\ \A i \in 1 .. n : r[i] = s[i]
      /\ \A i \in 1 .. m : r[n + i] = t[i]
  BY <1>2, <1>3 DEF Follows
<1>5. PICK a, b : a = OptionsAfter(os, s) /\ b = OptionsAfter(a[n], t)
  OBVIOUS
<1>6. /\ a[0] = os /\ \A i \in 1 .. n : a[i] = Through(a[i - 1], s[i])
      /\ b[0] = a[n] /\ \A i \in 1 .. m : b[i] = Through(b[i - 1], t[i])
  BY <1>3, <1>5, AfterDef
<1>7. PICK c : c = [i \in 0 .. n + m |-> IF i <= n THEN a[i] ELSE b[i - n]]
  OBVIOUS
<1>8. c[0] = os
  BY <1>6, <1>7
<1>9. ASSUME NEW i \in 1 .. n + m
      PROVE  c[i] = Through(c[i - 1], r[i])
  <2>1. CASE i <= n
    <3>1. i \in 1 .. n /\ c[i] = a[i] /\ c[i - 1] = a[i - 1]
      BY <1>7, <2>1
    <3> QED
      BY <1>4, <1>6, <3>1
  <2>2. CASE ~ (i <= n)
    <3>1. PICK j \in 1 .. m : i = n + j
      <4>1. i - n \in 1 .. m /\ i = n + (i - n)
        BY <2>2
      <4> QED
        BY <4>1
    <3>2. c[i] = b[j]
      BY <1>7, <2>2, <3>1
    <3>3. c[i - 1] = b[j - 1]
      <4>1. CASE j = 1
        <5>1. i - 1 = n /\ c[i - 1] = a[n]
          BY <1>7, <3>1, <4>1
        <5> QED
          BY <1>6, <4>1, <5>1
      <4>2. CASE j # 1
        <5>1. i - 1 \in 0 .. n + m /\ ~ (i - 1 <= n) /\ i - 1 - n = j - 1
          BY <3>1, <4>2
        <5> QED
          BY <1>7, <5>1
      <4> QED
        BY <4>1, <4>2
    <3>4. r[i] = t[j] /\ b[j] = Through(b[j - 1], t[j])
      BY <1>4, <1>6, <3>1
    <3> QED
      BY <3>2, <3>3, <3>4
  <2> QED
    BY <2>1, <2>2
<1>10. OptionsAfter(os, r)[n + m] = c[n + m]
  BY <1>4, <1>8, <1>9, AfterUnique
<1>11. c[n + m] = b[m]
  <2>1. CASE m = 0
    BY <1>6, <1>7, <2>1
  <2>2. CASE m # 0
    <3>1. ~ (n + m <= n) /\ n + m - n = m /\ n + m \in 0 .. n + m
      BY <2>2
    <3> QED
      BY <1>7, <3>1
  <2> QED
    BY <2>1, <2>2
<1> QED
  BY <1>1, <1>3, <1>4, <1>5, <1>10, <1>11 DEF Run

LEMMA RunShort ==
    /\ \A os : Run(os, << >>) = os
    /\ \A os, x : Run(os, <<x>>) = Through(os, x)
<1>1. ASSUME NEW os
      PROVE  Run(os, << >>) = os
  BY AfterDef, Tuples DEF Run
<1>2. ASSUME NEW os, NEW x
      PROVE  Run(os, <<x>>) = Through(os, x)
  <2>1. PICK s : s = <<x>>
    OBVIOUS
  <2>2. Len(s) = 1 /\ s[1] = x
    BY <2>1, Tuples
  <2>3. OptionsAfter(os, s)[0] = os /\ OptionsAfter(os, s)[1] = Through(OptionsAfter(os, s)[1 - 1], s[1])
    BY <2>2, AfterDef
  <2> QED
    BY <2>1, <2>2, <2>3 DEF Run
<1> QED
  BY <1>1, <1>2

LEMMA RunTyped ==
    ASSUME NEW os \in SUBSET OptionRecord, Single(os), NEW list, Len(list) \in Nat
    PROVE  Run(os, list) \in SUBSET OptionRecord /\ Single(Run(os, list))
BY AfterTyped DEF Run

\* Steps that make the same of everything may replace each other one by one.
LEMMA RunSame ==
    ASSUME NEW s, NEW t, Len(s) \in Nat, Len(t) = Len(s), NEW os,
           \A S, i : i \in 1 .. Len(s) => Through(S, s[i]) = Through(S, t[i])
    PROVE  Run(os, s) = Run(os, t)
<1>1. PICK a : a = OptionsAfter(os, s)
  OBVIOUS
<1>2. a[0] = os /\ \A i \in 1 .. Len(s) : a[i] = Through(a[i - 1], t[i])
  <2>1. a[0] = os /\ \A i \in 1 .. Len(s) : a[i] = Through(a[i - 1], s[i])
    BY <1>1, AfterDef
  <2> QED
    BY <2>1
<1>3. OptionsAfter(os, t)[Len(t)] = a[Len(t)]
  BY <1>2, AfterUnique
<1> QED
  BY <1>1, <1>3 DEF Run

\* What each way of writing has to keep: the list still has its names, and
\* parses to what reads the same canonically.
Alike(list, other) ==
    /\ Parses(other)
    /\ Canonical(OptionsOf(other)) = Canonical(OptionsOf(list))

LEMMA SameParse ==
    ASSUME NEW list, Parses(list), NEW other, Len(other) \in Nat,
           ParseOptions(other) = ParseOptions(list)
    PROVE  Alike(list, other)
BY DEF Alike, Parses, OptionsOf

LEMMA ListsNamed ==
    ASSUME NEW list \in OptionLists
    PROVE  /\ IsSeq(list) /\ Named(list) /\ DOMAIN list = 1 .. Len(list)
           /\ \A i \in 1 .. Len(list) : list[i] = [name |-> list[i].name, args |-> list[i].args]
<1>1. list \in Seq(PathSegment) /\ \A i \in DOMAIN list : list[i].name # ""
  BY UrlAssumption
<1>2. \A i \in DOMAIN list : ~ Absent(list[i].name)
  BY <1>1, Zenon DEF Absent
<1>3. list \in Seq(PathSegment)
  BY <1>1, Zenon
<1>4. IsSeq(list) /\ Len(list) \in Nat /\ DOMAIN list = 1 .. Len(list)
  BY <1>3, LenProperties DEF IsSeq
<1>5. \A i \in 1 .. Len(list) : list[i] \in PathSegment
  BY <1>3, ElementOfSeq
<1> QED
  BY <1>2, <1>4, <1>5 DEF Named, PathSegment

\* A segment under another name for the same option.
LEMMA AliasedAlike ==
    ASSUME NEW list \in OptionLists, NEW other \in Aliased(list)
    PROVE  Alike(list, other)
<1>1. PICK i \in DOMAIN list, n \in LongNames \union DOMAIN Aliases :
        LongName(n) = LongName(list[i].name) /\ other = [list EXCEPT ![i].name = n]
  BY DEF Aliased
<1>2. /\ IsSeq(list) /\ Named(list) /\ DOMAIN list = 1 .. Len(list)
      /\ \A j \in 1 .. Len(list) : list[j] = [name |-> list[j].name, args |-> list[j].args]
  BY ListsNamed
<1>3. ~ Absent(n)
  BY FieldNames DEF LongNames, Aliases, Compound, Absent
<1>4. list \in Seq(PathSegment)
  BY UrlAssumption
<1>5. Len(other) = Len(list)
  BY <1>1, <1>4
<1>6. \A j \in 1 .. Len(list) : /\ LongName(other[j].name) = LongName(list[j].name)
                                /\ other[j].args = list[j].args /\ ~ Absent(other[j].name)
  <2>1. SUFFICES ASSUME NEW j \in 1 .. Len(list)
                 PROVE  /\ LongName(other[j].name) = LongName(list[j].name)
                        /\ other[j].args = list[j].args /\ ~ Absent(other[j].name)
    OBVIOUS
  <2>2. CASE j = i
    <3>1. other[i] = [list[i] EXCEPT !.name = n]
      BY <1>1
    <3>2. other[i].name = n /\ other[i].args = list[i].args
      BY <1>1, <1>2, <3>1
    <3> QED
      BY <1>1, <1>3, <2>2, <3>2
  <2>3. CASE j # i
    <3>1. other[j] = list[j]
      BY <1>1, <1>2, <2>3
    <3> QED
      BY <1>2, <3>1 DEF Named
  <2> QED
    BY <2>2, <2>3
<1>7. Named(other)
  BY <1>2, <1>5, <1>6 DEF Named
<1>8. \A o, j : j \in 1 .. Len(list) => Apply(o, list[j]) = Apply(o, other[j])
  BY <1>6, Zenon DEF Apply
<1>9. \A S, j : j \in 1 .. Len(list) => Through(S, list[j]) = Through(S, other[j])
  BY <1>8 DEF Through
<1>10. Run({NoOptions}, list) = Run({NoOptions}, other)
  BY <1>2, <1>5, <1>9, RunSame DEF Named
<1>11. Parses(list) /\ Len(other) \in Nat
  BY <1>2, <1>5, ListsParse DEF Named
<1> QED
  BY <1>2, <1>7, <1>10, <1>11, NamedRuns, SameParse

\* Segments that set different fields may change places.
LEMMA ActsCommute ==
    ASSUME NEW F, NEW G, NEW D1, NEW D2, D1 \intersect D2 = {}, Acts(F, D1), Acts(G, D2),
           NEW o \in OptionRecord
    PROVE  UNION {G[p] : p \in F[o]} \subseteq UNION {F[p] : p \in G[o]}
<1>1. PICK C1 \in SUBSET D1, E1 \in SUBSET OptionRecord :
        Single(E1) /\ \A q \in OptionRecord : F[q] = {Overridden(q, C1, p) : p \in E1}
  BY DEF Acts
<1>2. PICK C2 \in SUBSET D2, E2 \in SUBSET OptionRecord :
        Single(E2) /\ \A q \in OptionRecord : G[q] = {Overridden(q, C2, p) : p \in E2}
  BY DEF Acts
<1>3. SUFFICES ASSUME NEW z \in UNION {G[p] : p \in F[o]}
               PROVE  z \in UNION {F[p] : p \in G[o]}
  OBVIOUS
<1>4. PICK p \in E1 : z \in G[Overridden(o, C1, p)]
  BY <1>1
<1>5. Overridden(o, C1, p) \in OptionRecord
  BY <1>4, OverriddenTyped
<1>6. PICK q \in E2 : z = Overridden(Overridden(o, C1, p), C2, q)
  BY <1>2, <1>4, <1>5
<1>7. z = Overridden(Overridden(o, C2, q), C1, p)
  <2>1. C1 \intersect C2 = {}
    BY <1>1, <1>2
  <2> QED
    BY <1>6, <2>1 DEF Overridden
<1>8. Overridden(o, C2, q) \in OptionRecord
  BY <1>6, OverriddenTyped
<1>9. Overridden(o, C2, q) \in G[o]
  BY <1>2, <1>6
<1>10. z \in F[Overridden(o, C2, q)]
  BY <1>1, <1>4, <1>7, <1>8
<1> QED
  BY <1>9, <1>10

LEMMA ThroughTyped ==
    ASSUME NEW S \in SUBSET OptionRecord, Single(S), NEW x
    PROVE  Through(S, x) \in SUBSET OptionRecord /\ Single(Through(S, x))
<1>1. <<x>> \in Seq({x}) /\ Len(<<x>>) = 1
  OBVIOUS
<1>2. Run(S, <<x>>) = Through(S, x)
  BY RunShort
<1>3. Len(<<x>>) \in Nat
  BY <1>1
<1> QED
  BY <1>2, <1>3, RunTyped

LEMMA HalfCommute ==
    ASSUME NEW S \in SUBSET OptionRecord, NEW x, NEW y, Sets(x) \intersect Sets(y) = {}
    PROVE  Through(Through(S, x), y) \subseteq Through(Through(S, y), x)
<1> DEFINE F == ApplyTo(x)
           G == ApplyTo(y)
<1>1. Acts(F, Sets(x)) /\ Acts(G, Sets(y))
  BY ApplyActs
<1>2. \A o \in OptionRecord : F[o] = Apply(o, x) /\ G[o] = Apply(o, y)
  BY DEF ApplyTo
<1>3. \A o \in OptionRecord : F[o] \subseteq OptionRecord /\ G[o] \subseteq OptionRecord
  <2> HIDE DEF F, G
  <2> QED
    BY <1>1, ActsTyped
<1> HIDE DEF F, G
<1>4. ASSUME NEW o \in OptionRecord
      PROVE  UNION {G[p] : p \in F[o]} \subseteq UNION {F[p] : p \in G[o]}
  BY <1>1, ActsCommute
<1>5. SUFFICES ASSUME NEW z \in Through(Through(S, x), y)
               PROVE  z \in Through(Through(S, y), x)
  OBVIOUS
<1>6. PICK p \in Through(S, x) : z \in Apply(p, y)
  BY DEF Through
<1>7. PICK o \in S : p \in Apply(o, x)
  BY <1>6 DEF Through
<1>8. p \in F[o] /\ p \in OptionRecord /\ z \in G[p]
  BY <1>2, <1>3, <1>6, <1>7
<1>9. z \in UNION {F[q] : q \in G[o]}
  BY <1>4, <1>7, <1>8
<1>10. PICK q \in G[o] : z \in F[q]
  BY <1>9
<1>11. q \in Apply(o, y) /\ z \in Apply(q, x)
  BY <1>2, <1>3, <1>7, <1>10
<1>12. q \in Through(S, y)
  BY <1>7, <1>11 DEF Through
<1> QED
  BY <1>11, <1>12 DEF Through

LEMMA ThroughCommute ==
    ASSUME NEW S \in SUBSET OptionRecord, NEW x, NEW y, Sets(x) \intersect Sets(y) = {}
    PROVE  Through(Through(S, x), y) = Through(Through(S, y), x)
<1>1. Sets(y) \intersect Sets(x) = {}
  OBVIOUS
<1>2. Through(Through(S, x), y) \subseteq Through(Through(S, y), x)
  BY HalfCommute
<1>3. Through(Through(S, y), x) \subseteq Through(Through(S, x), y)
  BY <1>1, HalfCommute
<1> QED
  BY <1>2, <1>3

\* A compound segment taken apart.
AtomicPart(segment) ==
    LET fields == Compound[LongName(segment.name)] IN
    [i \in DOMAIN fields |-> Opt(fields[i], <<argAt(segment.args, i)>>)]

LeftOver(segment) ==
    LET fields == Compound[LongName(segment.name)] IN
    IF Len(segment.args) <= Len(fields) THEN << >>
    ELSE <<Opt("extend", From(segment.args, Len(fields) + 1))>>

LEMMA AtomsParts ==
    ASSUME NEW x, IsCompound(x), NEW fields, fields = Compound[LongName(x.name)]
    PROVE  /\ Atoms(x) = AtomicPart(x) \o LeftOver(x)
           /\ Len(fields) \in Nat /\ \A i \in 1 .. Len(fields) : fields[i] \in Atomic
           /\ IsSeq(AtomicPart(x)) /\ Len(AtomicPart(x)) = Len(fields)
           /\ \A i \in 1 .. Len(fields) : AtomicPart(x)[i] = Opt(fields[i], <<argAt(x.args, i)>>)
           /\ Len(x.args) <= Len(fields) => LeftOver(x) = << >>
           /\ ~ (Len(x.args) <= Len(fields)) =>
                LeftOver(x) = <<Opt("extend", From(x.args, Len(fields) + 1))>>
           /\ IsSeq(LeftOver(x))
<1>1. Atoms(x) = AtomicPart(x) \o LeftOver(x)
  BY DEF Atoms, AtomicPart, LeftOver
<1>2. /\ Len(fields) \in Nat /\ DOMAIN fields = 1 .. Len(fields)
      /\ \A i \in 1 .. Len(fields) : fields[i] \in Atomic
  BY CompoundFields DEF IsCompound
<1>3. AtomicPart(x) = [i \in 1 .. Len(fields) |-> Opt(fields[i], <<argAt(x.args, i)>>)]
  BY <1>2 DEF AtomicPart
<1>4. IsSeq(AtomicPart(x)) /\ Len(AtomicPart(x)) = Len(fields)
  <2> DEFINE e(i) == Opt(fields[i], <<argAt(x.args, i)>>)
             E == {e(i) : i \in 1 .. Len(fields)}
  <2>1. \A i \in 1 .. Len(fields) : e(i) \in E
    OBVIOUS
  <2>2. AtomicPart(x) = [i \in 1 .. Len(fields) |-> e(i)]
    BY <1>3
  <2> HIDE DEF e, E
  <2>3. AtomicPart(x) \in [1 .. Len(fields) -> E]
    BY <2>1, <2>2
  <2>4. AtomicPart(x) \in Seq(E)
    BY <1>2, <2>3, SeqDef
  <2>5. Len(AtomicPart(x)) = Len(fields)
    BY <1>2, <2>3, <2>4, LenProperties
  <2> QED
    BY <2>4, <2>5 DEF IsSeq
<1>5. /\ Len(x.args) <= Len(fields) => LeftOver(x) = << >>
      /\ ~ (Len(x.args) <= Len(fields)) =>
           LeftOver(x) = <<Opt("extend", From(x.args, Len(fields) + 1))>>
  BY DEF LeftOver
<1>6. IsSeq(LeftOver(x))
  BY <1>5, Tuples
<1> QED
  BY <1>1, <1>2, <1>3, <1>4, <1>5, <1>6

LEMMA SetsTouched ==
    ASSUME NEW x
    PROVE  Sets(x) \subseteq Touches(x)
<1>1. CASE ~ IsCompound(x)
  BY <1>1 DEF IsCompound, Sets, Touches
<1>2. CASE IsCompound(x)
  <2>1. PICK fields, args : fields = Compound[LongName(x.name)] /\ args = x.args
    OBVIOUS
  <2>2. PICK A, L, all : A = AtomicPart(x) /\ L = LeftOver(x) /\ all = Atoms(x)
    OBVIOUS
  <2>3. /\ all = A \o L /\ IsSeq(A) /\ IsSeq(L) /\ Len(fields) \in Nat /\ Len(A) = Len(fields)
        /\ \A i \in 1 .. Len(fields) : A[i] = Opt(fields[i], <<argAt(args, i)>>)
    BY <1>2, <2>1, <2>2, AtomsParts
  <2>4. Follows(all, A, L) /\ IsSeq(all)
    BY <2>3, Chain, Zenon
  <2>5. DOMAIN all = 1 .. Len(all) /\ Len(all) = Len(A) + Len(L) /\ Len(L) \in Nat
    BY <2>4, SeqFacts DEF Follows
  <2>6. Touches(x) = {all[i].name : i \in 1 .. Len(all)}
    <3>1. ToSet(all) = {all[i] : i \in 1 .. Len(all)}
      BY <2>5 DEF ToSet
    <3>2. Touches(x) = {a.name : a \in ToSet(all)}
      BY <1>2, <2>2 DEF Touches
    <3> QED
      BY <3>1, <3>2
  <2>7. ASSUME NEW i \in 1 .. Len(fields)
        PROVE  fields[i] \in Touches(x)
    <3>1. i \in 1 .. Len(all) /\ all[i] = A[i]
      BY <2>3, <2>4, <2>5 DEF Follows
    <3>2. all[i] = Opt(fields[i], <<argAt(args, i)>>)
      BY <2>3, <3>1
    <3>3. \A f, b : Opt(f, b).name = f
      BY DEF Opt
    <3>4. all[i].name = fields[i]
      BY <3>2, <3>3
    <3> QED
      BY <2>6, <3>1, <3>4
  <2>8. ~ (Len(args) <= Len(fields)) => "extend" \in Touches(x)
    <3>1. SUFFICES ASSUME ~ (Len(args) <= Len(fields))
                   PROVE  "extend" \in Touches(x)
      OBVIOUS
    <3>2. L = <<Opt("extend", From(args, Len(fields) + 1))>>
      BY <1>2, <2>1, <2>2, <3>1, AtomsParts
    <3>3. Len(L) = 1 /\ L[1] = Opt("extend", From(args, Len(fields) + 1))
      BY <3>2, Tuples
    <3>4. Len(A) + 1 \in 1 .. Len(all) /\ all[Len(A) + 1] = L[1]
      BY <2>3, <2>4, <2>5, <3>3 DEF Follows
    <3>5. all[Len(A) + 1].name = "extend"
      BY <3>3, <3>4 DEF Opt
    <3> QED
      BY <2>6, <3>4, <3>5
  <2>9. DOMAIN fields = 1 .. Len(fields)
    BY <1>2, <2>1, CompoundFields DEF IsCompound
  <2>10. Sets(x) = {fields[i] : i \in 1 .. Len(fields)}
                     \union (IF Len(args) <= Len(fields) THEN {} ELSE {"extend"})
    BY <1>2, <2>1, <2>9 DEF IsCompound, Sets, CompoundSets
  <2> QED
    BY <2>7, <2>8, <2>10
<1> QED
  BY <1>1, <1>2

LEMMA StartTyped == {NoOptions} \in SUBSET OptionRecord /\ Single({NoOptions})
BY NoOptionsTyped DEF Single

LEMMA SwappedAlike ==
    ASSUME NEW list \in OptionLists, NEW other \in Swapped(list)
    PROVE  Alike(list, other)
<1>1. PICK i \in 1 .. Len(list) - 1 :
        /\ Touches(list[i]) \intersect Touches(list[i + 1]) = {}
        /\ other = [list EXCEPT ![i] = list[i + 1], ![i + 1] = list[i]]
  BY DEF Swapped
<1>2. IsSeq(list) /\ Named(list) /\ DOMAIN list = 1 .. Len(list)
  BY ListsNamed
<1>3. PICK n \in Nat : n = Len(list)
  BY <1>2 DEF Named
<1>4. list \in Seq(PathSegment)
  BY UrlAssumption
<1>5. i \in 1 .. n /\ i + 1 \in 1 .. n /\ i # i + 1
  BY <1>1, <1>3
<1>6. Len(other) = n
  BY <1>1, <1>3, <1>4, <1>5
<1>7. /\ other[i] = list[i + 1] /\ other[i + 1] = list[i]
      /\ \A j \in 1 .. n : j # i /\ j # i + 1 => other[j] = list[j]
  BY <1>1, <1>2, <1>3, <1>5
<1>8. Named(other)
  <2>1. \A j \in 1 .. n : ~ Absent(list[j].name)
    BY <1>2, <1>3 DEF Named
  <2>2. \A j \in 1 .. n : ~ Absent(other[j].name)
    BY <1>5, <1>7, <2>1
  <2> QED
    BY <1>6, <2>2 DEF Named
<1>9. PICK a, x, y : a = OptionsAfter({NoOptions}, list) /\ x = list[i] /\ y = list[i + 1]
  OBVIOUS
<1>10. a[0] = {NoOptions} /\ \A j \in 1 .. n : a[j] = Through(a[j - 1], list[j])
  BY <1>3, <1>9, AfterDef
<1>11. a[i - 1] \in SUBSET OptionRecord
  <2>1. i - 1 \in 0 .. n
    BY <1>5
  <2>2. \A j \in 0 .. n : a[j] \subseteq OptionRecord
    BY <1>3, <1>9, StartTyped, AfterTyped
  <2> QED
    BY <2>1, <2>2
<1>12. Sets(x) \intersect Sets(y) = {}
  BY <1>1, <1>9, SetsTouched
<1>13. Through(Through(a[i - 1], x), y) = Through(Through(a[i - 1], y), x)
  BY <1>11, <1>12, ThroughCommute
<1>14. a[i] = Through(a[i - 1], x) /\ a[i + 1] = Through(a[i], y)
  <2>1. a[i] = Through(a[i - 1], list[i]) /\ a[i + 1] = Through(a[i + 1 - 1], list[i + 1])
    BY <1>5, <1>10
  <2>2. i + 1 - 1 = i
    OBVIOUS
  <2> QED
    BY <1>9, <2>1, <2>2
<1>15. PICK c : c = [j \in 0 .. n |-> IF j = i THEN Through(a[i - 1], y) ELSE a[j]]
  OBVIOUS
<1>16. c[0] = {NoOptions} /\ c[n] = a[n]
  BY <1>1, <1>3, <1>10, <1>15
<1>17. ASSUME NEW j \in 1 .. n
       PROVE  c[j] = Through(c[j - 1], other[j])
  <2>1. CASE j = i
    <3>1. c[i] = Through(a[i - 1], y) /\ c[i - 1] = a[i - 1] /\ other[i] = y
      BY <1>5, <1>7, <1>9, <1>15
    <3> QED
      BY <2>1, <3>1
  <2>2. CASE j = i + 1
    <3>1. c[i + 1] = a[i + 1] /\ c[i] = Through(a[i - 1], y) /\ other[i + 1] = x
      BY <1>5, <1>7, <1>9, <1>15
    <3>2. j - 1 = i
      BY <2>2
    <3> QED
      BY <1>13, <1>14, <2>2, <3>1, <3>2
  <2>3. CASE j # i /\ j # i + 1
    <3>1. j - 1 # i /\ j - 1 \in 0 .. n
      BY <2>3
    <3>2. c[j] = a[j] /\ c[j - 1] = a[j - 1] /\ other[j] = list[j]
      BY <1>7, <1>15, <2>3, <3>1
    <3> QED
      BY <1>10, <3>2
  <2> QED
    BY <2>1, <2>2, <2>3
<1>18. OptionsAfter({NoOptions}, other)[n] = c[n]
  <2>1. Len(other) \in Nat /\ n \in 0 .. Len(other)
    BY <1>6
  <2>2. c[0] = {NoOptions} /\ \A j \in 1 .. n : c[j] = Through(c[j - 1], other[j])
    BY <1>16, <1>17
  <2>3. PICK os : os = {NoOptions}
    OBVIOUS
  <2>4. c[0] = os /\ \A j \in 1 .. n : c[j] = Through(c[j - 1], other[j])
    BY <2>2, <2>3
  <2>5. PICK h, m : h = c /\ m = n
    OBVIOUS
  <2>6. /\ m \in 0 .. Len(other) /\ h[0] = os
        /\ \A j \in 1 .. m : h[j] = Through(h[j - 1], other[j])
    BY <2>1, <2>4, <2>5
  <2>7. OptionsAfter(os, other)[m] = h[m]
    BY <2>1, <2>6, AfterUnique
  <2> QED
    BY <2>3, <2>5, <2>7
<1>19. Run({NoOptions}, other) = Run({NoOptions}, list)
  BY <1>3, <1>6, <1>9, <1>16, <1>18 DEF Run
<1>20. Parses(list) /\ Len(other) \in Nat
  BY <1>6, ListsParse
<1> QED
  BY <1>2, <1>8, <1>19, <1>20, NamedRuns, SameParse

LEMMA FieldApplied ==
    ASSUME NEW field \in Atomic, NEW s, NEW S
    PROVE  Through(S, Opt(field, <<s>>)) = FieldThrough(S, field, s)
<1>1. PICK x, args : x = Opt(field, args) /\ args = <<s>>
  OBVIOUS
<1>2. x.name = field /\ x.args = args
  BY <1>1 DEF Opt
<1>3. Len(args) = 1 /\ args[1] = s /\ DOMAIN args = 1 .. 1
  BY <1>1
<1>4. argAt(args, 1) = s /\ ~ (Len(args) > 1)
  BY <1>3 DEF argAt
<1>5. LongName(field) = field /\ field \in LongNames
  BY NamesApart DEF LongName, Aliases, Atomic
<1>6. \A o : Apply(o, x) = applyAtomic(o, field, s)
  <2>1. LongName(x.name) = field /\ x.args = args
    BY <1>2, <1>5
  <2>2. field \notin DOMAIN Compound /\ field # "background"
    BY DEF Atomic, Compound
  <2> QED
    BY <1>4, <1>5, <2>1, <2>2 DEF Apply
<1> QED
  BY <1>1, <1>6 DEF Through, FieldThrough

LEMMA ExtendApplied ==
    ASSUME NEW args, NEW S
    PROVE  Through(S, Opt("extend", args)) = UNION {applyWhole(o, "extend", args) : o \in S}
<1>1. PICK x : x = Opt("extend", args)
  OBVIOUS
<1>2. x.name = "extend" /\ x.args = args
  BY <1>1 DEF Opt
<1>3. /\ LongName("extend") = "extend" /\ "extend" \in LongNames /\ "extend" \notin Atomic
      /\ "extend" \notin DOMAIN Compound
  BY FieldNames DEF LongName, LongNames, Aliases, Atomic, Compound
<1>4. \A o : Apply(o, x) = applyWhole(o, "extend", args)
  BY <1>2, <1>3 DEF Apply
<1> QED
  BY <1>1, <1>4 DEF Through

LEMMA FieldsSpread ==
    ASSUME NEW S, NEW fields, NEW args, Len(fields) \in Nat
    PROVE  FieldsAfter(S, fields, args)[Len(fields)] =
             UNION {applyFields(o, fields, args) : o \in S}
<1> DEFINE a(os, i) == FieldsAfter(os, fields, args)[i]
           n == Len(fields)
           T == {i \in 0 .. n : a(S, i) = UNION {a({o}, i) : o \in S}}
<1>1. 0 \in T
  <2>1. a(S, 0) = S /\ \A o : a({o}, 0) = {o}
    BY FieldsAfterDef
  <2> HIDE DEF a
  <2>2. \A z : z \in UNION {a({o}, 0) : o \in S} <=> \E o \in S : z \in {o}
    BY <2>1
  <2>3. a(S, 0) = UNION {a({o}, 0) : o \in S}
    <3>1. PICK Y : Y = UNION {a({o}, 0) : o \in S}
      OBVIOUS
    <3>2. \A z : z \in Y <=> z \in S
      BY <2>2, <3>1
    <3>3. Y = S
      BY <3>2
    <3> QED
      BY <2>1, <3>1, <3>3
  <2>4. 0 \in 0 .. n
    OBVIOUS
  <2> QED
    BY <2>3, <2>4
<1>2. ASSUME NEW i \in 0 .. n - 1, i \in T
      PROVE  i + 1 \in T
  <2>1. \A os : a(os, i + 1) = UNION {applyAtomic(p, fields[i + 1], argAt(args, i + 1)) : p \in a(os, i)}
    BY FieldsAfterDef DEF FieldThrough
  <2>2. a(S, i) = UNION {a({o}, i) : o \in S}
    BY <1>2
  <2> HIDE DEF a
  <2>3. a(S, i + 1) = UNION {a({o}, i + 1) : o \in S}
    <3> DEFINE next(p) == applyAtomic(p, fields[i + 1], argAt(args, i + 1))
    <3>1. \A os : a(os, i + 1) = UNION {next(p) : p \in a(os, i)}
      BY <2>1
    <3> HIDE DEF next
    <3>2. ASSUME NEW z
          PROVE  z \in a(S, i + 1) <=> \E o \in S : z \in a({o}, i + 1)
      <4>1. z \in a(S, i + 1) <=> \E p \in a(S, i) : z \in next(p)
        BY <3>1
      <4>2. \A o : z \in a({o}, i + 1) <=> \E p \in a({o}, i) : z \in next(p)
        <5>1. TAKE o
        <5>2. PICK os : os = {o}
          OBVIOUS
        <5>3. a(os, i + 1) = UNION {next(p) : p \in a(os, i)}
          BY <3>1
        <5>4. z \in a(os, i + 1) <=> \E p \in a(os, i) : z \in next(p)
          BY <5>3
        <5> QED
          BY <5>2, <5>4, Zenon
      <4>3. \A p : p \in a(S, i) <=> \E o \in S : p \in a({o}, i)
        BY <2>2
      <4> QED
        BY <4>1, <4>2, <4>3
    <3>3. PICK X, Y : X = a(S, i + 1) /\ Y = UNION {a({o}, i + 1) : o \in S}
      OBVIOUS
    <3>4. \A z : z \in Y <=> \E o \in S : z \in a({o}, i + 1)
      BY <3>3
    <3>5. \A z : z \in X <=> z \in Y
      BY <3>2, <3>3, <3>4
    <3>6. X = Y
      BY <3>5
    <3> QED
      BY <3>3, <3>6
  <2>4. i + 1 \in 0 .. n
    OBVIOUS
  <2> QED
    BY <2>3, <2>4
<1>3. n \in T
  <2> HIDE DEF T
  <2>1. \A i \in 0 .. n - 1 : i \in T => i + 1 \in T
    BY <1>2
  <2>2. 0 .. n \subseteq T
    BY <1>1, <2>1, UpTo
  <2> QED
    BY <2>2
<1> QED
  BY <1>3 DEF applyFields

\* A compound segment does what its atoms do in turn.
LEMMA AtomsRun ==
    ASSUME NEW x, IsCompound(x), NEW S
    PROVE  Run(S, Atoms(x)) = Through(S, x)
<1>1. PICK fields, args, name : fields = Compound[name] /\ args = x.args /\ name = LongName(x.name)
  OBVIOUS
<1>2. PICK A, L : A = AtomicPart(x) /\ L = LeftOver(x)
  OBVIOUS
<1>3. /\ Atoms(x) = A \o L /\ IsSeq(A) /\ IsSeq(L) /\ Len(fields) \in Nat /\ Len(A) = Len(fields)
      /\ \A i \in 1 .. Len(fields) : fields[i] \in Atomic
      /\ \A i \in 1 .. Len(fields) : A[i] = Opt(fields[i], <<argAt(args, i)>>)
      /\ Len(args) <= Len(fields) => L = << >>
      /\ ~ (Len(args) <= Len(fields)) => L = <<Opt("extend", From(args, Len(fields) + 1))>>
  BY <1>1, <1>2, AtomsParts
<1>4. Run(S, Atoms(x)) = Run(Run(S, A), L)
  BY <1>3, RunConcat
<1>5. PICK a : a = FieldsAfter(S, fields, args)
  OBVIOUS
<1>6. Run(S, A) = a[Len(fields)]
  <2>1. a[0] = S
    BY <1>3, <1>5, FieldsAfterDef
  <2>2. ASSUME NEW i \in 1 .. Len(A)
        PROVE  a[i] = Through(a[i - 1], A[i])
    <3>1. a[i] = FieldThrough(a[i - 1], fields[i], argAt(args, i))
      BY <1>3, <1>5, FieldsAfterDef
    <3>2. fields[i] \in Atomic /\ A[i] = Opt(fields[i], <<argAt(args, i)>>)
      BY <1>3
    <3>3. Through(a[i - 1], Opt(fields[i], <<argAt(args, i)>>)) = FieldThrough(a[i - 1], fields[i], argAt(args, i))
      BY <3>2, FieldApplied
    <3> QED
      BY <3>1, <3>2, <3>3
  <2>3. Len(A) \in Nat /\ Len(A) \in 0 .. Len(A)
    BY <1>3
  <2>4. OptionsAfter(S, A)[Len(A)] = a[Len(A)]
    BY <2>1, <2>2, <2>3, AfterUnique
  <2> QED
    BY <1>3, <2>4 DEF Run
<1>7. a[Len(fields)] = UNION {applyFields(o, fields, args) : o \in S}
  BY <1>3, <1>5, FieldsSpread
<1>8. \A o : Apply(o, x) = applyCompound(o, name, args)
  <2>1. name \in DOMAIN Compound /\ name \in LongNames /\ name \notin Atomic
    BY <1>1, NamesApart DEF IsCompound
  <2>2. LongName(x.name) = name /\ x.args = args
    BY <1>1
  <2>3. name # "background"
    BY <2>1 DEF Compound
  <2> QED
    BY <2>1, <2>2, <2>3 DEF Apply
<1>9. Through(S, x) = UNION {applyCompound(o, name, args) : o \in S}
  BY <1>8 DEF Through
<1>10. CASE Len(args) <= Len(fields)
  <2>1. \A o : applyCompound(o, name, args) = applyFields(o, fields, args)
    BY <1>1, <1>10 DEF applyCompound
  <2>2. Run(Run(S, A), L) = Run(S, A)
    BY <1>3, <1>10, RunShort
  <2> QED
    BY <1>4, <1>6, <1>7, <1>9, <2>1, <2>2
<1>11. CASE ~ (Len(args) <= Len(fields))
  <2> DEFINE W(p) == applyWhole(p, "extend", From(args, Len(fields) + 1))
             P(o) == applyFields(o, fields, args)
  <2>1. \A o : applyCompound(o, name, args) = UNION {W(p) : p \in P(o)}
    BY <1>1, <1>11 DEF applyCompound
  <2>2. Run(Run(S, A), L) = Through(Run(S, A), Opt("extend", From(args, Len(fields) + 1)))
    BY <1>3, <1>11, RunShort
  <2>3. Run(Run(S, A), L) = UNION {W(p) : p \in a[Len(fields)]}
    BY <1>6, <2>2, ExtendApplied
  <2> HIDE DEF W, P
  <2>4. a[Len(fields)] = UNION {P(o) : o \in S}
    BY <1>7 DEF P
  <2>5. ASSUME NEW z
        PROVE  z \in UNION {W(p) : p \in a[Len(fields)]} <=> z \in Through(S, x)
    <3>1. z \in UNION {W(p) : p \in a[Len(fields)]} <=> \E o \in S : \E p \in P(o) : z \in W(p)
      BY <2>4
    <3>2. z \in Through(S, x) <=> \E o \in S : z \in applyCompound(o, name, args)
      BY <1>9
    <3>3. \A o : z \in applyCompound(o, name, args) <=> \E p \in P(o) : z \in W(p)
      BY <2>1
    <3> QED
      BY <3>1, <3>2, <3>3
  <2>6. UNION {W(p) : p \in a[Len(fields)]} = Through(S, x)
    BY <2>5
  <2> QED
    BY <1>4, <2>3, <2>6
<1> QED
  BY <1>10, <1>11

LEMMA NamedJoined ==
    ASSUME NEW s, NEW t, IsSeq(s), IsSeq(t), Named(s), Named(t)
    PROVE  Named(s \o t) /\ IsSeq(s \o t)
<1>1. PICK r : r = s \o t
  OBVIOUS
<1>2. Follows(r, s, t) /\ IsSeq(r)
  BY <1>1, Chain
<1>3. /\ Len(s) \in Nat /\ Len(t) \in Nat /\ Len(r) = Len(s) + Len(t)
      /\ \A i \in 1 .. Len(s) : r[i] = s[i] /\ ~ Absent(s[i].name)
      /\ \A i \in 1 .. Len(t) : r[Len(s) + i] = t[i] /\ ~ Absent(t[i].name)
  BY <1>2 DEF Follows, Named
<1>4. ASSUME NEW i \in 1 .. Len(r)
      PROVE  ~ Absent(r[i].name)
  <2>1. CASE i <= Len(s)
    BY <1>3, <2>1
  <2>2. CASE ~ (i <= Len(s))
    <3>1. i - Len(s) \in 1 .. Len(t) /\ Len(s) + (i - Len(s)) = i
      BY <1>3, <2>2
    <3>2. r[Len(s) + (i - Len(s))] = t[i - Len(s)] /\ ~ Absent(t[i - Len(s)].name)
      BY <1>3, <3>1
    <3> QED
      BY <3>1, <3>2
  <2> QED
    BY <2>1, <2>2
<1>5. Named(r)
  BY <1>3, <1>4 DEF Named
<1> QED
  BY <1>1, <1>2, <1>5

LEMMA AtomsNamed ==
    ASSUME NEW x, IsCompound(x)
    PROVE  Named(Atoms(x)) /\ IsSeq(Atoms(x))
<1>1. PICK fields, args : fields = Compound[LongName(x.name)] /\ args = x.args
  OBVIOUS
<1>2. PICK A, L : A = AtomicPart(x) /\ L = LeftOver(x)
  OBVIOUS
<1>3. /\ Atoms(x) = A \o L /\ IsSeq(A) /\ IsSeq(L) /\ Len(fields) \in Nat /\ Len(A) = Len(fields)
      /\ \A i \in 1 .. Len(fields) : fields[i] \in Atomic
      /\ \A i \in 1 .. Len(fields) : A[i] = Opt(fields[i], <<argAt(args, i)>>)
  BY <1>1, <1>2, AtomsParts
<1>4. \A f \in Atomic \union {"extend"} : ~ Absent(f)
  BY DEF Atomic, Absent
<1>5. \A f, b : Opt(f, b).name = f
  BY DEF Opt
<1>6. Named(A)
  <2>1. \A i \in 1 .. Len(A) : A[i].name = fields[i] /\ fields[i] \in Atomic
    BY <1>3, <1>5
  <2> QED
    BY <1>3, <1>4, <2>1 DEF Named
<1>7. Named(L)
  <2>1. CASE Len(args) <= Len(fields)
    <3>1. L = << >>
      BY <1>1, <1>2, <2>1, AtomsParts
    <3>2. Len(L) = 0
      BY <3>1, Tuples
    <3> QED
      BY <3>2 DEF Named
  <2>2. CASE ~ (Len(args) <= Len(fields))
    <3>1. L = <<Opt("extend", From(args, Len(fields) + 1))>>
      BY <1>1, <1>2, <2>2, AtomsParts
    <3>2. Len(L) = 1 /\ L[1] = Opt("extend", From(args, Len(fields) + 1))
      BY <3>1, Tuples
    <3>3. L[1].name = "extend"
      BY <1>5, <3>2
    <3>4. "extend" \in Atomic \union {"extend"}
      OBVIOUS
    <3>5. ~ Absent(L[1].name)
      BY <1>4, <3>3, <3>4
    <3> QED
      BY <3>2, <3>5 DEF Named
  <2> QED
    BY <2>1, <2>2
<1> QED
  BY <1>3, <1>6, <1>7, NamedJoined

\* A compound segment in place of its atoms.
LEMMA UnfoldedAlike ==
    ASSUME NEW list \in OptionLists, NEW other \in Unfolded(list)
    PROVE  Alike(list, other)
<1>1. PICK i \in DOMAIN list :
        /\ IsCompound(list[i])
        /\ other = SubSeq(list, 1, i - 1) \o Atoms(list[i]) \o From(list, i + 1)
  BY DEF Unfolded
<1>2. IsSeq(list) /\ Named(list) /\ DOMAIN list = 1 .. Len(list)
  BY ListsNamed
<1>3. PICK n \in Nat : n = Len(list)
  BY <1>2 DEF Named
<1>4. PICK p, x, q : p = SubSeq(list, 1, i - 1) /\ x = list[i] /\ q = SubSeq(list, i + 1, n)
  OBVIOUS
<1>5. i \in 1 .. n
  BY <1>2, <1>3
<1>6. /\ IsSeq(p) /\ Len(p) = i - 1
      /\ \A j \in 1 .. i - 1 : p[j] = list[j]
  <2>1. PICK S : list \in Seq(S)
    BY <1>2 DEF IsSeq
  <2>2. \A j \in 1 .. i - 1 : list[j] \in S
    BY <1>3, <1>5, <2>1, ElementOfSeq
  <2>3. /\ p \in Seq(S) /\ Len(p) = (IF 1 <= i - 1 THEN i - 1 - 1 + 1 ELSE 0)
        /\ \A j \in 1 .. i - 1 - 1 + 1 : p[j] = list[1 + j - 1]
    BY <1>4, <1>5, <2>2, SubSeqProperties
  <2> QED
    BY <1>5, <2>3 DEF IsSeq
<1>7. /\ IsSeq(q) /\ Len(q) = n - i
      /\ \A j \in 1 .. n - i : q[j] = list[i + j]
  <2>1. PICK S : list \in Seq(S)
    BY <1>2 DEF IsSeq
  <2>2. \A j \in i + 1 .. n : list[j] \in S
    BY <1>3, <1>5, <2>1, ElementOfSeq
  <2>3. /\ q \in Seq(S) /\ Len(q) = (IF i + 1 <= n THEN n - (i + 1) + 1 ELSE 0)
        /\ \A j \in 1 .. n - (i + 1) + 1 : q[j] = list[i + 1 + j - 1]
    BY <1>4, <1>5, <2>2, SubSeqProperties
  <2> QED
    BY <1>5, <2>3 DEF IsSeq
<1>8. Named(p) /\ Named(q)
  <2>1. \A j \in 1 .. n : ~ Absent(list[j].name)
    BY <1>2, <1>3 DEF Named
  <2>2. \A j \in 1 .. i - 1 : ~ Absent(p[j].name)
    BY <1>5, <1>6, <2>1
  <2>3. \A j \in 1 .. n - i : ~ Absent(q[j].name)
    <3>1. TAKE j \in 1 .. n - i
    <3>2. i + j \in 1 .. n
      BY <1>5
    <3>3. q[j] = list[i + j]
      BY <1>7
    <3> QED
      BY <2>1, <3>2, <3>3
  <2>4. Len(p) \in Nat /\ Len(q) \in Nat
    BY <1>5, <1>6, <1>7
  <2>5. Named(p)
    BY <1>6, <2>2, <2>4 DEF Named
  <2>6. Named(q)
    BY <1>7, <2>3, <2>4 DEF Named
  <2> QED
    BY <2>5, <2>6
<1>9. Named(Atoms(x)) /\ IsSeq(Atoms(x))
  BY <1>1, <1>4, AtomsNamed
<1>10. PICK w, px, py : w = Atoms(x) /\ px = p \o <<x>> /\ py = p \o w
  OBVIOUS
<1>11. IsSeq(<<x>>) /\ Len(<<x>>) = 1 /\ <<x>>[1] = x
  BY Tuples
<1>12. list = px \o q
  <2>1. PICK y : y = <<x>>
    OBVIOUS
  <2>2. IsSeq(y) /\ Len(y) = 1 /\ y[1] = x
    BY <1>11, <2>1
  <2>3. Follows(px, p, y) /\ IsSeq(px)
    BY <1>6, <1>10, <2>1, <2>2, Chain
  <2>4. PICK r : r = px \o q
    OBVIOUS
  <2>5. Follows(r, px, q) /\ IsSeq(r)
    BY <1>7, <2>3, <2>4, Chain
  <2>6. /\ Len(px) = i /\ Len(r) = n
        /\ \A j \in 1 .. i - 1 : px[j] = list[j]
        /\ px[i] = list[i]
        /\ \A j \in 1 .. i : r[j] = px[j]
        /\ \A j \in 1 .. n - i : r[i + j] = list[i + j]
    <3>1. Len(px) = i
      BY <1>5, <1>6, <2>2, <2>3 DEF Follows
    <3>2. \A j \in 1 .. i - 1 : px[j] = list[j]
      BY <1>6, <2>3 DEF Follows
    <3>3. px[i] = list[i]
      <4>1. px[Len(p) + 1] = y[1]
        BY <2>2, <2>3 DEF Follows
      <4>2. Len(p) + 1 = i
        BY <1>5, <1>6
      <4> QED
        BY <1>4, <2>2, <4>1, <4>2
    <3>4. Len(r) = n /\ \A j \in 1 .. i : r[j] = px[j]
      BY <1>5, <1>7, <2>5, <3>1 DEF Follows
    <3>5. \A j \in 1 .. n - i : r[i + j] = list[i + j]
      BY <1>7, <2>5, <3>1 DEF Follows
    <3> QED
      BY <3>1, <3>2, <3>3, <3>4, <3>5
  <2>7. ASSUME NEW j \in 1 .. n
        PROVE  r[j] = list[j]
    <3>1. CASE j <= i
      BY <1>5, <2>6, <3>1
    <3>2. CASE ~ (j <= i)
      <4>1. j - i \in 1 .. n - i /\ i + (j - i) = j
        BY <1>5, <3>2
      <4>2. r[i + (j - i)] = list[i + (j - i)]
        BY <2>6, <4>1
      <4> QED
        BY <4>1, <4>2
    <3> QED
      BY <3>1, <3>2
  <2>8. r = list
    BY <1>2, <1>3, <2>5, <2>6, <2>7, SameSeq
  <2> QED
    BY <2>4, <2>8
<1>13. other = py \o q
  BY <1>1, <1>3, <1>4, <1>10 DEF From
<1>14. PICK os : os = {NoOptions}
  OBVIOUS
<1>15. IsSeq(px) /\ IsSeq(py)
  BY <1>6, <1>9, <1>10, <1>11, Joined
<1>16. Run(os, list) = Run(Run(Run(os, p), <<x>>), q)
  <2>1. Run(os, px \o q) = Run(Run(os, px), q)
    BY <1>7, <1>15, RunConcat
  <2>2. Run(os, p \o <<x>>) = Run(Run(os, p), <<x>>)
    BY <1>6, <1>11, RunConcat
  <2> QED
    BY <1>10, <1>12, <2>1, <2>2
<1>17. Run(os, other) = Run(Run(Run(os, p), w), q)
  <2>1. Run(os, py \o q) = Run(Run(os, py), q)
    BY <1>7, <1>15, RunConcat
  <2>2. Run(os, p \o w) = Run(Run(os, p), w)
    BY <1>6, <1>9, <1>10, RunConcat
  <2> QED
    BY <1>10, <1>13, <2>1, <2>2
<1>18. Run(Run(os, p), <<x>>) = Run(Run(os, p), w)
  BY <1>1, <1>4, <1>10, RunShort, AtomsRun
<1>19. Named(other)
  <2>1. Named(py)
    BY <1>6, <1>8, <1>9, <1>10, NamedJoined
  <2> QED
    BY <1>7, <1>8, <1>13, <1>15, <2>1, NamedJoined
<1>20. Run({NoOptions}, list) = Run({NoOptions}, other)
  BY <1>14, <1>16, <1>17, <1>18
<1>21. Parses(list) /\ Len(other) \in Nat
  BY <1>19, ListsParse DEF Named
<1> QED
  BY <1>2, <1>19, <1>20, <1>21, NamedRuns, SameParse

-----------------------------------------------------------------------------
(* A default written down first.                                           *)

LEMMA ZeroParsed ==
    parseDimension("0") = {0} /\ parseFloatDimension("0") = {0}
<1>1. "0" \in DOMAIN Number /\ Number["0"] = 0
  BY TokenAssumption
<1>2. "0" \in DOMAIN Decimal /\ Decimal["0"] = 0
  BY TokenAssumption
<1>3. Reads(Number, "0") = {0} /\ Reads(Decimal, "0") = {0}
  BY <1>1, <1>2 DEF Reads
<1>4. parseDimension("0") = {0}
  BY <1>3 DEF parseDimension
<1>5. parseFloatDimension("0") = {v \in Reads(Decimal, "0") : v >= 0}
  BY Zenon DEF parseFloatDimension
<1> QED
  BY <1>3, <1>4, <1>5

LEMMA NotParsed ==
    ASSUME NEW args, NEW i, i \notin DOMAIN args
    PROVE  parseOffset(argAt(args, i)) = {0}
BY Zenon DEF argAt, parseOffset

\* A gravity without offsets.
LEMMA GravityAlone ==
    ASSUME NEW args, IsSeq(args), Len(args) = 1, args[1] \in {"no", "ce"}, NEW b \in BOOLEAN
    PROVE  [type |-> args[1], x |-> 0, y |-> 0] \in parseGravity(args, b)
<1>1. DOMAIN args = 1 .. 1
  BY SeqFacts
<1>2. parseOffset(argAt(args, 2)) = {0} /\ parseOffset(argAt(args, 3)) = {0}
  BY <1>1, NotParsed
<1>3. argAt(args, 1) = args[1]
  BY <1>1 DEF argAt
<1>4. ~ Absent(args[1])
  BY DEF Absent
<1>5. PICK X, Y : X = parseOffset(argAt(args, 2)) /\ Y = parseOffset(argAt(args, 3))
  OBVIOUS
<1>6. parseGravity(args, b) =
        {g \in [type : GravityTypes \intersect {args[1]}, x : X, y : Y] :
           Len(args) <= 3 /\ (g.type = "sm" => b /\ g.x = 0 /\ g.y = 0)}
  BY <1>3, <1>4, <1>5, Zenon DEF parseGravity, Absent
<1>7. args[1] \in GravityTypes /\ args[1] # "sm"
  BY DEF GravityTypes
<1> QED
  BY <1>2, <1>5, <1>6, <1>7

LEMMA ValueOf ==
    ASSUME NEW a, NEW b, NEW f, a[f] = b[f]
    PROVE  CanonicalValue(a, f) = CanonicalValue(b, f)
BY Zenon DEF CanonicalValue

LEMMA SameCanonical ==
    ASSUME NEW a \in OptionRecord, NEW b \in OptionRecord,
           \A f \in DOMAIN NoOptions : CanonicalValue(a, f) = CanonicalValue(b, f)
    PROVE  Canonical(a) = Canonical(b)
<1>1. DOMAIN a = DOMAIN NoOptions /\ DOMAIN b = DOMAIN NoOptions
  BY RecordFields
<1>2. PICK N : N = DOMAIN NoOptions
  OBVIOUS
<1>3. /\ Canonical(a) = {<<f, CanonicalValue(a, f)>> : f \in {g \in N : CanonicalValue(a, g) # << >>}}
      /\ Canonical(b) = {<<f, CanonicalValue(b, f)>> : f \in {g \in N : CanonicalValue(b, g) # << >>}}
  BY <1>1, <1>2 DEF Canonical
<1>4. \A f \in N : CanonicalValue(a, f) = CanonicalValue(b, f)
  BY <1>2
<1> QED
  BY <1>3, <1>4

\* A segment that changes nothing that the canonical form shows.
SaysNothing(d) ==
    \E f \in DOMAIN NoOptions, o \in OptionRecord :
      /\ Through({NoOptions}, d) = {o}
      /\ \A g \in DOMAIN NoOptions : g # f => o[g] = NoOptions[g]
      /\ CanonicalValue(o, f) = CanonicalValue(NoOptions, f)

LEMMA SayingNothing ==
    ASSUME NEW d, NEW f \in DOMAIN NoOptions, NEW v, NEW o, o = [NoOptions EXCEPT ![f] = v],
           o \in Through({NoOptions}, d), CanonicalValue(o, f) = CanonicalValue(NoOptions, f)
    PROVE  SaysNothing(d)
<1>1. PICK S : S = {NoOptions}
  OBVIOUS
<1>2. S \in SUBSET OptionRecord /\ Single(S)
  BY <1>1, StartTyped
<1>3. Through(S, d) \in SUBSET OptionRecord /\ Single(Through(S, d))
  BY <1>2, ThroughTyped
<1>4. Through(S, d) = {o} /\ o \in OptionRecord
  BY <1>1, <1>3 DEF Single
<1>5. \A g \in DOMAIN NoOptions : g # f => o[g] = NoOptions[g]
  OBVIOUS
<1> QED
  BY <1>1, <1>4, <1>5 DEF SaysNothing

LEMMA WholeSaysNothing ==
    ASSUME NEW f \in Whole, NEW args, f # "background" \/ Len(args) = 1,
           NEW v \in WholeValues(f, args), NEW o, o = [NoOptions EXCEPT ![f] = v],
           CanonicalValue(o, f) = CanonicalValue(NoOptions, f)
    PROVE  SaysNothing(Opt(f, args))
<1>1. PICK d : d = Opt(f, args)
  OBVIOUS
<1>2. d.name = f /\ d.args = args
  BY <1>1 DEF Opt
<1>3. f \in DOMAIN NoOptions /\ f \in LongNames /\ f \notin Atomic /\ f \notin DOMAIN Compound
  BY NamesApart
<1>4. LongName(f) = f
  BY DEF LongName, Aliases, Whole
<1>5. LongName(d.name) = f /\ ~ (f = "background" /\ Len(args) > 3)
  <2>1. LongName(d.name) = f
    BY <1>2, <1>4
  <2>2. Len(args) = 1 => ~ (Len(args) > 3)
    OBVIOUS
  <2> QED
    BY <2>1, <2>2
<1>6. Apply(NoOptions, d) = applyWhole(NoOptions, f, args)
  BY <1>2, <1>3, <1>5 DEF Apply
<1>7. o \in applyWhole(NoOptions, f, args)
  BY DEF applyWhole
<1>8. o \in Through({NoOptions}, d)
  BY <1>6, <1>7 DEF Through
<1> QED
  BY <1>1, <1>3, <1>8, SayingNothing

LEMMA AtomicSaysNothing ==
    ASSUME NEW f \in Atomic, NEW s, NEW v, NEW o, o = [NoOptions EXCEPT ![f] = v],
           \/ Absent(s) /\ v = NoOptions[f]
           \/ ~ Absent(s) /\ v \in AtomicValues(f, s),
           CanonicalValue(o, f) = CanonicalValue(NoOptions, f)
    PROVE  SaysNothing(Opt(f, <<s>>))
<1>1. f \in DOMAIN NoOptions
  BY NamesApart
<1>2. Through({NoOptions}, Opt(f, <<s>>)) = FieldThrough({NoOptions}, f, s)
  BY FieldApplied
<1>3. o \in applyAtomic(NoOptions, f, s)
  <2>1. CASE Absent(s)
    <3>1. o = NoOptions
      BY <1>1, <2>1 DEF NoOptions
    <3>2. applyAtomic(NoOptions, f, s) = {NoOptions}
      BY <2>1, Zenon DEF applyAtomic, Absent
    <3> QED
      BY <3>1, <3>2
  <2>2. CASE ~ Absent(s)
    <3>1. applyAtomic(NoOptions, f, s) = {[NoOptions EXCEPT ![f] = w] : w \in AtomicValues(f, s)}
      BY <2>2, Zenon DEF applyAtomic, Absent
    <3> QED
      BY <2>2, <3>1
  <2> QED
    BY <2>1, <2>2
<1>4. o \in FieldThrough({NoOptions}, f, s)
  BY <1>3 DEF FieldThrough
<1> QED
  BY <1>1, <1>2, <1>4, SayingNothing

LEMMA DefaultsSayNothing ==
    ASSUME NEW d \in Defaults
    PROVE  SaysNothing(d)
<1>1. CASE d = Opt("resizing_type", <<"fit">>)
  <2>1. PICK o : o = [NoOptions EXCEPT !["resizing_type"] = "fit"]
    OBVIOUS
  <2>2. "fit" \in AtomicValues("resizing_type", "fit")
    BY DEF AtomicValues, ResizingTypes
  <2>3. CanonicalValue(o, "resizing_type") = << >>
    BY <2>1 DEF NoOptions, CanonicalValue
  <2>4. CanonicalValue(NoOptions, "resizing_type") = << >>
    BY DEF NoOptions, CanonicalValue
  <2>5. ~ Absent("fit") /\ "resizing_type" \in Atomic
    BY DEF Absent, Atomic
  <2> QED
    BY <1>1, <2>1, <2>2, <2>3, <2>4, <2>5, AtomicSaysNothing
<1>2. CASE d = Opt("width", <<"0">>)
  <2>1. PICK o : o = [NoOptions EXCEPT !["width"] = 0]
    OBVIOUS
  <2>2. 0 \in AtomicValues("width", "0")
    BY ZeroParsed DEF AtomicValues
  <2>3. o = NoOptions
    BY <2>1 DEF NoOptions
  <2>4. ~ Absent("0") /\ "width" \in Atomic
    BY DEF Absent, Atomic
  <2> QED
    BY <1>2, <2>1, <2>2, <2>3, <2>4, AtomicSaysNothing
<1>3. CASE d = Opt("height", <<"">>)
  <2>1. PICK o, v : o = [NoOptions EXCEPT !["height"] = v] /\ v = NoOptions["height"]
    OBVIOUS
  <2>2. PICK s : s = ""
    OBVIOUS
  <2>3. Absent(s)
    BY <2>2 DEF Absent
  <2>4. o = NoOptions
    BY <2>1 DEF NoOptions
  <2>5. "height" \in Atomic
    BY DEF Atomic
  <2>6. SaysNothing(Opt("height", <<s>>))
    BY <2>1, <2>3, <2>4, <2>5, AtomicSaysNothing
  <2> QED
    BY <1>3, <2>2, <2>6, Zenon
<1>4. CASE d = Opt("enlarge", <<"0">>)
  <2>1. PICK o : o = [NoOptions EXCEPT !["enlarge"] = FALSE]
    OBVIOUS
  <2>2. FALSE \in AtomicValues("enlarge", "0")
    BY DEF AtomicValues, parseBool
  <2>3. o = NoOptions
    BY <2>1 DEF NoOptions
  <2>4. ~ Absent("0") /\ "enlarge" \in Atomic
    BY DEF Absent, Atomic
  <2> QED
    BY <1>4, <2>1, <2>2, <2>3, <2>4, AtomicSaysNothing
<1>5. CASE d = Opt("raw", <<"f">>)
  <2>1. PICK o : o = [NoOptions EXCEPT !["raw"] = FALSE]
    OBVIOUS
  <2>2. FALSE \in AtomicValues("raw", "f")
    BY DEF AtomicValues, parseBool
  <2>3. o = NoOptions
    BY <2>1 DEF NoOptions
  <2>4. ~ Absent("f") /\ "raw" \in Atomic
    BY DEF Absent, Atomic
  <2> QED
    BY <1>5, <2>1, <2>2, <2>3, <2>4, AtomicSaysNothing
<1>6. CASE d = Opt("background", <<"">>)
  <2>1. PICK o, v : o = [NoOptions EXCEPT !["background"] = v] /\ v = << >>
    OBVIOUS
  <2>2. PICK s : s = ""
    OBVIOUS
  <2>3. PICK args : args = <<s>>
    OBVIOUS
  <2>4. Len(args) = 1 /\ DOMAIN args = 1 .. 1 /\ \A i \in 1 .. 1 : args[i] = s
    BY <2>3
  <2>5. \A i \in DOMAIN args : args[i] = ""
    BY <2>2, <2>4, Zenon
  <2>6. parseBackground(args) = {<< >>}
    BY <2>5, Zenon DEF parseBackground
  <2>7. v \in WholeValues("background", args)
    BY <2>1, <2>6 DEF WholeValues
  <2>8. o = NoOptions
    BY <2>1 DEF NoOptions
  <2>9. SaysNothing(Opt("background", args))
    BY <2>1, <2>4, <2>7, <2>8, WholeSaysNothing DEF Whole
  <2> QED
    BY <1>6, <2>2, <2>3, <2>9, Zenon
<1>7. CASE d = Opt("gravity", <<"ce">>)
  <2>1. PICK args, v, o : /\ args = <<"ce">> /\ v = [type |-> args[1], x |-> 0, y |-> 0]
                          /\ o = [NoOptions EXCEPT !["gravity"] = v]
    OBVIOUS
  <2>2. IsSeq(args) /\ Len(args) = 1 /\ args[1] = "ce"
    BY <2>1, Tuples
  <2>3. v \in WholeValues("gravity", args)
    BY <2>1, <2>2, GravityAlone DEF WholeValues
  <2>4. GravityIsDefault(v)
    BY <2>1, <2>2 DEF GravityIsDefault
  <2>5. o.gravity = v
    BY <2>1 DEF NoOptions
  <2>6. CanonicalValue(o, "gravity") = << >>
    BY <2>4, <2>5 DEF CanonicalValue, OwnGravity
  <2>7. CanonicalValue(NoOptions, "gravity") = << >>
    BY DEF CanonicalValue, NoOptions, OwnGravity, GravityIsDefault, NoGravity
  <2> QED
    BY <1>7, <2>1, <2>3, <2>6, <2>7, WholeSaysNothing DEF Whole
<1>8. CASE d = Opt("extend", <<"0", "no">>)
  <2>1. PICK args, rest : args = <<"0", "no">> /\ rest = From(args, 2)
    OBVIOUS
  <2>2. IsSeq(args) /\ Len(args) = 2 /\ args[1] = "0" /\ args[2] = "no"
    BY <2>1, Tuples
  <2>3. IsSeq(rest) /\ Len(rest) = 1 /\ rest[1] = "no"
    <3>1. \A i \in 2 .. 2 : args[i] \in {"no"}
      BY <2>2
    <3>2. /\ rest \in Seq({"no"}) /\ Len(rest) = (IF 2 <= 2 THEN 2 - 2 + 1 ELSE 0)
          /\ \A i \in 1 .. 2 - 2 + 1 : rest[i] = args[2 + i - 1]
      BY <2>1, <2>2, <3>1, SubSeqProperties DEF From
    <3> QED
      BY <2>2, <3>2 DEF IsSeq
  <2>4. PICK g : g \in parseGravity(rest, FALSE)
    BY <2>3, GravityAlone
  <2>5. argAt(args, 1) = "0" /\ ~ Absent(argAt(args, 1))
    <3>1. DOMAIN args = 1 .. 2
      BY <2>2, SeqFacts
    <3>2. argAt(args, 1) = args[1]
      BY <3>1 DEF argAt
    <3> QED
      BY <2>2, <3>2 DEF Absent
  <2>6. PICK v, o : v = [enabled |-> FALSE, gravity |-> g] /\ o = [NoOptions EXCEPT !["extend"] = v]
    OBVIOUS
  <2>7. FALSE \in parseBool(args[1])
    BY <2>2 DEF parseBool
  <2>8. parseExtendArgs(args) = [enabled : parseBool(args[1]), gravity : parseGravity(rest, FALSE)]
    BY <2>1, <2>5, Zenon DEF parseExtendArgs, Absent
  <2>9. v \in WholeValues("extend", args)
    <3>1. v \in parseExtendArgs(args)
      BY <2>4, <2>6, <2>7, <2>8
    <3> QED
      BY <3>1 DEF WholeValues
  <2>10. o.extend = v /\ v.enabled = FALSE
    BY <2>6 DEF NoOptions
  <2>11. CanonicalValue(o, "extend") = << >>
    BY <2>10 DEF CanonicalValue
  <2>12. CanonicalValue(NoOptions, "extend") = << >>
    BY DEF CanonicalValue, NoOptions, NoExtend
  <2> QED
    BY <1>8, <2>1, <2>6, <2>9, <2>11, <2>12, WholeSaysNothing DEF Whole
<1>9. CASE d = Opt("crop", <<"0", "0", "no">>)
  <2>1. PICK args, rest : args = <<"0", "0", "no">> /\ rest = From(args, 3)
    OBVIOUS
  <2>2. IsSeq(args) /\ Len(args) = 3 /\ args[1] = "0" /\ args[2] = "0" /\ args[3] = "no"
    BY <2>1, Tuples
  <2>3. IsSeq(rest) /\ Len(rest) = 1 /\ rest[1] = "no"
    <3>1. \A i \in 3 .. 3 : args[i] \in {"no"}
      BY <2>2
    <3>2. /\ rest \in Seq({"no"}) /\ Len(rest) = (IF 3 <= 3 THEN 3 - 3 + 1 ELSE 0)
          /\ \A i \in 1 .. 3 - 3 + 1 : rest[i] = args[3 + i - 1]
      BY <2>1, <2>2, <3>1, SubSeqProperties DEF From
    <3> QED
      BY <2>2, <3>2 DEF IsSeq
  <2>4. PICK g : g \in parseGravity(rest, TRUE)
    BY <2>3, GravityAlone
  <2>5. argAt(args, 1) = "0" /\ argAt(args, 2) = "0"
    <3>1. DOMAIN args = 1 .. 3
      BY <2>2, SeqFacts
    <3> QED
      BY <2>2, <3>1 DEF argAt
  <2>6. PICK v, o : /\ v = [width |-> 0, height |-> 0, gravity |-> g]
                    /\ o = [NoOptions EXCEPT !["crop"] = v]
    OBVIOUS
  <2>7. v \in parseCrop(args)
    BY <2>1, <2>4, <2>5, <2>6, ZeroParsed DEF parseCrop
  <2>8. v \in WholeValues("crop", args)
    BY <2>7 DEF WholeValues
  <2>9. o.crop = v /\ CropIsDefault(v)
    BY <2>6 DEF NoOptions, CropIsDefault
  <2>10. CanonicalValue(o, "crop") = << >>
    BY <2>9 DEF CanonicalValue
  <2>11. CanonicalValue(NoOptions, "crop") = << >>
    BY DEF CanonicalValue, NoOptions, NoCrop, CropIsDefault
  <2> QED
    BY <1>9, <2>1, <2>6, <2>8, <2>10, <2>11, WholeSaysNothing DEF Whole
<1> QED
  BY <1>1, <1>2, <1>3, <1>4, <1>5, <1>6, <1>7, <1>8, <1>9, Zenon DEF Defaults

\* What a list does to the options it is given, it does to all alike: it sets
\* certain fields to certain values.
LEMMA RunActs ==
    ASSUME NEW list, Len(list) \in Nat
    PROVE  \E D : Acts([o \in OptionRecord |-> Run({o}, list)], D)
<1> DEFINE a(o, i) == OptionsAfter({o}, list)[i]
           n == Len(list)
           D == UNION {Sets(list[i]) : i \in 1 .. n}
           F(i) == [o \in OptionRecord |-> a(o, i)]
           T == {i \in 0 .. n : Acts(F(i), D)}
<1>1. 0 \in T
  <2>1. \A o \in OptionRecord : F(0)[o] = {o}
    BY AfterDef
  <2>2. PICK G, DD : G = F(0) /\ DD = D
    OBVIOUS
  <2>3. \A o \in OptionRecord : G[o] = {o}
    BY <2>1, <2>2
  <2>4. Acts(G, DD)
    BY <2>3, IdentityActs
  <2> QED
    BY <2>2, <2>4
<1>2. ASSUME NEW i \in 0 .. n - 1, i \in T
      PROVE  i + 1 \in T
  <2>1. PICK G, H, K, DD, x : /\ G = F(i) /\ H = F(i + 1) /\ K = ApplyTo(x) /\ DD = D
                              /\ x = list[i + 1]
    OBVIOUS
  <2>2. Acts(G, DD)
    BY <1>2, <2>1
  <2>3. Acts(K, DD)
    <3>1. Acts(K, Sets(x))
      BY <2>1, ApplyActs
    <3>2. i + 1 \in 1 .. n
      OBVIOUS
    <3>3. Sets(x) \subseteq DD
      BY <2>1, <3>2
    <3> QED
      BY <3>1, <3>3, ActsMore
  <2>4. ASSUME NEW o \in OptionRecord
        PROVE  H[o] = UNION {K[p] : p \in G[o]}
    <3>1. G[o] \subseteq OptionRecord
      BY <2>2, ActsTyped
    <3>2. \A p \in OptionRecord : K[p] = Apply(p, x)
      BY <2>1 DEF ApplyTo
    <3>3. H[o] = a(o, i + 1) /\ G[o] = a(o, i)
      BY <2>1
    <3>4. a(o, i + 1) = Through(a(o, i), x)
      <4>1. PICK os : os = {o}
        OBVIOUS
      <4>2. i + 1 \in 1 .. n /\ i + 1 - 1 = i
        OBVIOUS
      <4>3. OptionsAfter(os, list)[i + 1] = Through(OptionsAfter(os, list)[i + 1 - 1], list[i + 1])
        BY <4>2, AfterDef
      <4> QED
        BY <2>1, <4>1, <4>2, <4>3
    <3>5. H[o] = UNION {Apply(p, x) : p \in G[o]}
      BY <3>3, <3>4 DEF Through
    <3> QED
      BY <3>1, <3>2, <3>5
  <2>5. Acts(H, DD)
    BY <2>2, <2>3, <2>4, ComposedActs
  <2>6. i + 1 \in 0 .. n
    OBVIOUS
  <2> QED
    BY <2>1, <2>5, <2>6
<1>3. n \in T
  <2> HIDE DEF T
  <2>1. \A i \in 0 .. n - 1 : i \in T => i + 1 \in T
    BY <1>2
  <2>2. 0 .. n \subseteq T
    BY <1>1, <2>1, UpTo
  <2> QED
    BY <2>2
<1>4. Acts(F(n), D)
  BY <1>3
<1>5. F(n) = [o \in OptionRecord |-> Run({o}, list)]
  BY DEF Run
<1> QED
  BY <1>4, <1>5

LEMMA DefaultsAlike ==
    ASSUME NEW list \in OptionLists, NEW d \in Defaults
    PROVE  Alike(list, <<d>> \o list)
<1>1. PICK f \in DOMAIN NoOptions, o \in OptionRecord :
        /\ Through({NoOptions}, d) = {o}
        /\ \A g \in DOMAIN NoOptions : g # f => o[g] = NoOptions[g]
        /\ CanonicalValue(o, f) = CanonicalValue(NoOptions, f)
  BY DefaultsSayNothing DEF SaysNothing
<1>2. IsSeq(list) /\ Named(list)
  BY ListsNamed
<1>3. PICK y, other : y = <<d>> /\ other = y \o list
  OBVIOUS
<1>4. IsSeq(y) /\ Len(y) = 1 /\ y[1] = d
  BY <1>3, Tuples
<1>5. Named(other)
  <2>1. \A f1, b : Opt(f1, b).name = f1
    BY DEF Opt
  <2>2. PICK g, b : /\ d = Opt(g, b)
                    /\ \/ g = "resizing_type" \/ g = "width" \/ g = "height" \/ g = "enlarge"
                       \/ g = "extend" \/ g = "gravity" \/ g = "crop" \/ g = "background"
                       \/ g = "raw"
    BY Zenon DEF Defaults
  <2>3. d.name \in DOMAIN NoOptions
    BY <2>1, <2>2, FieldNames
  <2>4. ~ Absent(d.name)
    BY <2>3, FieldNames DEF Absent
  <2>5. Named(y)
    BY <1>4, <2>4 DEF Named
  <2> QED
    BY <1>2, <1>3, <1>4, <2>5, NamedJoined
<1>6. PICK os : os = {NoOptions}
  OBVIOUS
<1>7. Run(os, other) = Run({o}, list)
  <2>1. Run(os, y \o list) = Run(Run(os, y), list)
    BY <1>2, <1>4, RunConcat
  <2>2. Run(os, y) = Through(os, d)
    BY <1>3, RunShort
  <2> QED
    BY <1>1, <1>3, <1>6, <2>1, <2>2
<1>8. PICK F : F = [p \in OptionRecord |-> Run({p}, list)]
  OBVIOUS
<1>9. PICK D : Acts(F, D)
  <2>1. Len(list) \in Nat
    BY <1>2 DEF Named
  <2> QED
    BY <1>8, <2>1, RunActs
<1>10. PICK C \in SUBSET D, E \in SUBSET OptionRecord :
         \A p \in OptionRecord : F[p] = {Overridden(p, C, q) : q \in E}
  BY <1>9 DEF Acts
<1>11. ParseOptions(list) = F[NoOptions] /\ ParseOptions(other) = F[o]
  <2>1. ParseOptions(list) = Run({NoOptions}, list)
    BY <1>2, NamedRuns
  <2>2. ParseOptions(other) = Run({NoOptions}, other)
    BY <1>5, NamedRuns
  <2> QED
    BY <1>6, <1>7, <1>8, <2>1, <2>2, NoOptionsTyped
<1>12. Parses(list) /\ Len(other) \in Nat
  BY <1>5, ListsParse DEF Named
<1>13. PICK e \in E : TRUE
  BY <1>10, <1>11, <1>12, NoOptionsTyped DEF Parses
<1>14. PICK p, q : p = Overridden(NoOptions, C, e) /\ q = Overridden(o, C, e)
  OBVIOUS
<1>15. p \in ParseOptions(list) /\ q \in ParseOptions(other)
  BY <1>10, <1>11, <1>14, NoOptionsTyped
<1>16. /\ p \in OptionRecord /\ q \in OptionRecord
       /\ \A g \in DOMAIN NoOptions : /\ p[g] = IF g \in C THEN e[g] ELSE NoOptions[g]
                                      /\ q[g] = IF g \in C THEN e[g] ELSE o[g]
  BY <1>10, <1>14, NoOptionsTyped, OverriddenTyped
<1>17. \A g \in DOMAIN NoOptions : CanonicalValue(p, g) = CanonicalValue(q, g)
  <2>1. TAKE g \in DOMAIN NoOptions
  <2>2. CASE p[g] = q[g]
    BY <2>2, ValueOf
  <2>3. CASE p[g] # q[g]
    <3>1. g = f /\ p[g] = NoOptions[g] /\ q[g] = o[g]
      BY <1>1, <1>16, <2>3
    <3>2. CanonicalValue(p, g) = CanonicalValue(NoOptions, g)
      BY <3>1, ValueOf
    <3>3. CanonicalValue(q, g) = CanonicalValue(o, g)
      BY <3>1, ValueOf
    <3> QED
      BY <1>1, <3>1, <3>2, <3>3
  <2> QED
    BY <2>2, <2>3
<1>18. Canonical(p) = Canonical(q)
  BY <1>16, <1>17, SameCanonical
<1>19. Parses(other)
  BY <1>12, <1>15 DEF Parses
<1>20. OptionsOf(list) = p /\ OptionsOf(other) = q
  BY <1>12, <1>15, <1>19, OptionsTyped
<1>21. Alike(list, other)
  BY <1>18, <1>19, <1>20 DEF Alike
<1> QED
  BY <1>3, <1>21

\* The parser and the canonical form make the same of every other way to write
\* the options.
LEMMA RespelledAlike ==
    ASSUME NEW list \in OptionLists, NEW other \in Respellings(list)
    PROVE  Alike(list, other)
<1>1. CASE other \in Aliased(list)
  BY <1>1, AliasedAlike
<1>2. CASE other \in Unfolded(list)
  BY <1>2, UnfoldedAlike
<1>3. CASE other \in Swapped(list)
  BY <1>3, SwappedAlike
<1>4. CASE other \in {<<d>> \o list : d \in Defaults}
  <2>1. PICK d \in Defaults : other = <<d>> \o list
    BY <1>4
  <2> QED
    BY <2>1, DefaultsAlike
<1> QED
  BY <1>1, <1>2, <1>3, <1>4 DEF Respellings

-----------------------------------------------------------------------------
(* The theorems.                                                           *)

LEMMA TenantOf ==
    ASSUME NEW u, NEW v, u.client = v.client, u.group = v.group
    PROVE  Tenant(u) = Tenant(v)
BY Zenon DEF Tenant

LEMMA RespelledUrl ==
    ASSUME NEW u, IsUrl(u), u.family \in {"param", "paramfile"}, u.options \in OptionLists,
           NEW list \in Respellings(u.options), NEW v, v = [u EXCEPT !.options = list]
    PROVE  IsUrl(v) /\ getNormalizedKey(v) = getNormalizedKey(u)
<1>1. DOMAIN u = DOMAIN Blank /\ DOMAIN v = DOMAIN Blank
  BY DEF IsUrl
<1>2. DOMAIN Blank = {"family", "client", "group", "version", "images", "folder", "width",
                      "height", "alpha", "options", "name"}
  BY Zenon DEF Blank
<1>3. /\ v.family = u.family /\ v.client = u.client /\ v.group = u.group /\ v.folder = u.folder
      /\ v.alpha = u.alpha /\ v.name = u.name /\ v.options = list
  BY <1>1, <1>2
<1>4. Parses(list) /\ Canonical(OptionsOf(list)) = Canonical(OptionsOf(u.options))
  BY RespelledAlike DEF Alike
<1>5. IsUrl(v)
  BY <1>1, <1>3, <1>4 DEF IsUrl
<1>6. Tenant(v) = Tenant(u)
  BY <1>3, TenantOf
<1>7. SourceTail(v) = SourceTail(u)
  BY <1>3, <1>6 DEF SourceTail
<1>8. CanonicalForm(v.options) = CanonicalForm(u.options)
  BY <1>3, <1>4, FormsOf
<1>9. /\ getNormalizedKey(v) = paramCacheKey(SourceTail(v), CanonicalForm(v.options))
      /\ getNormalizedKey(u) = paramCacheKey(SourceTail(u), CanonicalForm(u.options))
  BY <1>3 DEF getNormalizedKey, KeyOf
<1> QED
  BY <1>5, <1>7, <1>8, <1>9

\* Every step leads to a URL that the gates let through and that has the same
\* stored key.
LEMMA StepFacts ==
    ASSUME IsUrl(url), Next
    PROVE  IsUrl(url') /\ getNormalizedKey(url') = getNormalizedKey(url)
<1>1. CASE Canonicalize
  <2>1. PICK v \in UrlSpace : RawKey(v) = getNormalizedKey(url) /\ url' = v
    BY <1>1 DEF Canonicalize, Spelled
  <2>2. IsUrl(v)
    BY UrlsAreUrls
  <2>3. getNormalizedKey(v) = getNormalizedKey(url)
    BY <2>1, <2>2, RawIsStored
  <2> QED
    BY <2>1, <2>2, <2>3
<1>2. CASE Respell
  <2>1. PICK list \in Respellings(url.options) : url' = [url EXCEPT !.options = list]
    BY <1>2 DEF Respell
  <2>2. PICK u, v : u = url /\ v = [u EXCEPT !.options = list]
    OBVIOUS
  <2>3. IsUrl(v) /\ getNormalizedKey(v) = getNormalizedKey(u)
    BY <1>2, <2>2, RespelledUrl DEF Respell
  <2> QED
    BY <2>1, <2>2, <2>3
<1> QED
  BY <1>1, <1>2 DEF Next

\* Every URL under study, the respelled ones too, is one that the regular
\* expressions and the option parser let through (handleResize, handleFile,
\* handleParams).
THEOREM UrlsStayUrls == Spec => []IsUrl(url)
<1>1. Init => IsUrl(url)
  BY UrlsAreUrls DEF Init
<1>2. IsUrl(url) /\ [Next]_url => IsUrl(url)'
  <2>1. ASSUME IsUrl(url), [Next]_url
        PROVE  IsUrl(url')
    <3>1. CASE Next
      BY <2>1, <3>1, StepFacts
    <3>2. CASE UNCHANGED url
      BY <2>1, <3>2
    <3> QED
      BY <2>1, <3>1, <3>2
  <2>2. IsUrl(url') => IsUrl(url)'
    BY DEF IsUrl
  <2> QED
    BY <2>1, <2>2
<1> QED
  BY <1>1, <1>2, PTL DEF Spec

\* One stored key stands for one rendering of one list of originals, whatever
\* the clients, names and options are (getNormalizedKey, paramCacheKey,
\* Options.Canonical).
THEOREM OneKeyOneRendering == Spec => []KeyDeterminesRendering
<1>1. IsUrl(url) => KeyDeterminesRendering
  BY RightRenderings DEF KeyDeterminesRendering
<1> QED
  BY <1>1, UrlsStayUrls, PTL

\* Whatever is stored under the raw key of a URL, it is what the URL asks for
\* (ServeHTTP, step 1: the speculative read).
THEOREM RawHitsAreRight == Spec => []RawHitIsRight
<1>1. IsUrl(url) => RawHitIsRight
  BY RightRenderings DEF RawHitIsRight
<1> QED
  BY <1>1, UrlsStayUrls, PTL

\* Every way to spell a URL leads to the same stored object
\* (getNormalizedKey, ParseOptions, Options.Canonical).
THEOREM SpellingsMeet == Spec => SpellingsConverge
<1>1. ASSUME IsUrl(url), Next
      PROVE  getNormalizedKey(url') = getNormalizedKey(url) /\ SameImage(url, url')
  <2>1. PICK u, v : u = url /\ v = url'
    OBVIOUS
  <2>2. IsUrl(u) /\ IsUrl(v) /\ getNormalizedKey(v) = getNormalizedKey(u)
    BY <1>1, <2>1, StepFacts
  <2>3. SameImage(u, v)
    BY <2>2, OneKeyOneImage
  <2> QED
    BY <2>1, <2>2, <2>3
<1>2. IsUrl(url) /\ [Next]_url
        => [getNormalizedKey(url') = getNormalizedKey(url) /\ SameImage(url, url')]_url
  BY <1>1
<1> QED
  BY <1>2, UrlsStayUrls, PTL DEF Spec, SpellingsConverge

-----------------------------------------------------------------------------
(* Where originals are looked for.                                         *)

LEMMA KeysAfterDef ==
    ASSUME NEW tried, Len(tried) \in Nat
    PROVE  /\ KeysAfter(tried)[0] = << >>
           /\ \A i \in 1 .. Len(tried) :
                KeysAfter(tried)[i] = addKey(KeysAfter(tried)[i - 1], tried[i])
<1> DEFINE n == Len(tried)
           Is(h, m) == h = [i \in 0 .. m |->
                              IF i = 0 THEN << >> ELSE addKey(h[i - 1], tried[i])]
           T == {m \in 0 .. n : \E h : Is(h, m)}
<1>1. 0 \in T
  <2>1. Is([i \in 0 .. 0 |-> << >>], 0)
    OBVIOUS
  <2> HIDE DEF Is
  <2>2. \E h : Is(h, 0)
    BY <2>1
  <2> QED
    BY <2>2
<1>2. ASSUME NEW m \in 0 .. n - 1, m \in T
      PROVE  m + 1 \in T
  <2>1. PICK h : Is(h, m)
    BY <1>2
  <2> DEFINE g == [i \in 0 .. m + 1 |->
                     IF i = m + 1 THEN addKey(h[m], tried[m + 1]) ELSE h[i]]
  <2>2. Is(g, m + 1)
    BY <2>1
  <2> HIDE DEF Is, g
  <2>3. \E k : Is(k, m + 1)
    BY <2>2
  <2> QED
    BY <2>3
<1> HIDE DEF T
<1>3. n \in T
  <2> HIDE DEF n
  <2>1. n \in Nat
    BY DEF n
  <2>2. 0 .. n \subseteq T
    BY <1>1, <1>2, <2>1, UpTo
  <2> QED
    BY <2>1, <2>2
<1> USE DEF T
<1>4. PICK h : Is(h, n)
  BY <1>3
<1>5. Is(KeysAfter(tried), n)
  BY <1>4 DEF KeysAfter
<1> QED
  BY <1>5

\* Whatever y is tried, x was tried before it.
Precedes(tried, x, y) ==
    \A b \in 1 .. Len(tried) : tried[b] = y => \E a \in 1 .. b - 1 : tried[a] = x

\* The first i that are tried, without repetitions and in their order.
Kept(keys, tried, i) ==
    /\ IsSeq(keys) /\ Len(keys) \in Nat
    /\ \A a, b \in 1 .. Len(keys) : keys[a] = keys[b] => a = b
    /\ \A a \in 1 .. Len(keys) : \E b \in 1 .. i : keys[a] = tried[b]
    /\ \A b \in 1 .. i : \E a \in 1 .. Len(keys) : keys[a] = tried[b]
    /\ \A x, y : Precedes(tried, x, y) =>
         \A b \in 1 .. Len(keys) : keys[b] = y => \E a \in 1 .. b - 1 : keys[a] = x
    /\ i > 0 => Len(keys) > 0 /\ keys[1] = tried[1]

LEMMA KeepNext ==
    ASSUME NEW tried, Len(tried) \in Nat, NEW i \in 0 .. Len(tried) - 1, NEW keys,
           Kept(keys, tried, i), NEW more, more = addKey(keys, tried[i + 1])
    PROVE  Kept(more, tried, i + 1)
<1>1. PICK k, n : k = tried[i + 1] /\ n = Len(keys)
  OBVIOUS
<1>2. n \in Nat /\ IsSeq(keys)
  BY <1>1 DEF Kept
<1>3. CASE \E a \in 1 .. n : keys[a] = k
  <2>1. more = keys
    BY <1>1, <1>3 DEF addKey, Contains
  <2>2. i > 0
    BY <1>3, <1>1 DEF Kept
  <2>3. \A b \in 1 .. i + 1 : \E a \in 1 .. n : keys[a] = tried[b]
    <3>1. \A b \in 1 .. i + 1 : b \in 1 .. i \/ b = i + 1
      OBVIOUS
    <3> QED
      BY <1>1, <1>3, <3>1 DEF Kept
  <2>4. \A a \in 1 .. n : \E b \in 1 .. i + 1 : keys[a] = tried[b]
    BY <1>1 DEF Kept
  <2> QED
    BY <1>1, <2>1, <2>2, <2>3, <2>4 DEF Kept
<1>4. CASE ~ \E a \in 1 .. n : keys[a] = k
  <2>1. more = Append(keys, k)
    BY <1>1, <1>4 DEF addKey, Contains
  <2>2. /\ IsSeq(more) /\ Len(more) = n + 1 /\ more[n + 1] = k
        /\ \A a \in 1 .. n : more[a] = keys[a]
    <3>1. PICK S : keys \in Seq(S)
      BY <1>2 DEF IsSeq
    <3>2. keys \in Seq(S \union {k})
      BY <3>1, SeqMonotonic
    <3>3. PICK SS : SS = S \union {k}
      OBVIOUS
    <3>4. keys \in Seq(SS) /\ k \in SS
      BY <3>2, <3>3
    <3>5. /\ Append(keys, k) \in Seq(SS) /\ Len(Append(keys, k)) = Len(keys) + 1
          /\ \A a \in 1 .. Len(keys) : Append(keys, k)[a] = keys[a]
          /\ Append(keys, k)[Len(keys) + 1] = k
      BY <3>4, AppendProperties
    <3> QED
      BY <1>1, <2>1, <3>5 DEF IsSeq
  <2>3. \A a \in 1 .. n + 1 : a \in 1 .. n \/ a = n + 1
    BY <1>2
  <2>4. \A a, b \in 1 .. n + 1 : more[a] = more[b] => a = b
    <3>1. \A a, b \in 1 .. n : keys[a] = keys[b] => a = b
      BY <1>1 DEF Kept
    <3> QED
      BY <1>4, <2>2, <2>3, <3>1
  <2>5. \A a \in 1 .. n + 1 : \E b \in 1 .. i + 1 : more[a] = tried[b]
    <3>1. \A a \in 1 .. n : \E b \in 1 .. i : keys[a] = tried[b]
      BY <1>1 DEF Kept
    <3>2. i + 1 \in 1 .. i + 1 /\ \A b \in 1 .. i : b \in 1 .. i + 1
      OBVIOUS
    <3> QED
      BY <1>1, <2>2, <2>3, <3>1, <3>2
  <2>6. \A b \in 1 .. i + 1 : \E a \in 1 .. n + 1 : more[a] = tried[b]
    <3>1. \A b \in 1 .. i : \E a \in 1 .. n : keys[a] = tried[b]
      BY <1>1 DEF Kept
    <3>2. \A b \in 1 .. i + 1 : b \in 1 .. i \/ b = i + 1
      OBVIOUS
    <3>3. n + 1 \in 1 .. n + 1 /\ \A a \in 1 .. n : a \in 1 .. n + 1
      BY <1>2
    <3> QED
      BY <1>1, <2>2, <3>1, <3>2, <3>3
  <2>7. ASSUME NEW x, NEW y, Precedes(tried, x, y), NEW b \in 1 .. n + 1, more[b] = y
        PROVE  \E a \in 1 .. b - 1 : more[a] = x
    <3>1. CASE b \in 1 .. n
      <4>1. \E a \in 1 .. b - 1 : keys[a] = x
        <5>1. \A c \in 1 .. n : keys[c] = y => \E a \in 1 .. c - 1 : keys[a] = x
          <6>1. \A X, Y : Precedes(tried, X, Y) =>
                  \A c \in 1 .. Len(keys) : keys[c] = Y => \E a \in 1 .. c - 1 : keys[a] = X
            BY Zenon DEF Kept
          <6> QED
            BY <1>1, <2>7, <6>1, Zenon
        <5>2. keys[b] = y
          BY <2>2, <2>7, <3>1
        <5> QED
          BY <3>1, <5>1, <5>2
      <4>2. \A a \in 1 .. b - 1 : a \in 1 .. n
        BY <3>1, <1>2
      <4> QED
        BY <2>2, <4>1, <4>2
    <3>2. CASE b = n + 1
      <4>1. i + 1 \in 1 .. Len(tried) /\ tried[i + 1] = y
        BY <1>1, <2>2, <2>7, <3>2
      <4>2. PICK a \in 1 .. i : tried[a] = x
        BY <2>7, <4>1 DEF Precedes
      <4>3. PICK c \in 1 .. n : keys[c] = tried[a]
        BY <1>1 DEF Kept
      <4>4. c \in 1 .. b - 1 /\ more[c] = x
        BY <1>2, <2>2, <3>2, <4>2, <4>3
      <4> QED
        BY <4>4
    <3> QED
      BY <2>3, <3>1, <3>2
  <2>8. more[1] = tried[1] /\ n + 1 > 0
    <3>1. CASE i > 0
      BY <1>1, <1>2, <2>2, <3>1 DEF Kept
    <3>2. CASE i = 0
      <4>1. n = 0
        BY <1>1, <1>2, <3>2 DEF Kept
      <4> QED
        BY <1>1, <2>2, <3>2, <4>1
    <3> QED
      BY <3>1, <3>2
  <2>9. Len(more) = n + 1 /\ Len(more) \in Nat
    BY <1>2, <2>2
  <2>10. \A x, y : Precedes(tried, x, y) =>
           \A b \in 1 .. Len(more) : more[b] = y => \E a \in 1 .. b - 1 : more[a] = x
    BY <2>7, <2>9, Zenon
  <2>11. /\ \A a, b \in 1 .. Len(more) : more[a] = more[b] => a = b
         /\ \A a \in 1 .. Len(more) : \E b \in 1 .. i + 1 : more[a] = tried[b]
         /\ \A b \in 1 .. i + 1 : \E a \in 1 .. Len(more) : more[a] = tried[b]
    BY <2>4, <2>5, <2>6, <2>9, Zenon
  <2>12. Len(more) > 0 /\ more[1] = tried[1]
    BY <2>8, <2>9, Zenon
  <2>13. IsSeq(more)
    BY <2>2
  <2> QED
    BY <2>9, <2>10, <2>11, <2>12, <2>13, Zenon DEF Kept
<1> QED
  BY <1>3, <1>4

LEMMA KeepAll ==
    ASSUME NEW tried, Len(tried) \in Nat
    PROVE  Kept(KeysAfter(tried)[Len(tried)], tried, Len(tried))
<1> DEFINE n == Len(tried)
           T == {i \in 0 .. n : Kept(KeysAfter(tried)[i], tried, i)}
<1>1. 0 \in T
  <2>1. PICK k : k = KeysAfter(tried)[0]
    OBVIOUS
  <2>2. k = << >>
    BY <2>1, KeysAfterDef
  <2>3. IsSeq(k) /\ Len(k) = 0
    BY <2>2, Tuples
  <2>4. Kept(k, tried, 0)
    BY <2>3 DEF Kept
  <2>5. 0 \in 0 .. n
    OBVIOUS
  <2> QED
    BY <2>1, <2>4, <2>5
<1>2. ASSUME NEW i \in 0 .. n - 1, i \in T
      PROVE  i + 1 \in T
  <2>1. PICK k, more : k = KeysAfter(tried)[i] /\ more = KeysAfter(tried)[i + 1]
    OBVIOUS
  <2>2. Kept(k, tried, i)
    BY <1>2, <2>1
  <2>3. more = addKey(k, tried[i + 1])
    <3>1. i + 1 \in 1 .. n /\ i + 1 - 1 = i
      OBVIOUS
    <3>2. KeysAfter(tried)[i + 1] = addKey(KeysAfter(tried)[i + 1 - 1], tried[i + 1])
      BY <3>1, KeysAfterDef
    <3> QED
      BY <2>1, <3>1, <3>2
  <2>4. Kept(more, tried, i + 1)
    BY <2>2, <2>3, KeepNext
  <2>5. i + 1 \in 0 .. n
    OBVIOUS
  <2> QED
    BY <2>1, <2>4, <2>5
<1>3. n \in T
  <2> HIDE DEF T
  <2>1. \A i \in 0 .. n - 1 : i \in T => i + 1 \in T
    BY <1>2
  <2>2. 0 .. n \subseteq T
    BY <1>1, <2>1, UpTo
  <2> QED
    BY <2>2
<1> QED
  BY <1>3

\* The parts the ladder is made of.
Catalogued(c, f, names) == [i \in DOMAIN names |-> CatalogLayout(c, f, names[i])]

Imaged(c, f, names) == [i \in DOMAIN names |-> ImagesLayout(c, f, names[i])]

AsNamed(path, format) == IF Absent(format) THEN <<path>> ELSE <<path, Append(path, format)>>

Others(path) == [i \in 1 .. 7 |-> IF i = 7 THEN Front(path) ELSE Append(Front(path), Extensions[i])]

InTurn(c, f, names, j) ==
    IF j % 2 = 1 THEN Catalogued(c, f, names)[(j + 1) \div 2] ELSE Imaged(c, f, names)[j \div 2]

Alternating(c, f, names) == [j \in 1 .. 14 |-> InTurn(c, f, names, j)]

HasBase(path) == Len(path) > 1 /\ Front(path) # <<"">>

LEMMA TriedParts ==
    ASSUME NEW c, NEW f, NEW path, NEW format
    PROVE  Tried(c, f, path, format) =
             Catalogued(c, f, AsNamed(path, format)) \o Imaged(c, f, AsNamed(path, format))
               \o (IF HasBase(path) THEN Alternating(c, f, Others(path)) ELSE << >>)
BY Zenon DEF Tried, Catalogued, Imaged, AsNamed, Others, InTurn, Alternating, HasBase, Absent

LEMMA LayoutsApart ==
    ASSUME NEW c, NEW f, NEW n, NEW m
    PROVE  /\ CatalogLayout(c, f, n).name = n /\ CatalogLayout(c, f, n).dir[2] = "catalog"
           /\ ImagesLayout(c, f, n).name = n /\ ImagesLayout(c, f, n).dir[2] = "images"
           /\ CatalogLayout(c, f, n) # ImagesLayout(c, f, m)
<1>1. CatalogLayout(c, f, n).dir[2] = "catalog" /\ ImagesLayout(c, f, m).dir[2] = "images"
  BY DEF CatalogLayout, ImagesLayout, Key
<1>2. ImagesLayout(c, f, n).dir[2] = "images"
  BY DEF ImagesLayout, Key
<1>3. CatalogLayout(c, f, n).name = n /\ ImagesLayout(c, f, n).name = n
  BY DEF CatalogLayout, ImagesLayout, Key
<1> QED
  BY <1>1, <1>2, <1>3

\* Every name stands in both layouts, first in the catalogue's.
Paired(tried, c, f) ==
    \A b \in 1 .. Len(tried) :
      \E n : \/ /\ tried[b] = CatalogLayout(c, f, n)
                /\ \E a \in 1 .. Len(tried) : tried[a] = ImagesLayout(c, f, n)
             \/ /\ tried[b] = ImagesLayout(c, f, n)
                /\ \E a \in 1 .. b - 1 : tried[a] = CatalogLayout(c, f, n)

LEMMA PairsJoined ==
    ASSUME NEW c, NEW f, NEW s, IsSeq(s), Paired(s, c, f), NEW t, IsSeq(t), Paired(t, c, f)
    PROVE  Paired(s \o t, c, f)
<1>1. PICK r, m, k : r = s \o t /\ m = Len(s) /\ k = Len(t)
  OBVIOUS
<1>2. Follows(r, s, t)
  BY <1>1, Chain
<1>3. /\ m \in Nat /\ k \in Nat /\ Len(r) = m + k
      /\ \A i \in 1 .. m : r[i] = s[i]
      /\ \A i \in 1 .. k : r[m + i] = t[i]
  BY <1>1, <1>2 DEF Follows
<1> DEFINE C(n) == CatalogLayout(c, f, n)
           I(n) == ImagesLayout(c, f, n)
<1>4. \A b \in 1 .. m : \E n : \/ s[b] = C(n) /\ \E a \in 1 .. m : s[a] = I(n)
                               \/ s[b] = I(n) /\ \E a \in 1 .. b - 1 : s[a] = C(n)
  BY <1>1 DEF Paired
<1>5. \A b \in 1 .. k : \E n : \/ t[b] = C(n) /\ \E a \in 1 .. k : t[a] = I(n)
                               \/ t[b] = I(n) /\ \E a \in 1 .. b - 1 : t[a] = C(n)
  BY <1>1 DEF Paired
<1> HIDE DEF C, I
<1>6. ASSUME NEW b \in 1 .. m + k
      PROVE  \E n : \/ r[b] = C(n) /\ \E a \in 1 .. m + k : r[a] = I(n)
                    \/ r[b] = I(n) /\ \E a \in 1 .. b - 1 : r[a] = C(n)
  <2>1. CASE b \in 1 .. m
    <3>1. PICK n : \/ s[b] = C(n) /\ \E a \in 1 .. m : s[a] = I(n)
                   \/ s[b] = I(n) /\ \E a \in 1 .. b - 1 : s[a] = C(n)
      BY <1>4, <2>1
    <3>2. CASE s[b] = C(n) /\ \E a \in 1 .. m : s[a] = I(n)
      <4>1. PICK a \in 1 .. m : s[a] = I(n)
        BY <3>2
      <4>2. a \in 1 .. m + k /\ r[a] = I(n) /\ r[b] = C(n)
        BY <1>3, <2>1, <3>2, <4>1
      <4> QED
        BY <4>2
    <3>3. CASE s[b] = I(n) /\ \E a \in 1 .. b - 1 : s[a] = C(n)
      <4>1. PICK a \in 1 .. b - 1 : s[a] = C(n)
        BY <3>3
      <4>2. r[a] = C(n) /\ r[b] = I(n)
        BY <1>3, <2>1, <3>3, <4>1
      <4> QED
        BY <4>2
    <3> QED
      BY <3>1, <3>2, <3>3
  <2>2. CASE b \notin 1 .. m
    <3>1. PICK d \in 1 .. k : b = m + d
      <4>1. b - m \in 1 .. k /\ b = m + (b - m)
        BY <1>3, <2>2
      <4> QED
        BY <4>1
    <3>2. PICK n : \/ t[d] = C(n) /\ \E a \in 1 .. k : t[a] = I(n)
                   \/ t[d] = I(n) /\ \E a \in 1 .. d - 1 : t[a] = C(n)
      BY <1>5
    <3>3. CASE t[d] = C(n) /\ \E a \in 1 .. k : t[a] = I(n)
      <4>1. PICK a \in 1 .. k : t[a] = I(n)
        BY <3>3
      <4>2. m + a \in 1 .. m + k /\ r[m + a] = I(n) /\ r[b] = C(n)
        BY <1>3, <3>1, <3>3, <4>1
      <4> QED
        BY <4>2
    <3>4. CASE t[d] = I(n) /\ \E a \in 1 .. d - 1 : t[a] = C(n)
      <4>1. PICK a \in 1 .. d - 1 : t[a] = C(n)
        BY <3>4
      <4>2. m + a \in 1 .. b - 1 /\ r[m + a] = C(n) /\ r[b] = I(n)
        BY <1>3, <3>1, <3>4, <4>1
      <4> QED
        BY <4>2
    <3> QED
      BY <3>2, <3>3, <3>4
  <2> QED
    BY <2>1, <2>2
<1>7. Paired(r, c, f)
  <2>1. ASSUME NEW b \in 1 .. Len(r)
        PROVE  \E n : \/ r[b] = C(n) /\ \E a \in 1 .. Len(r) : r[a] = I(n)
                      \/ r[b] = I(n) /\ \E a \in 1 .. b - 1 : r[a] = C(n)
    BY <1>3, <1>6
  <2> QED
    BY <2>1, Zenon DEF Paired, C, I
<1> QED
  BY <1>1, <1>7

LEMMA NamesPaired ==
    ASSUME NEW c, NEW f, NEW names, IsSeq(names), Len(names) > 0
    PROVE  /\ IsSeq(Catalogued(c, f, names) \o Imaged(c, f, names))
           /\ Paired(Catalogued(c, f, names) \o Imaged(c, f, names), c, f)
           /\ (Catalogued(c, f, names) \o Imaged(c, f, names))[1] = CatalogLayout(c, f, names[1])
           /\ Len(Catalogued(c, f, names) \o Imaged(c, f, names)) > 0
<1>1. PICK m : m = Len(names)
  OBVIOUS
<1>2. m \in Nat /\ m > 0 /\ DOMAIN names = 1 .. m
  BY <1>1, SeqFacts
<1> DEFINE C(i) == CatalogLayout(c, f, names[i])
           I(i) == ImagesLayout(c, f, names[i])
<1>3. PICK s, t : s = Catalogued(c, f, names) /\ t = Imaged(c, f, names)
  OBVIOUS
<1>4. s = [i \in 1 .. m |-> C(i)] /\ t = [i \in 1 .. m |-> I(i)]
  BY <1>2, <1>3 DEF Catalogued, Imaged
<1> HIDE DEF C, I
<1>5. IsSeq(s) /\ Len(s) = m /\ \A i \in 1 .. m : s[i] = C(i)
  <2>1. PICK S : S = {C(i) : i \in 1 .. m}
    OBVIOUS
  <2>2. s \in [1 .. m -> S]
    BY <1>4, <2>1
  <2>3. s \in Seq(S)
    BY <1>2, <2>2, SeqDef
  <2> QED
    BY <1>2, <1>4, <2>2, <2>3, LenProperties DEF IsSeq
<1>6. IsSeq(t) /\ Len(t) = m /\ \A i \in 1 .. m : t[i] = I(i)
  <2>1. PICK S : S = {I(i) : i \in 1 .. m}
    OBVIOUS
  <2>2. t \in [1 .. m -> S]
    BY <1>4, <2>1
  <2>3. t \in Seq(S)
    BY <1>2, <2>2, SeqDef
  <2>4. Len(t) = m
    BY <1>2, <2>2, <2>3, LenProperties
  <2>5. \A i \in 1 .. m : t[i] = I(i)
    BY <1>4
  <2> QED
    BY <2>3, <2>4, <2>5 DEF IsSeq
<1>7. PICK r : r = s \o t
  OBVIOUS
<1>8. Follows(r, s, t) /\ IsSeq(r)
  BY <1>5, <1>6, <1>7, Chain
<1>9. /\ Len(r) = m + m
      /\ \A i \in 1 .. m : r[i] = C(i)
      /\ \A i \in 1 .. m : r[m + i] = I(i)
  BY <1>5, <1>6, <1>8 DEF Follows
<1>10. ASSUME NEW b \in 1 .. m + m
       PROVE  \E i \in 1 .. m : \/ r[b] = C(i) /\ \E a \in 1 .. m + m : r[a] = I(i)
                                \/ r[b] = I(i) /\ \E a \in 1 .. b - 1 : r[a] = C(i)
  <2>1. CASE b \in 1 .. m
    <3>1. m + b \in 1 .. m + m /\ r[m + b] = I(b) /\ r[b] = C(b)
      BY <1>2, <1>9, <2>1
    <3> QED
      BY <2>1, <3>1
  <2>2. CASE b \notin 1 .. m
    <3>1. PICK i \in 1 .. m : b = m + i
      <4>1. b - m \in 1 .. m /\ b = m + (b - m)
        BY <1>2, <2>2
      <4> QED
        BY <4>1
    <3>2. i \in 1 .. b - 1 /\ r[i] = C(i) /\ r[b] = I(i)
      BY <1>2, <1>9, <3>1
    <3> QED
      BY <3>2
  <2> QED
    BY <2>1, <2>2
<1>11. Paired(r, c, f)
  BY <1>9, <1>10 DEF Paired, C, I
<1>12. r[1] = CatalogLayout(c, f, names[1]) /\ Len(r) > 0
  BY <1>2, <1>9 DEF C
<1> QED
  BY <1>3, <1>7, <1>8, <1>11, <1>12

LEMMA TurnsPaired ==
    ASSUME NEW c, NEW f, NEW names, DOMAIN names = 1 .. 7
    PROVE  IsSeq(Alternating(c, f, names)) /\ Paired(Alternating(c, f, names), c, f)
<1> DEFINE C(i) == CatalogLayout(c, f, names[i])
           I(i) == ImagesLayout(c, f, names[i])
<1>1. PICK r, S : r = Alternating(c, f, names) /\ S = {InTurn(c, f, names, j) : j \in 1 .. 14}
  OBVIOUS
<1>2. r = [j \in 1 .. 14 |-> InTurn(c, f, names, j)]
  BY <1>1 DEF Alternating
<1>3. r \in [1 .. 14 -> S]
  BY <1>1, <1>2
<1>4. IsSeq(r) /\ Len(r) = 14
  <2>1. PICK m \in Nat : m = 14
    OBVIOUS
  <2>2. r \in [1 .. m -> S]
    BY <1>3, <2>1
  <2>3. r \in Seq(S)
    BY <2>2, SeqDef
  <2>4. Len(r) = 14
    BY <1>3, <2>1, <2>3, LenProperties
  <2> QED
    BY <2>3, <2>4 DEF IsSeq
<1>5. /\ \A i \in 1 .. 7 : Catalogued(c, f, names)[i] = C(i)
      /\ \A i \in 1 .. 7 : Imaged(c, f, names)[i] = I(i)
  BY DEF Catalogued, Imaged
<1> HIDE DEF C, I
<1>6. \A i \in 1 .. 7 : r[2 * i - 1] = C(i) /\ r[2 * i] = I(i)
  <2>1. TAKE i \in 1 .. 7
  <2>2. /\ 2 * i - 1 \in 1 .. 14 /\ 2 * i \in 1 .. 14
        /\ (2 * i - 1) % 2 = 1 /\ (2 * i) % 2 # 1
        /\ (2 * i - 1 + 1) \div 2 = i /\ (2 * i) \div 2 = i
    OBVIOUS
  <2>3. InTurn(c, f, names, 2 * i - 1) = C(i) /\ InTurn(c, f, names, 2 * i) = I(i)
    BY <1>5, <2>2 DEF InTurn
  <2> QED
    BY <1>2, <2>2, <2>3
<1>7. ASSUME NEW b \in 1 .. 14
      PROVE  \E i \in 1 .. 7 : \/ r[b] = C(i) /\ \E a \in 1 .. 14 : r[a] = I(i)
                               \/ r[b] = I(i) /\ \E a \in 1 .. b - 1 : r[a] = C(i)
  <2>1. PICK i \in 1 .. 7 : b = 2 * i - 1 \/ b = 2 * i
    OBVIOUS
  <2>2. r[2 * i - 1] = C(i) /\ r[2 * i] = I(i) /\ 2 * i \in 1 .. 14
    BY <1>6
  <2>3. CASE b = 2 * i - 1
    BY <2>2, <2>3
  <2>4. CASE b = 2 * i
    <3>1. 2 * i - 1 \in 1 .. b - 1
      BY <2>4
    <3> QED
      BY <2>2, <2>4, <3>1
  <2> QED
    BY <2>1, <2>3, <2>4
<1>8. Paired(r, c, f)
  <2>1. ASSUME NEW b \in 1 .. Len(r)
        PROVE  \E i : \/ r[b] = C(i) /\ \E a \in 1 .. Len(r) : r[a] = I(i)
                      \/ r[b] = I(i) /\ \E a \in 1 .. b - 1 : r[a] = C(i)
    BY <1>4, <1>7
  <2> QED
    BY <2>1, Zenon DEF Paired, C, I
<1> QED
  BY <1>1, <1>4, <1>8

\* Where a name that a URL may end in is looked for.
LEMMA TriedPaired ==
    ASSUME NEW c, NEW f, NEW path, NEW format
    PROVE  \E tried : /\ tried = Tried(c, f, path, format) /\ IsSeq(tried) /\ Len(tried) \in Nat
                      /\ Len(tried) > 0 /\ tried[1] = CatalogLayout(c, f, path)
                      /\ Paired(tried, c, f)
<1>1. PICK names : names = AsNamed(path, format)
  OBVIOUS
<1>2. IsSeq(names) /\ Len(names) > 0 /\ names[1] = path
  <2>1. CASE Absent(format)
    <3>1. names = <<path>>
      BY <1>1, <2>1 DEF AsNamed
    <3> QED
      BY <3>1, Tuples
  <2>2. CASE ~ Absent(format)
    <3>1. PICK x : x = Append(path, format)
      OBVIOUS
    <3>2. names = <<path, x>>
      BY <1>1, <2>2, <3>1 DEF AsNamed
    <3> QED
      BY <3>2, Tuples
  <2> QED
    BY <2>1, <2>2
<1>3. PICK s, t, tried : /\ s = Catalogued(c, f, names) \o Imaged(c, f, names)
                         /\ t = (IF HasBase(path) THEN Alternating(c, f, Others(path)) ELSE << >>)
                         /\ tried = s \o t
  OBVIOUS
<1>4. tried = Tried(c, f, path, format)
  BY <1>1, <1>3, TriedParts
<1>5. /\ IsSeq(s) /\ Paired(s, c, f) /\ s[1] = CatalogLayout(c, f, path) /\ Len(s) > 0
  BY <1>2, <1>3, NamesPaired
<1>6. IsSeq(t) /\ Paired(t, c, f)
  <2>1. CASE HasBase(path)
    <3>1. PICK o : o = Others(path)
      OBVIOUS
    <3>2. DOMAIN o = 1 .. 7
      BY <3>1 DEF Others
    <3>3. t = Alternating(c, f, o)
      BY <1>3, <2>1, <3>1
    <3> QED
      BY <3>2, <3>3, TurnsPaired
  <2>2. CASE ~ HasBase(path)
    <3>1. t = << >>
      BY <1>3, <2>2
    <3>2. IsSeq(t) /\ Len(t) = 0
      BY <3>1, Tuples
    <3> QED
      BY <3>2 DEF Paired
  <2> QED
    BY <2>1, <2>2
<1>7. Follows(tried, s, t) /\ IsSeq(tried)
  BY <1>3, <1>5, <1>6, Chain
<1>8. Len(tried) \in Nat /\ Len(tried) > 0 /\ tried[1] = s[1]
  BY <1>5, <1>7 DEF Follows
<1>9. Paired(tried, c, f)
  BY <1>3, <1>5, <1>6, PairsJoined
<1> QED
  BY <1>4, <1>5, <1>7, <1>8, <1>9

\* The ladder: what LadderIsComplete says of it, for any name.
LadderOf(keys, c, f, path) ==
    /\ IsSeq(keys) /\ DOMAIN keys = 1 .. Len(keys) /\ Len(keys) \in Nat
    /\ Len(keys) > 0 /\ keys[1] = CatalogLayout(c, f, path)
    /\ \A a, b \in 1 .. Len(keys) : keys[a] = keys[b] => a = b
    /\ \A b \in 1 .. Len(keys) :
         \E n : \/ /\ keys[b] = CatalogLayout(c, f, n)
                   /\ \E a \in 1 .. Len(keys) : b < a /\ keys[a] = ImagesLayout(c, f, n)
                \/ /\ keys[b] = ImagesLayout(c, f, n)
                   /\ \E a \in 1 .. Len(keys) : a < b /\ keys[a] = CatalogLayout(c, f, n)

LEMMA Ladder ==
    ASSUME NEW c, NEW f, NEW path, NEW format
    PROVE  LadderOf(originCandidateKeys(c, f, path, format), c, f, path)
<1>1. PICK tried : /\ tried = Tried(c, f, path, format) /\ IsSeq(tried) /\ Len(tried) \in Nat
                   /\ Len(tried) > 0 /\ tried[1] = CatalogLayout(c, f, path)
                   /\ Paired(tried, c, f)
  BY TriedPaired
<1>2. PICK keys, n : keys = KeysAfter(tried)[Len(tried)] /\ n = Len(tried)
  OBVIOUS
<1>3. originCandidateKeys(c, f, path, format) = keys
  BY <1>1, <1>2 DEF originCandidateKeys
<1>4. Kept(keys, tried, n)
  BY <1>1, <1>2, KeepAll
<1>5. PICK m : m = Len(keys)
  OBVIOUS
<1>6. /\ IsSeq(keys) /\ m \in Nat /\ m > 0 /\ keys[1] = tried[1] /\ DOMAIN keys = 1 .. m
      /\ \A a, b \in 1 .. m : keys[a] = keys[b] => a = b
      /\ \A a \in 1 .. m : \E b \in 1 .. n : keys[a] = tried[b]
      /\ \A b \in 1 .. n : \E a \in 1 .. m : keys[a] = tried[b]
  BY <1>1, <1>2, <1>4, <1>5, SeqFacts DEF Kept
<1>7. \A x, y : Precedes(tried, x, y) =>
        \A b \in 1 .. Len(keys) : keys[b] = y => \E a \in 1 .. b - 1 : keys[a] = x
  BY <1>4, Zenon DEF Kept
<1> DEFINE C(x) == CatalogLayout(c, f, x)
           I(x) == ImagesLayout(c, f, x)
<1>8. ASSUME NEW x
      PROVE  Precedes(tried, C(x), I(x))
  <2>1. ASSUME NEW b \in 1 .. Len(tried), tried[b] = I(x)
        PROVE  \E a \in 1 .. b - 1 : tried[a] = C(x)
    <3>1. PICK y : \/ tried[b] = C(y)
                   \/ tried[b] = I(y) /\ \E a \in 1 .. b - 1 : tried[a] = C(y)
      BY <1>1 DEF Paired
    <3>2. tried[b] # C(y)
      BY <2>1, LayoutsApart
    <3>3. I(y).name = y /\ I(x).name = x
      BY LayoutsApart
    <3>4. x = y
      BY <2>1, <3>1, <3>2, <3>3
    <3> QED
      BY <3>1, <3>2, <3>4
  <2> QED
    BY <2>1 DEF Precedes
<1>9. ASSUME NEW x, NEW b \in 1 .. m, keys[b] = I(x)
      PROVE  \E a \in 1 .. m : a < b /\ keys[a] = C(x)
  <2>1. \E a \in 1 .. b - 1 : keys[a] = C(x)
    BY <1>5, <1>7, <1>8, <1>9, Zenon
  <2> QED
    BY <1>6, <2>1
<1>10. ASSUME NEW b \in 1 .. m
       PROVE  \E x : \/ keys[b] = C(x) /\ \E a \in 1 .. m : b < a /\ keys[a] = I(x)
                     \/ keys[b] = I(x) /\ \E a \in 1 .. m : a < b /\ keys[a] = C(x)
  <2>1. PICK d \in 1 .. n : keys[b] = tried[d]
    BY <1>6
  <2>2. PICK x : \/ tried[d] = C(x) /\ \E a \in 1 .. n : tried[a] = I(x)
                 \/ tried[d] = I(x)
    BY <1>1, <1>2 DEF Paired
  <2>3. CASE tried[d] = I(x)
    BY <1>9, <2>1, <2>3
  <2>4. CASE tried[d] = C(x) /\ \E a \in 1 .. n : tried[a] = I(x)
    <3>1. PICK a \in 1 .. m : keys[a] = I(x)
      <4>1. PICK h \in 1 .. n : tried[h] = I(x)
        BY <2>4
      <4>2. PICK g \in 1 .. m : keys[g] = tried[h]
        BY <1>6
      <4> QED
        BY <4>1, <4>2
    <3>2. PICK e \in 1 .. m : e < a /\ keys[e] = C(x)
      BY <1>9, <3>1
    <3>3. e = b
      BY <1>6, <2>1, <2>4, <3>2
    <3> QED
      BY <2>1, <2>4, <3>1, <3>2, <3>3
  <2> QED
    BY <2>2, <2>3, <2>4
<1>11. LadderOf(keys, c, f, path)
  <2>1. ASSUME NEW b \in 1 .. Len(keys)
        PROVE  \E x : \/ keys[b] = C(x) /\ \E a \in 1 .. Len(keys) : b < a /\ keys[a] = I(x)
                      \/ keys[b] = I(x) /\ \E a \in 1 .. Len(keys) : a < b /\ keys[a] = C(x)
    BY <1>5, <1>10
  <2>2. \A a, b \in 1 .. Len(keys) : keys[a] = keys[b] => a = b
    BY <1>5, <1>6
  <2>3. IsSeq(keys) /\ DOMAIN keys = 1 .. Len(keys) /\ Len(keys) \in Nat /\ Len(keys) > 0
    BY <1>5, <1>6
  <2>4. keys[1] = CatalogLayout(c, f, path)
    BY <1>1, <1>6
  <2> QED
    BY <2>1, <2>2, <2>3, <2>4, Zenon DEF LadderOf
<1> QED
  BY <1>3, <1>11

\* The ladder tries every name in the catalogue layout before the older one,
\* never one without the other, nothing twice, and the name of the URL first,
\* whatever names there are (originCandidateKeys, addKey).
THEOREM LaddersAreComplete == Spec => []LadderIsComplete
<1>1. ASSUME NEW u, u = url
      PROVE  LadderIsComplete
  <2> DEFINE keys == Candidates(u)
             path == splitOutputFormat(u.name).path
             C(n) == CatalogLayout(u.client, u.folder, n)
             I(n) == ImagesLayout(u.client, u.folder, n)
  <2>1. SUFFICES ASSUME u.family \in {"resize", "folder", "param"}
                 PROVE  LadderIsComplete
    BY <1>1 DEF LadderIsComplete
  <2>2. keys = originCandidateKeys(u.client, u.folder, path, splitOutputFormat(u.name).format)
    BY <2>1 DEF Candidates
  <2>3. LadderOf(keys, u.client, u.folder, path)
    BY <2>2, Ladder
  <2> HIDE DEF keys, path
  <2>4. /\ DOMAIN keys = 1 .. Len(keys) /\ keys[1] = C(path)
        /\ \A a, b \in DOMAIN keys : keys[a] = keys[b] => a = b
    BY <2>3 DEF LadderOf
  <2>5. ASSUME NEW i \in DOMAIN keys
        PROVE  /\ keys[i].dir[2] = "catalog" => \E j \in DOMAIN keys : keys[j] = I(keys[i].name) /\ i < j
               /\ keys[i].dir[2] = "images" => \E j \in DOMAIN keys : keys[j] = C(keys[i].name) /\ j < i
    <3>1. PICK n : \/ /\ keys[i] = C(n)
                      /\ \E a \in DOMAIN keys : i < a /\ keys[a] = I(n)
                   \/ /\ keys[i] = I(n)
                      /\ \E a \in DOMAIN keys : a < i /\ keys[a] = C(n)
      BY <2>3, <2>4 DEF LadderOf
    <3>2. C(n).name = n /\ C(n).dir[2] = "catalog" /\ I(n).name = n /\ I(n).dir[2] = "images"
      BY LayoutsApart
    <3> HIDE DEF C, I
    <3>3. CASE keys[i] = C(n) /\ \E a \in DOMAIN keys : i < a /\ keys[a] = I(n)
      BY <3>2, <3>3
    <3>4. CASE keys[i] = I(n) /\ \E a \in DOMAIN keys : a < i /\ keys[a] = C(n)
      BY <3>2, <3>4
    <3> QED
      BY <3>1, <3>3, <3>4
  <2>6. ASSUME NEW i \in DOMAIN keys
        PROVE  /\ keys[i].dir[2] = "catalog" =>
                    \E j \in {d \in DOMAIN keys : keys[d] = I(keys[i].name)} : i < j
               /\ keys[i].dir[2] = "images" =>
                    \E j \in {d \in DOMAIN keys : keys[d] = C(keys[i].name)} : j < i
    BY <2>5
  <2> QED
    BY <1>1, <2>4, <2>6 DEF LadderIsComplete, keys, path
<1>2. LadderIsComplete
  BY <1>1
<1> QED
  BY <1>2, PTL

LEMMA SetOfOne ==
    ASSUME NEW k
    PROVE  ToSet(<<k>>) = {k}
<1>1. PICK s : s = <<k>>
  OBVIOUS
<1>2. IsSeq(s) /\ Len(s) = 1 /\ s[1] = k
  BY <1>1, Tuples
<1>3. DOMAIN s = {1}
  BY <1>2, SeqFacts
<1>4. ToSet(s) = {k}
  BY <1>2, <1>3 DEF ToSet
<1> QED
  BY <1>1, <1>4

\* The second segment of every place where an original is looked for.
LEMMA CandidateDirs ==
    ASSUME NEW u, IsUrl(u), NEW k \in ToSet(Candidates(u))
    PROVE  k.dir[2] \in {"catalog", "images", "files"}
<1>1. CASE u.family \in {"resize", "folder", "param"}
  <2>1. PICK keys, path : keys = Candidates(u) /\ path = splitOutputFormat(u.name).path
    OBVIOUS
  <2>2. keys = originCandidateKeys(u.client, u.folder, path, splitOutputFormat(u.name).format)
    BY <1>1, <2>1 DEF Candidates
  <2>3. LadderOf(keys, u.client, u.folder, path)
    BY <2>2, Ladder
  <2>4. PICK b \in 1 .. Len(keys) : k = keys[b]
    BY <2>1, <2>3 DEF LadderOf, ToSet
  <2>5. PICK n : k = CatalogLayout(u.client, u.folder, n) \/ k = ImagesLayout(u.client, u.folder, n)
    BY <2>3, <2>4 DEF LadderOf
  <2> QED
    BY <2>5, LayoutsApart
<1>2. CASE u.family = "file"
  <2>1. PICK x : x = Key(<<u.client, "files", u.folder>>, u.name)
    OBVIOUS
  <2>2. Candidates(u) = <<x>>
    BY <1>2, <2>1 DEF Candidates
  <2>3. k = x
    BY <2>2, SetOfOne
  <2>4. k.dir = <<u.client, "files", u.folder>>
    BY <2>1, <2>3 DEF Key
  <2> QED
    BY <2>4
<1>3. CASE u.family = "paramfile"
  <2>1. PICK x : x = SourceTail(u)
    OBVIOUS
  <2>2. Candidates(u) = <<x>>
    BY <1>3, <2>1 DEF Candidates
  <2>3. k = x
    BY <2>2, SetOfOne
  <2>4. k.dir = <<Tenant(u)>> \o <<"files">> \o <<u.folder>>
    BY <1>3, <2>1, <2>3 DEF SourceTail, Key
  <2>5. ThreeParts(<<Tenant(u)>> \o <<"files">> \o <<u.folder>>, Tenant(u), "files", u.folder)
    BY SourceDirs, Zenon
  <2> QED
    BY <2>4, <2>5 DEF ThreeParts
<1> QED
  BY <1>1, <1>2, <1>3 DEF IsUrl, Families

\* No rendering is stored where any URL looks for an original: the second
\* segment of a stored key is a version or "_p", that of an original never is
\* (getNormalizedKey, paramCacheKey, originCandidateKeys).
THEOREM RenderingsAreApart == Spec => []RenderingsApartFromOriginals
<1>1. ASSUME IsUrl(url)
      PROVE  RenderingsApartFromOriginals
  <2>1. SUFFICES ASSUME IsRendered(url), getNormalizedKey(url) \in Originals
                 PROVE  FALSE
    BY DEF RenderingsApartFromOriginals
  <2>2. PICK u, k : u = url /\ k = getNormalizedKey(u)
    OBVIOUS
  <2>3. PICK v \in UrlSpace : k \in ToSet(Candidates(v))
    BY <2>1, <2>2 DEF Originals
  <2>4. k.dir[2] \in {"catalog", "images", "files"}
    BY <2>3, UrlsAreUrls, CandidateDirs
  <2>5. /\ u.family \in {"resize", "folder"} <=> k.dir[2] \notin Reserved
        /\ u.family = "file" <=> k.dir[2] = "files"
        /\ u.family \in {"param", "paramfile"} <=> k.dir[2] = "_p"
    BY <1>1, <2>2, FamilyOf
  <2>6. u.family # "file"
    BY <2>1, <2>2 DEF IsRendered
  <2>7. u.family \in Families
    BY <1>1, <2>2 DEF IsUrl
  <2> QED
    BY <2>4, <2>5, <2>6, <2>7 DEF Families, Reserved
<1> QED
  BY <1>1, UrlsStayUrls, PTL

-----------------------------------------------------------------------------
(* What batches store beside the renderings of URLs.                       *)

LEMMA SixTuple ==
    ASSUME NEW a, NEW b, NEW c, NEW d, NEW e, NEW f, NEW s, s = <<a, b, c, d, e, f>>
    PROVE  /\ IsSeq(s) /\ Len(s) = 6
           /\ s[1] = a /\ s[2] = b /\ s[3] = c /\ s[4] = d /\ s[5] = e /\ s[6] = f
<1>1. s \in Seq({a, b, c, d, e, f})
  OBVIOUS
<1> QED
  BY <1>1 DEF IsSeq

LEMMA SixInDir ==
    ASSUME NEW t, NEW v, NEW w, NEW h, NEW q, q = << >>
    PROVE  Dir(t, <<v>>, <<"images">>, "products", <<w, h>>, q) = <<t, v, "images", "products", w, h>>
<1>1. PICK d, s : /\ d = Dir(t, <<v>>, <<"images">>, "products", <<w, h>>, q)
                  /\ s = <<t, v, "images", "products", w, h>>
  OBVIOUS
<1>2. IsSeq(q) /\ Len(q) = 0
  BY Tuples
<1>3. ImagesForm(d, t, v, "images", "products", w, h, q)
  BY <1>1, <1>2, ImagesParts, Zenon
<1>4. /\ Len(d) = 6 /\ d[1] = t /\ d[2] = v /\ d[3] = "images" /\ d[4] = "products"
      /\ d[5] = w /\ d[6] = h
  BY <1>2, <1>3 DEF ImagesForm
<1>5. IsSeq(d)
  <2>1. PICK a, b, c, e, z : /\ a = <<t>> /\ b = <<v>> /\ c = <<"images">> /\ e = <<"products">>
                             /\ z = <<w, h>>
    OBVIOUS
  <2>2. IsSeq(a) /\ IsSeq(b) /\ IsSeq(c) /\ IsSeq(e) /\ IsSeq(z)
    BY <2>1, Tuples
  <2>3. d = a \o b \o c \o e \o z \o q
    BY <1>1, <2>1 DEF Dir
  <2>4. IsSeq(a \o b)
    BY <2>2, Joined
  <2>5. IsSeq(a \o b \o c)
    BY <2>2, <2>4, Joined
  <2>6. IsSeq(a \o b \o c \o e)
    BY <2>2, <2>5, Joined
  <2>7. IsSeq(a \o b \o c \o e \o z)
    BY <2>2, <2>6, Joined
  <2>8. IsSeq(a \o b \o c \o e \o z \o q)
    BY <1>2, <2>7, Joined
  <2> QED
    BY <2>3, <2>8
<1>6. /\ IsSeq(s) /\ Len(s) = 6 /\ s[1] = t /\ s[2] = v /\ s[3] = "images" /\ s[4] = "products"
      /\ s[5] = w /\ s[6] = h
  BY <1>1, SixTuple
<1>7. \A i \in 1 .. 6 : d[i] = s[i]
  BY <1>4, <1>6
<1>8. d = s
  BY <1>4, <1>5, <1>6, <1>7, SameSeq
<1> QED
  BY <1>1, <1>8

ImagesResize(u, c, g, v, w, h, a, n) ==
    /\ IsUrl(u) /\ u.family = "resize" /\ u.client = c /\ u.group = g /\ u.version = v
    /\ u.images /\ u.folder = "products" /\ u.width = w /\ u.height = h
    /\ u.alpha = a /\ u.name = n

LEMMA ResizeFields ==
    ASSUME NEW c \in Clients, NEW g \in Groups, NEW v \in Versions,
           NEW w \in Widths, NEW h \in Heights, NEW a, NEW n \in Names
    PROVE  \E u : ImagesResize(u, c, g, v, w, h, a, n)
<1>1. PICK u : u = ResizeUrl(c, g, v, TRUE, w, h, a, n)
  OBVIOUS
<1>2. ImagesResize(u, c, g, v, w, h, a, n)
  BY <1>1 DEF ResizeUrl, Blank, ImagesResize, IsUrl, Absent, Families
<1> QED
  BY <1>2

\* What goes before the last part of a name, and the last part.
LEMMA NameParted ==
    ASSUME NEW n \in Names, Len(n) > 1
    PROVE  Append(Front(n), Last(n)) = n /\ splitOutputFormat(n).format = Last(n)
<1>1. n \in Seq(STRING)
  BY UrlAssumption
<1>2. PICK m \in Nat : m = Len(n)
  BY <1>1, LenProperties
<1>3. PICK p, x, r : p = Front(n) /\ x = Last(n) /\ r = Append(p, x)
  OBVIOUS
<1>4. \A j \in 1 .. m : n[j] \in STRING
  BY <1>1, <1>2, ElementOfSeq
<1>5. /\ p \in Seq(STRING) /\ Len(p) = m - 1
      /\ \A j \in 1 .. m - 1 : p[j] = n[j]
  <2>1. p = SubSeq(n, 1, m - 1)
    BY <1>2, <1>3 DEF Front
  <2>2. \A j \in 1 .. m - 1 : n[j] \in STRING
    BY <1>4
  <2>3. /\ SubSeq(n, 1, m - 1) \in Seq(STRING)
        /\ Len(SubSeq(n, 1, m - 1)) = IF 1 <= m - 1 THEN m - 1 - 1 + 1 ELSE 0
        /\ \A j \in 1 .. m - 1 - 1 + 1 : SubSeq(n, 1, m - 1)[j] = n[1 + j - 1]
    BY <2>2, SubSeqProperties
  <2> QED
    BY <1>2, <2>1, <2>3
<1>6. x = n[m] /\ x \in STRING
  BY <1>2, <1>3, <1>4 DEF Last
<1>7. /\ r \in Seq(STRING) /\ Len(r) = m - 1 + 1
      /\ \A j \in 1 .. m - 1 : r[j] = p[j]
      /\ r[m - 1 + 1] = x
  BY <1>3, <1>5, <1>6, AppendProperties
<1>8. \A j \in 1 .. m : r[j] = n[j]
  <2>1. \A j \in 1 .. m : j \in 1 .. m - 1 \/ j = m
    OBVIOUS
  <2>2. m - 1 + 1 = m
    OBVIOUS
  <2> QED
    BY <1>5, <1>6, <1>7, <2>1, <2>2
<1>9. r = n
  BY <1>1, <1>2, <1>7, <1>8, SeqEqual
<1>10. splitOutputFormat(n).format = Last(n)
  <2>1. ~ (Len(n) < 2)
    BY <1>2
  <2>2. splitOutputFormat(n).format = IF Len(n) < 2 THEN "" ELSE Last(n)
    BY DEF splitOutputFormat
  <2> QED
    BY <2>1, <2>2, Zenon
<1> QED
  BY <1>3, <1>9, <1>10

\* The URL of a resize whose stored key is the key of an output.
Twin(v, o) ==
    /\ IsUrl(v) /\ v.family = "resize" /\ v.images
    /\ v.version = o.version /\ v.width = o.width /\ v.height = o.height
    /\ Absent(v.alpha) /\ ~ Absent(o.version)
    /\ splitOutputFormat(v.name).format = o.format
    /\ getNormalizedKey(v) = thumbKey(o)

LEMMA Twins ==
    ASSUME NEW o \in Outputs
    PROVE  \E v : Twin(v, o)
<1>1. PICK u \in ResizeUrls, x \in Versions \intersect DOMAIN Number,
           w \in Widths \intersect DOMAIN Number, h \in Heights \intersect DOMAIN Number,
           n \in {m \in Names : Len(m) > 1} :
        o = [client |-> Tenant(u), version |-> x, width |-> w, height |-> h,
             file |-> Front(n), format |-> Last(n)]
  BY DEF Outputs
<1>2. /\ o.client = Tenant(u) /\ o.version = x /\ o.width = w /\ o.height = h
      /\ o.file = Front(n) /\ o.format = Last(n)
  BY <1>1
<1>3. PICK c \in Clients, g \in Groups : u.client = c /\ u.group = g
  <2>1. u \in UrlSpace
    BY DEF UrlSpace
  <2> QED
    BY <2>1, UrlsAreUrls DEF IsUrl
<1>4. PICK a : Absent(a)
  BY Zenon DEF Absent
<1>5. PICK v : ImagesResize(v, c, g, x, w, h, a, n)
  <2>1. x \in Versions /\ w \in Widths /\ h \in Heights /\ n \in Names
    OBVIOUS
  <2> QED
    BY <2>1, ResizeFields
<1>6. /\ IsUrl(v) /\ v.family = "resize" /\ v.client = c /\ v.group = g /\ v.version = x
      /\ v.images /\ v.folder = "products" /\ v.width = w /\ v.height = h
      /\ v.alpha = a /\ v.name = n
  BY <1>5 DEF ImagesResize
<1>7. Tenant(v) = Tenant(u)
  BY <1>3, <1>6, TenantOf
<1>8. ~ Absent(x)
  <2>1. "" \notin DOMAIN Number
    BY TokenAssumption
  <2> QED
    BY <2>1, Zenon DEF Absent
<1>9. Version(v) = x
  BY <1>6, <1>8, Zenon DEF Version, Absent
<1>10. getNormalizedKey(v) = LegacyKey(v, x, a, n)
  BY <1>6, <1>9 DEF getNormalizedKey, KeyOf
<1>11. PICK q : q = Segment(a) /\ q = << >>
  BY <1>4 DEF Segment, Absent
<1>12. LegacyKey(v, x, a, n) = Key(Dir(Tenant(v), <<x>>, <<"images">>, "products", <<w, h>>, q), n)
  <2>1. Segment(x) = <<x>>
    BY <1>8, SegmentFacts
  <2> QED
    BY <1>6, <1>11, <2>1 DEF LegacyKey, Dir
<1>13. LegacyKey(v, x, a, n) = Key(<<Tenant(v), x, "images", "products", w, h>>, n)
  BY <1>11, <1>12, SixInDir
<1>14. Append(Front(n), Last(n)) = n /\ splitOutputFormat(n).format = Last(n)
  BY NameParted
<1>15. thumbKey(o) = Key(<<Tenant(v), x, "images", "products", w, h>>, n)
  BY <1>2, <1>7, <1>14 DEF thumbKey
<1>16. Twin(v, o)
  BY <1>2, <1>4, <1>6, <1>8, <1>10, <1>13, <1>14, <1>15 DEF Twin
<1> QED
  BY <1>16

LegacyRendering(w, h, fit, a, x, g, none) ==
    [pipeline |-> "legacy", width |-> w, height |-> h, fit |-> fit, alpha |-> a, format |-> x,
     pages |-> g, options |-> none]

Fitted(legacy, s, z, f) == [legacy EXCEPT !.width = s, !.height = z, !.fit = f]

LEMMA LegacySized ==
    ASSUME NEW w, NEW h, NEW fit, NEW a, NEW x, NEW g, NEW none, NEW s, NEW z, NEW f
    PROVE  Fitted(LegacyRendering(w, h, fit, a, x, g, none), s, z, f)
             = LegacyRendering(s, z, f, a, x, g, none)
<1> DEFINE L == LegacyRendering(w, h, fit, a, x, g, none)
           R == [pipeline : {"legacy"}, width : {w, s}, height : {h, z}, fit : {fit, f}, alpha : {a},
                 format : {x}, pages : {g}, options : {none}]
           r == [L EXCEPT !.width = s, !.height = z, !.fit = f]
<1>1. L \in R
  BY DEF LegacyRendering
<1> HIDE DEF L
<1>2. r \in R /\ r.width = s /\ r.height = z /\ r.fit = f
  BY <1>1
<1> HIDE DEF r
<1>3. r = [pipeline |-> r.pipeline, width |-> r.width, height |-> r.height, fit |-> r.fit,
           alpha |-> r.alpha, format |-> r.format, pages |-> r.pages, options |-> r.options]
  BY <1>2
<1>4. /\ r.pipeline = "legacy" /\ r.alpha = a /\ r.format = x
      /\ r.pages = g /\ r.options = none
  BY <1>2
<1>5. r = LegacyRendering(s, z, f, a, x, g, none)
  BY <1>2, <1>3, <1>4, Zenon DEF LegacyRendering
<1> QED
  BY <1>5 DEF r, L, Fitted

LEMMA LegacyPaged ==
    ASSUME NEW w, NEW h, NEW fit, NEW a, NEW x, NEW g, NEW none, NEW n
    PROVE  [LegacyRendering(w, h, fit, a, x, g, none) EXCEPT !.pages = n]
             = LegacyRendering(w, h, fit, a, x, n, none)
<1> DEFINE L == LegacyRendering(w, h, fit, a, x, g, none)
           R == [pipeline : {"legacy"}, width : {w}, height : {h}, fit : {fit}, alpha : {a},
                 format : {x}, pages : {g, n}, options : {none}]
           r == [L EXCEPT !.pages = n]
<1>1. L \in R /\ L.width = w
  BY DEF LegacyRendering
<1> HIDE DEF L
<1>2. r \in R /\ r.pages = n
  BY <1>1
<1> HIDE DEF r
<1>3. r = [pipeline |-> r.pipeline, width |-> r.width, height |-> r.height, fit |-> r.fit,
           alpha |-> r.alpha, format |-> r.format, pages |-> r.pages, options |-> r.options]
  BY <1>2
<1>4. /\ r.pipeline = "legacy" /\ r.width = w /\ r.height = h /\ r.fit = fit
      /\ r.alpha = a /\ r.format = x /\ r.options = none
  BY <1>2
<1>5. r = LegacyRendering(w, h, fit, a, x, n, none)
  BY <1>2, <1>3, <1>4, Zenon DEF LegacyRendering
<1> QED
  BY <1>5 DEF r, L

\* What the URL of an output asks for is the first page of what the batch makes,
\* but for version 1 and for no size at all.
LEMMA TwinRendering ==
    ASSUME NEW o, NEW v, Twin(v, o), o.version # "1", ~ (Atoi(o.width) = 0 /\ Atoi(o.height) = 0)
    PROVE  Prewarmed(o) = [Rendering(v) EXCEPT !.pages = "all"]
<1>1. /\ v.family = "resize" /\ v.version = o.version /\ v.width = o.width /\ v.height = o.height
      /\ Absent(v.alpha) /\ ~ Absent(o.version) /\ splitOutputFormat(v.name).format = o.format
  BY DEF Twin
<1>2. PICK w, h, a, x : /\ w = Atoi(o.width) /\ h = Atoi(o.height) /\ a = v.alpha /\ x = o.format
  OBVIOUS
<1>3. Version(v) # "1"
  BY <1>1, Zenon DEF Version, Absent
<1>4. PICK legacy, first, none : /\ none = << >> /\ first = "first"
                                 /\ legacy = LegacyRendering(5120, 0, "inside", a, x, first, none)
  OBVIOUS
<1>5. PICK s, f : /\ s = (IF w = 0 /\ h = 0 THEN 5120 ELSE w)
                  /\ f = (IF Version(v) = "1" THEN "cover" ELSE "contain")
  OBVIOUS
<1>6. Rendering(v) = LegacyRendering(w, h, "contain", a, x, first, none)
  <2>1. s = w
    BY <1>2, <1>5
  <2>2. f = "contain"
    BY <1>3, <1>5
  <2>3. Rendering(v) = Fitted(legacy, s, h, f)
    BY <1>1, <1>2, <1>4, <1>5 DEF Rendering, LegacyRendering, Fitted
  <2>4. PICK most, zero, inside : legacy = LegacyRendering(most, zero, inside, a, x, first, none)
    BY <1>4
  <2>5. Fitted(legacy, s, h, f) = LegacyRendering(s, h, f, a, x, first, none)
    <3>1. Fitted(LegacyRendering(most, zero, inside, a, x, first, none), s, h, f)
            = LegacyRendering(s, h, f, a, x, first, none)
      BY LegacySized
    <3> QED
      BY <2>4, <3>1
  <2>6. Rendering(v) = LegacyRendering(s, h, f, a, x, first, none)
    BY <2>3, <2>5
  <2> QED
    BY <2>1, <2>2, <2>6
<1>7. PICK all : all = "all"
  OBVIOUS
<1>8. Prewarmed(o) = LegacyRendering(w, h, "contain", a, x, all, none)
  <2>1. Prewarmed(o)
          = LegacyRendering(Atoi(o.width), Atoi(o.height), "contain", "", o.format, "all", << >>)
    BY Zenon DEF Prewarmed, LegacyRendering
  <2>2. a = ""
    BY <1>1, <1>2, Zenon DEF Absent
  <2>3. PICK empty, contain, nothing : empty = "" /\ contain = "contain" /\ nothing = << >>
    OBVIOUS
  <2>4. Prewarmed(o)
          = LegacyRendering(Atoi(o.width), Atoi(o.height), contain, empty, o.format, all, nothing)
    BY <1>7, <2>1, <2>3, Zenon
  <2>5. a = empty /\ none = nothing
    BY <1>4, <2>2, <2>3, Zenon
  <2>6. Prewarmed(o) = LegacyRendering(w, h, contain, a, x, all, none)
    BY <1>2, <2>4, <2>5
  <2> QED
    BY <2>3, <2>6, Zenon
<1>9. PICK contain : contain = "contain"
  OBVIOUS
<1>10. [LegacyRendering(w, h, contain, a, x, first, none) EXCEPT !.pages = all]
          = LegacyRendering(w, h, contain, a, x, all, none)
  BY LegacyPaged
<1>11. [Rendering(v) EXCEPT !.pages = all] = Prewarmed(o)
  <2>1. Rendering(v) = LegacyRendering(w, h, contain, a, x, first, none)
    BY <1>6, <1>9, Zenon
  <2>2. Prewarmed(o) = LegacyRendering(w, h, contain, a, x, all, none)
    BY <1>8, <1>9, Zenon
  <2> QED
    BY <1>10, <2>1, <2>2, Zenon
<1> QED
  BY <1>7, <1>11, Zenon

\* A stored key with sizes and "images" in it is that of a resize.
LEMMA SizesTell ==
    ASSUME NEW u, IsUrl(u), NEW v, IsUrl(v), v.family = "resize", v.images, Absent(v.alpha),
           getNormalizedKey(u) = getNormalizedKey(v)
    PROVE  u.family = "resize"
<1>1. PICK k : k = getNormalizedKey(u) /\ k = getNormalizedKey(v)
  OBVIOUS
<1>2. u.family \in {"resize", "folder"}
  BY <1>1, FamilyOf
<1>3. Len(k.dir) = 6
  BY <1>1, StoredLegacy DEF ImagesDir
<1>4. ASSUME u.family = "folder"
      PROVE  FALSE
  <2>1. FolderDir(k.dir, u, Version(u))
    BY <1>1, <1>4, StoredLegacy
  <2>2. Len(k.dir) = 4 \/ Len(k.dir) = 5
    BY <2>1 DEF FolderDir
  <2> QED
    BY <1>3, <2>2
<1> QED
  BY <1>2, <1>4

\* A batch and a request that share a key mean the same by it, whatever the
\* outputs of the triggers are: only the URL of a resize leads to the key of an
\* output, it asks for the first page of what the batch makes there, but for
\* version 1 and the size 0x0, and no URL looks for an original there
\* (handleResize, getNormalizedKey, processOutput).
THEOREM BatchesAgree == Spec => []BatchKeysAgree
<1>1. ASSUME IsUrl(url), NEW o \in Outputs, NEW u, u = url, NEW key, key = thumbKey(o)
      PROVE  /\ key = RawKey(u) => key = getNormalizedKey(u)
             /\ key = getNormalizedKey(u) =>
                  /\ u.family = "resize"
                  /\ \/ Prewarmed(o) = [Rendering(u) EXCEPT !.pages = "all"]
                     \/ o.version = "1" \/ (Atoi(o.width) = 0 /\ Atoi(o.height) = 0)
             /\ key \notin ToSet(Candidates(u))
  <2>1. PICK v : Twin(v, o)
    BY Twins
  <2>2. /\ IsUrl(v) /\ v.family = "resize" /\ v.images /\ Absent(v.alpha)
        /\ getNormalizedKey(v) = key
    BY <1>1, <2>1 DEF Twin
  <2>3. IsUrl(u)
    BY <1>1
  <2>4. key = RawKey(u) => key = getNormalizedKey(u)
    BY <2>2, <2>3, RawIsStored
  <2>5. ASSUME key = getNormalizedKey(u)
        PROVE  /\ u.family = "resize"
               /\ \/ Prewarmed(o) = [Rendering(u) EXCEPT !.pages = "all"]
                  \/ o.version = "1" \/ (Atoi(o.width) = 0 /\ Atoi(o.height) = 0)
    <3>1. u.family = "resize"
      BY <2>2, <2>3, <2>5, SizesTell
    <3>2. Rendering(u) = Rendering(v)
      BY <2>2, <2>3, <2>5, OneKeyOneImage DEF SameImage
    <3> QED
      BY <2>1, <3>1, <3>2, TwinRendering
  <2>6. key \notin ToSet(Candidates(u))
    <3>1. SUFFICES ASSUME key \in ToSet(Candidates(u))
                   PROVE  FALSE
      OBVIOUS
    <3>2. key.dir[2] \in {"catalog", "images", "files"}
      BY <2>3, <3>1, CandidateDirs
    <3>3. key.dir[2] \notin Reserved
      BY <2>2, FamilyOf
    <3> QED
      BY <3>2, <3>3 DEF Reserved
  <2> QED
    BY <2>4, <2>5, <2>6
<1>2. ASSUME IsUrl(url)
      PROVE  BatchKeysAgree
  BY <1>1, <1>2, Zenon DEF BatchKeysAgree
<1> QED
  BY <1>2, UrlsStayUrls, PTL
===============================================================================
