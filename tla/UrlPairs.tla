------------------------------ MODULE UrlPairs ------------------------------
(***************************************************************************)
(* What the key layout of UrlKeys has to guarantee of any two URLs, and of *)
(* the ways a client may spell one.                                        *)
(***************************************************************************)
EXTENDS UrlKeys

VARIABLE url

Init == url \in UrlSpace

Spelled == {<<RawKey(v), v>> : v \in UrlSpace}

\* The client has learnt the stored key and requests that.
Canonicalize ==
    \E key \in {getNormalizedKey(url)} : \E s \in Spelled : s[1] = key /\ url' = s[2]

-----------------------------------------------------------------------------
(* Other ways to write one list of options                                 *)

Opt(name, args) == [name |-> name, args |-> args]

Aliased(list) ==
    UNION {{[list EXCEPT ![i].name = n] :
              n \in {m \in LongNames \union DOMAIN Aliases : LongName(m) = LongName(list[i].name)}} :
           i \in DOMAIN list}

\* The atomic segments a compound one stands for.
Atoms(segment) ==
    LET fields == Compound[LongName(segment.name)] IN
    [i \in DOMAIN fields |-> Opt(fields[i], <<argAt(segment.args, i)>>)]
      \o (IF Len(segment.args) <= Len(fields) THEN << >>
          ELSE <<Opt("extend", From(segment.args, Len(fields) + 1))>>)

IsCompound(segment) == LongName(segment.name) \in DOMAIN Compound

Unfolded(list) ==
    {SubSeq(list, 1, i - 1) \o Atoms(list[i]) \o From(list, i + 1) :
       i \in {j \in DOMAIN list : IsCompound(list[j])}}

\* The fields a segment may set; segments that share none may change places.
Touches(segment) ==
    IF IsCompound(segment) THEN {a.name : a \in ToSet(Atoms(segment))} ELSE {LongName(segment.name)}

Swapped(list) ==
    {[list EXCEPT ![i] = list[i + 1], ![i + 1] = list[i]] :
       i \in {j \in 1 .. Len(list) - 1 : Touches(list[j]) \intersect Touches(list[j + 1]) = {}}}

\* A default that comes first says nothing.
Defaults ==
    {Opt("resizing_type", <<"fit">>), Opt("width", <<"0">>), Opt("height", <<"">>),
     Opt("enlarge", <<"0">>), Opt("extend", <<"0", "no">>), Opt("gravity", <<"ce">>),
     Opt("crop", <<"0", "0", "no">>), Opt("background", <<"">>), Opt("raw", <<"f">>)}

Respellings(list) ==
    Aliased(list) \union Unfolded(list) \union Swapped(list) \union {<<d>> \o list : d \in Defaults}

\* The client writes its options in another way.
Respell ==
    /\ url.family \in {"param", "paramfile"} /\ url.options \in OptionLists
    /\ \E list \in Respellings(url.options) : url' = [url EXCEPT !.options = list]

Next == Canonicalize \/ Respell

Spec == Init /\ [][Next]_url

-----------------------------------------------------------------------------
(* What batches put beside the renderings of URLs (module BatchWorker): the *)
(* numbers of a trigger are printed as they are, and a key is put together  *)
(* without regard to what a URL may say.                                    *)

\* Mutant: the height comes before the width.
thumbKeyTurned(o) ==
    Key(<<o.client, o.version, "images", "products", o.height, o.width>>, Append(o.file, o.format))

thumbKey(o) ==
    Key(<<o.client, o.version, "images", "products", o.width, o.height>>, Append(o.file, o.format))

\* The outputs of triggers whose numbers are among those of the URLs.
Outputs ==
    LET Numbers(texts) == texts \intersect DOMAIN Number IN
    {[client |-> c, version |-> v, width |-> w, height |-> h,
      file |-> Front(n), format |-> Last(n)] :
        c \in {Tenant(u) : u \in ResizeUrls}, v \in Numbers(Versions),
        w \in Numbers(Widths), h \in Numbers(Heights), n \in {m \in Names : Len(m) > 1}}

\* What processOutput asks the resizer for: all the pages of an animation.
Prewarmed(o) ==
    [pipeline |-> "legacy", width |-> Atoi(o.width), height |-> Atoi(o.height),
     fit |-> "contain", alpha |-> "", format |-> o.format, pages |-> "all", options |-> << >>]

-----------------------------------------------------------------------------
(* Properties.  What the other URLs may have stored, and where they look:  *)

Stored == {<<getNormalizedKey(v), Rendering(v), Candidates(v)>> : v \in {u \in UrlSpace : IsRendered(u)}}

\* Only what u asks for is ever stored under the key.
HoldsOnly(key, u) ==
    \A asked \in {<<key, Rendering(u), Candidates(u)>>} :
       \A s \in Stored : s[1] = asked[1] => s = asked

Originals == UNION {ToSet(Candidates(v)) : v \in UrlSpace}

\* One stored key stands for one rendering of one list of originals, whichever
\* URL it was filled by (getNormalizedKey and paramCacheKey with Canonical,
\* against what handleResize and handleParams ask of the resizer).
KeyDeterminesRendering ==
    IsRendered(url) => HoldsOnly(getNormalizedKey(url), url)

\* What the speculative read finds under the raw key, if a rendering is stored
\* there, is the rendering this URL asks for (ServeHTTP, step 1).
RawHitIsRight == HoldsOnly(RawKey(url), url)

\* No rendering is stored where any URL looks for an original, so
\* that no rendering is ever taken for a source or replaces one.
RenderingsApartFromOriginals ==
    IsRendered(url) => getNormalizedKey(url) \notin Originals

\* A step from one spelling of a URL to another (the one that spells out the
\* stored key, other aliases, another order of the options, a compound option
\* taken apart, a default written down) leads to the same stored object
\* (getNormalizedKey, Options.Canonical).
SpellingsConverge ==
    [][getNormalizedKey(url') = getNormalizedKey(url) /\ SameImage(url, url')]_url

\* The ladder tries every name in the catalogue layout before the older layout,
\* never one without the other, nothing twice, and the name of the URL first
\* (originCandidateKeys).
LadderIsComplete ==
    LET keys == Candidates(url)
        At(k) == {i \in DOMAIN keys : keys[i] = k} IN
    url.family \in {"resize", "folder", "param"} =>
      /\ keys[1] = CatalogLayout(url.client, url.folder, splitOutputFormat(url.name).path)
      /\ \A i, j \in DOMAIN keys : keys[i] = keys[j] => i = j
      /\ \A i \in DOMAIN keys :
           /\ keys[i].dir[2] = "catalog" =>
                \E j \in At(ImagesLayout(url.client, url.folder, keys[i].name)) : i < j
           /\ keys[i].dir[2] = "images" =>
                \E j \in At(CatalogLayout(url.client, url.folder, keys[i].name)) : j < i

\* A batch and a request that share a key mean the same by it: only the URL of a
\* resize can lead to the key of an output, it asks for the first page of what
\* processOutput makes there of every page, but for version 1 ("cover" against
\* "contain") and the size 0x0 (5120 wide against none), and no URL looks for an
\* original there (handleResize, getNormalizedKey, processOutput).
BatchKeysAgree ==
    \A o \in Outputs :
      LET key == thumbKey(o) IN
      /\ key = RawKey(url) => key = getNormalizedKey(url)
      /\ key = getNormalizedKey(url) =>
           /\ url.family = "resize"
           /\ \/ Prewarmed(o) = [Rendering(url) EXCEPT !.pages = "all"]
              \/ o.version = "1" \/ (Atoi(o.width) = 0 /\ Atoi(o.height) = 0)
      /\ key \notin ToSet(Candidates(url))
==============================================================================
