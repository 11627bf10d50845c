------------------------------- MODULE UrlKeys -------------------------------
(***************************************************************************)
(* internal/server/server.go and params.go: the pure functions that turn a *)
(* URL into the key its rendering is stored under, the keys its original   *)
(* may live under and the rendering it asks for.                           *)
(*                                                                         *)
(* A key is its directory segments and its file name; a file name is its   *)
(* dot-separated parts.  A URL is the groups its regular expression        *)
(* captures ("" for a group that did not take part); a processing-option   *)
(* URL has the list of its option segments besides.                        *)
(***************************************************************************)
EXTENDS ParamRoute

CONSTANTS
    Clients, Groups, Versions, Folders, Widths, Heights, Alphas, Names, OptionLists
                    \* what the segments of the URLs under study range over

Key(dir, name) == [dir |-> dir, name |-> name]

\* A segment that is left out of a key when it is empty.
Segment(s) == IF s = "" THEN << >> ELSE <<s>>

Tenant(u) == IF u.group = "" THEN u.client ELSE u.client \o "-" \o u.group

\* What the regular expressions and parseSourceTail let through: a client is
\* digits, so that it ends where the "-" of a group begins; a version is a digit;
\* a name is not empty; and the options have names and
\* parse, for no other URL gets past the gates.
ASSUME UrlAssumption ==
    /\ \A c, d \in Clients, g, h \in Groups :
         /\ Tenant([client |-> c, group |-> g]) # "_p"
         /\ Tenant([client |-> c, group |-> g]) = Tenant([client |-> d, group |-> h]) => c = d
    /\ Versions \intersect {"_p", "files", "catalog", "images", "products"} = {}
    /\ \A n \in Names : n \in Seq(STRING) /\ n # << >>
    /\ \A list \in OptionLists :
         /\ list \in Seq(PathSegment) /\ \A i \in DOMAIN list : list[i].name # ""
         /\ ParseOptions(list) # {}

\* Sizes are kept as the text of the URL; "240.5" is legal there, and
\* strconv.Atoi refuses it, which handleResize reads as 0.
Atoi(s) == IF s \in DOMAIN Number THEN Number[s] ELSE 0

-----------------------------------------------------------------------------
\* The three legacy URL families and the processing-option family.
Blank == [family |-> "", client |-> "", group |-> "", version |-> "", images |-> FALSE,
          folder |-> "", width |-> "", height |-> "", alpha |-> "", options |-> << >>,
          name |-> << >>]

ResizeUrl(c, g, v, i, w, h, a, n) ==
    [Blank EXCEPT !.family = "resize", !.client = c, !.group = g, !.version = v, !.images = i,
                  !.folder = "products", !.width = w, !.height = h, !.alpha = a, !.name = n]

FolderUrl(c, g, v, f, a, n) ==
    [Blank EXCEPT !.family = "folder", !.client = c, !.group = g, !.version = v,
                  !.images = TRUE, !.folder = f, !.alpha = a, !.name = n]

FileUrl(c, g, n) ==
    [Blank EXCEPT !.family = "file", !.client = c, !.group = g, !.folder = "7", !.name = n]

ParamUrl(c, g, f, o, n) ==
    [Blank EXCEPT !.family = "param", !.client = c, !.group = g, !.folder = f,
                  !.options = o, !.name = n]

ParamFileUrl(c, g, o, n) ==
    [Blank EXCEPT !.family = "paramfile", !.client = c, !.group = g, !.folder = "7",
                  !.options = o, !.name = n]

ResizeUrls ==
    {ResizeUrl(c, g, v, i, w, h, a, n) :
       c \in Clients, g \in Groups, v \in Versions, i \in BOOLEAN,
       w \in Widths, h \in Heights, a \in Alphas, n \in Names}

FolderUrls ==
    {FolderUrl(c, g, v, f, a, n) :
       c \in Clients, g \in Groups, v \in Versions, f \in Folders, a \in Alphas, n \in Names}

FileUrlSpace == {FileUrl(c, g, n) : c \in Clients, g \in Groups, n \in Names}

ParamUrls ==
    {ParamUrl(c, g, f, o, n) :
       c \in Clients, g \in Groups, f \in Folders, o \in OptionLists, n \in Names}

ParamFileUrls ==
    {ParamFileUrl(c, g, o, n) : c \in Clients, g \in Groups, o \in OptionLists, n \in Names}

UrlSpace == ResizeUrls \union FolderUrls \union FileUrlSpace \union ParamUrls
              \union ParamFileUrls

-----------------------------------------------------------------------------
\* The key of a legacy image URL, from its parts.
LegacyKey(u, version, alpha, name) ==
    Key(<<Tenant(u)>> \o Segment(version)
          \o (IF u.images THEN <<"images">> ELSE << >>) \o <<u.folder>>
          \o (IF u.family = "resize" THEN <<u.width, u.height>> ELSE << >>)
          \o Segment(alpha), name)

\* The key a client spells out: for a legacy family the URL path itself.
RawKey(u) ==
    CASE u.family \in {"resize", "folder"} -> LegacyKey(u, u.version, u.alpha, u.name)
      [] u.family = "file" -> Key(<<Tenant(u), "files", u.folder>>, u.name)
      [] u.family \in {"param", "paramfile"} ->
           Key(<<"_p", "signature", u.options, Tenant(u)>>
                 \o (IF u.family = "param" THEN << >> ELSE <<"files">>) \o <<u.folder>>, u.name)

Version(u) ==
    IF u.version # "" THEN u.version ELSE IF u.family = "folder" THEN "0" ELSE "1"

\* The source tail of a processing-option URL, as handleParams sees it.
SourceTail(u) ==
    Key(<<Tenant(u)>> \o (IF u.family = "param" THEN << >> ELSE <<"files">>) \o <<u.folder>>,
        u.name)

paramCacheKey(source, canonical) ==
    Key(<<Head(source.dir), "_p", canonical>> \o Tail(source.dir), source.name)

\* The options of a list that parses; only those are under study.
OptionsOf(list) == CHOOSE o \in ParseOptions(list) : TRUE

\* Each computed once, like every constant.
CanonicalOf == [list \in OptionLists |-> Canonical(OptionsOf(list))]
CanonicalForm(list) ==
    IF list \in OptionLists THEN CanonicalOf[list] ELSE Canonical(OptionsOf(list))

KeyOf(u, legacy) ==
    CASE u.family \in {"resize", "folder"} -> legacy
      [] u.family = "file" -> RawKey(u)
      [] OTHER -> paramCacheKey(SourceTail(u), CanonicalForm(u.options))

\* Mutants: the key forgets the output format or the default version.
KeyWithoutFormat(u)  == KeyOf(u, LegacyKey(u, Version(u), u.alpha, <<u.name[1], u.name[2]>>))
KeyWithoutDefault(u) == KeyOf(u, LegacyKey(u, u.version, u.alpha, u.name))

\* The key the rendering is stored under (a file: under the raw key).
getNormalizedKey(u) == KeyOf(u, LegacyKey(u, Version(u), u.alpha, u.name))

-----------------------------------------------------------------------------
\* Where an original may live: first come the catalogue and the older layout
\* with the name as it is and with the format appended, then every extension
\* the name may have been published with, then none.
CatalogLayout(client, folder, name) == Key(<<client, "catalog", folder, "images">>, name)
ImagesLayout(client, folder, name)  == Key(<<client, "images", folder>>, name)

Extensions == <<"jpg", "jpeg", "png", "webp", "gif", "avif">>

\* Mutant: repetitions are kept.
AppendKey(keys, k) == Append(keys, k)

addKey(keys, k) == IF Contains(keys, k) THEN keys ELSE Append(keys, k)

\* Names are tried in this order.
Tried(client, folder, path, format) ==
    LET Catalogued(names) == [i \in DOMAIN names |-> CatalogLayout(client, folder, names[i])]
        Imaged(names)     == [i \in DOMAIN names |-> ImagesLayout(client, folder, names[i])]
        asNamed == IF format = "" THEN <<path>> ELSE <<path, Append(path, format)>>
        \* strings.LastIndex(path, ".") > 0: a dot, and not only a leading one.
        hasBase == Len(path) > 1 /\ Front(path) # <<"">>
        others  == [i \in 1 .. 7 |-> IF i = 7 THEN Front(path)
                                              ELSE Append(Front(path), Extensions[i])]
        Both(j) == IF j % 2 = 1 THEN Catalogued(others)[(j + 1) \div 2]
                                ELSE Imaged(others)[j \div 2]
    IN  Catalogued(asNamed) \o Imaged(asNamed)
          \o (IF hasBase THEN [j \in 1 .. 14 |-> Both(j)] ELSE << >>)

\* addKey drops repetitions.
KeysAfter(tried) ==
    LET after[i \in 0 .. Len(tried)] ==
          IF i = 0 THEN << >> ELSE addKey(after[i - 1], tried[i])
    IN  after

originCandidateKeys(client, folder, path, format) ==
    LET tried == Tried(client, folder, path, format) IN KeysAfter(tried)[Len(tried)]

\* The candidates of a URL.  A group is part of the stored key only; a
\* processing-option URL of a file names its original literally.
Candidates(u) ==
    LET split == splitOutputFormat(u.name) IN
    CASE u.family \in {"resize", "folder", "param"} ->
           originCandidateKeys(u.client, u.folder, split.path, split.format)
      [] u.family = "file" -> <<Key(<<u.client, "files", u.folder>>, u.name)>>
      [] u.family = "paramfile" -> <<SourceTail(u)>>

\* What the resizer makes of the options: a default stands for what it means.
Anchor(g) == IF g.type = "" THEN [NoGravity EXCEPT !.type = "ce"] ELSE g

Padding(e) == IF e.enabled THEN <<Anchor(e.gravity)>> ELSE << >>

Cropped(c) == IF CropIsDefault(c) THEN NoCrop ELSE [c EXCEPT !.gravity = Anchor(@)]

Applied(o) ==
    [o EXCEPT !.resizing_type       = EffectiveResizingType(o),
              !.gravity             = Anchor(o.gravity),
              !.crop                = Cropped(@),
              !.extend              = Padding(@),
              !.extend_aspect_ratio = Padding(@)]

AppliedOf == [list \in OptionLists |-> Applied(OptionsOf(list))]
AppliedOptions(list) ==
    IF list \in OptionLists THEN AppliedOf[list] ELSE Applied(OptionsOf(list))

\* A rendering is what the key has to identify.
IsRendered(u) ==
    CASE u.family = "file" -> FALSE
      [] u.family \in {"resize", "folder"} -> TRUE
      [] OTHER -> ~ Passthrough(OptionsOf(u.options), splitOutputFormat(u.name).format)

\* The rendering handleResize and handleParams ask the resizer for.
Rendering(u) ==
    LET w == Atoi(u.width)  h == Atoi(u.height)
        legacy == [pipeline |-> "legacy", width |-> 5120, height |-> 0, fit |-> "inside",
                   alpha |-> u.alpha, format |-> splitOutputFormat(u.name).format,
                   pages |-> "first", options |-> << >>]
    IN
    CASE u.family = "resize" ->
           [legacy EXCEPT !.width  = IF w = 0 /\ h = 0 THEN 5120 ELSE w,
                          !.height = h,
                          !.fit    = IF Version(u) = "1" THEN "cover" ELSE "contain"]
      [] u.family = "folder" -> legacy
      [] u.family \in {"param", "paramfile"} ->
           [legacy EXCEPT !.pipeline = "processing", !.width = 0, !.fit = "",
                          !.options = AppliedOptions(u.options)]
      [] u.family = "file" -> [legacy EXCEPT !.pipeline = "none", !.format = ""]

\* Two URLs that ask for the same image in the same rendering.
SameImage(u, v) == Rendering(u) = Rendering(v) /\ Candidates(u) = Candidates(v)
==============================================================================
