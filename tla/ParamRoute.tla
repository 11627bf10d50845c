----------------------------- MODULE ParamRoute -----------------------------
(***************************************************************************)
(* internal/server/params.go: what handleParams reads out of a /_p/ URL    *)
(* before anything is fetched.                                             *)
(*                                                                         *)
(* A path segment without the shape of an option is the record             *)
(* [name |-> "", args |-> its dot-separated parts].                        *)
(***************************************************************************)
EXTENDS ProcOpts

\* The output format is the last suffix; a compound suffix loses it, a plain
\* one keeps it as part of the source name.
splitOutputFormat(name) ==
    [path   |-> IF Len(name) > 2 THEN Front(name) ELSE name,
     format |-> IF Len(name) < 2 THEN "" ELSE Last(name)]

paramOutputFormats == {"png", "jpg", "jpeg", "webp", "avif"}

\* A passthrough is served as it is and never stored.
Passthrough(o, format) ==
    o.raw \/ SkipsFormat(o, format) \/ format \notin paramOutputFormats

OutputFormat(source) == splitOutputFormat(Last(source).args).format

\* parseSourceTail: tenant, folder and file, or tenant, "files", id and file;
\* without an extension there is no output format.
IsSourceTail(source) ==
    /\ Len(source) >= 3
    /\ OutputFormat(source) # ""
    /\ Len(source) = (IF source[2].args = <<"files">> THEN 4 ELSE 3)

\* The gates of handleParams in order, given whether the signature is good.
Verdict(segments, isSigned, maxDimension) ==
    LET options == ParseOptions(segments)
        source  == SourceOf(segments)
    IN  IF segments = << >> THEN 404
        ELSE IF ~ isSigned THEN 403
        ELSE IF options = {} THEN 400
        ELSE IF source = << >> THEN 404
        ELSE IF \E o \in options : ~ Validate(o, maxDimension) THEN 400
        ELSE IF ~ IsSourceTail(source) THEN 404
        ELSE 200
==============================================================================
