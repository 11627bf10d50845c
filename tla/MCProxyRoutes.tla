---------------------------- MODULE MCProxyRoutes ----------------------------
(***************************************************************************)
(* One request at a time, for a URL of every shape, over a fallback bucket *)
(* of the layout without tenants.  The keys are those UrlKeys builds, with *)
(* the candidate ladder cut to its first rung in either layout.  Every     *)
(* request is logged.                                                      *)
(***************************************************************************)
EXTENDS AccessLog, TLC

Cat      == "13/catalog/products/images/x.png"
Alt      == "13/images/products/x.png"
Old      == "catalog/products/images/x.png"
OldThumb == "1/products/100/0/x.png"
File     == "13/files/7/x.pdf"
GroupFile == "13-g/files/7/x.pdf"

ResizeUrl ==
    [shape |-> "resize", raw |-> "13/products/100/0/x.png", norm |-> "13/1/products/100/0/x.png",
     cands |-> <<Cat, Alt>>, opts |-> "100x0 cover", flaws |-> {}, pass |-> FALSE]

ParamUrl ==
    [ResizeUrl EXCEPT !.shape = "param", !.raw = "_p/sig/w:100/13/products/x.png",
                      !.norm = "13/_p/width=100/products/x.png", !.opts = "width=100"]

BadUrls == {[ParamUrl EXCEPT !.flaws = {"signature", "dimension"}],
            [ParamUrl EXCEPT !.flaws = {"option", "no source"}],
            [ParamUrl EXCEPT !.flaws = {"dimension", "tail"}]}

\* A group is part of the key of the copy, not of the original ...
FileUrl ==
    [shape |-> "file", raw |-> GroupFile, norm |-> GroupFile, cands |-> <<File>>,
     opts |-> AsIs, flaws |-> {}, pass |-> FALSE]

\* ... but a processing-option URL looks for its file under the key as spelled.
RawUrl == [FileUrl EXCEPT !.shape = "param", !.raw = "_p/sig/raw:1/13-g/files/7/x.pdf",
                          !.cands = <<GroupFile>>, !.pass = TRUE]

NoExtUrl == [FileUrl EXCEPT !.shape = "noext", !.cands = << >>]

\* The exact key of an original in the catalogue layout matches no pattern.
ExactUrl == [NoExtUrl EXCEPT !.shape = "other", !.raw = Cat, !.norm = Cat]

MCUrls == {ResizeUrl, ParamUrl, FileUrl, RawUrl, NoExtUrl, ExactUrl} \union BadUrls

MCKeys == UNION {{u.raw, u.norm} \union {u.cands[i] : i \in DOMAIN u.cands} : u \in MCUrls}
            \union {Old, OldThumb}

\* The stripped keys under which the fallback bucket may hold something.
MCStrip == [k \in MCKeys |-> CASE k = Cat -> Old
                               [] k = ResizeUrl.norm -> OldThumb
                               [] OTHER -> NoKey]

\* No batches run beside the requests of these runs.
MCPrepared == [k \in MCKeys |-> {}]
===============================================================================
