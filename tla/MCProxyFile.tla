----------------------------- MODULE MCProxyFile -----------------------------
(***************************************************************************)
(* Requests for one file, whose URL spells out the key of its original,    *)
(* while the catalogue replaces that original.                             *)
(***************************************************************************)
EXTENDS ProxyServer

File == "13/files/7/x.pdf"

FileUrl == [shape |-> "file", raw |-> File, norm |-> File, cands |-> <<File>>,
            opts |-> AsIs, flaws |-> {}, pass |-> FALSE]

MCUrls == {FileUrl}
MCStrip == [k \in {File} |-> NoKey]

\* No batches run beside the requests of this run.
MCPrepared == [k \in {File} |-> {}]
==============================================================================
