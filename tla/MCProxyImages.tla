---------------------------- MODULE MCProxyImages ----------------------------
(***************************************************************************)
(* Two requests at a time for one image.  Its original may be in the       *)
(* catalogue layout or in the older one; the older key is also what a      *)
(* folder URL without a version spells out.  Every request is logged.      *)
(***************************************************************************)
EXTENDS AccessLog, TLC

Cat  == "13/catalog/products/images/x.png"
Alt  == "13/images/products/x.png"
Folder0 == "13/0/images/products/x.png"

FolderUrl ==
    [shape |-> "folder", raw |-> Alt, norm |-> Folder0, cands |-> <<Cat, Alt>>,
     opts |-> "5120 inside", flaws |-> {}, pass |-> FALSE]

NormalUrl == [FolderUrl EXCEPT !.raw = Folder0]

MCUrls == {FolderUrl, NormalUrl}
MCKeys == {Cat, Alt, Folder0}
MCStrip == [k \in MCKeys |-> "none"]
MCSymmetry == Permutations(Procs)

\* No batches run beside the requests of these runs.
MCPrepared == [k \in MCKeys |-> {}]
===============================================================================
