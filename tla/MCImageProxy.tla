----------------------------- MODULE MCImageProxy -----------------------------
(***************************************************************************)
(* Requests and batches, one of each at a time, for one image.  Both sides *)
(* make its version 3 rendering in the same way and its version 1          *)
(* rendering in different ones.  SIZES holds a row that kills the process, *)
(* and the batches of version 1 leave their sizes to it.                   *)
(***************************************************************************)
EXTENDS ImageProxy

Image == <<"39", "catalog", "x.png">>
Thumb(version) == <<"39", version, 200, 0, "x.png", "jpg">>
Url3 == [shape |-> "resize", raw |-> Thumb(3), norm |-> Thumb(3), cands |-> <<Image>>,
         opts |-> <<200, 0, "jpg", "first page">>, flaws |-> {}, pass |-> FALSE]

Url1 == [Url3 EXCEPT !.raw = Thumb(1), !.norm = Thumb(1), !.opts = <<200, 0, "jpg", "first page", "cover">>]

MCUrls == {Url3, Url1}

Trigger3 ==
    [authorized |-> TRUE, decodes |-> TRUE, client |-> "39", version |-> "",
     images |-> <<Image>>, sizes |-> << <<200, 0>> >>, formats |-> <<"jpg">>]

Trigger1 == [Trigger3 EXCEPT !.version = "1", !.sizes = << >>]

MCTriggers == {Trigger3, Trigger1}
MCEnvSizes == {<< <<200, 0>>, <<200>> >>}
MCDefaultSizes == << <<200, 0>> >>
MCAtoi == [s \in {"1"} |-> 1]
MCLower == [f \in {"jpg"} |-> f]
MCBase == [k \in {Image} |-> k[3]]

MCRerendered == <<"rerendered">>
Paged(opts) == [opts EXCEPT ![4] = "all pages"]
MCOptions == {Url3.opts, Url1.opts, Paged(Url3.opts), Paged(Url1.opts), MCRerendered}
MCAllPages == [o \in MCOptions \ {MCRerendered} |-> Paged(o)]
MCAsIs == << >>
MCKeys == {Image, Thumb(3), Thumb(1)}
MCCatalog == {Image}
MCNoKey == << >>
MCStrip == [k \in MCKeys |-> MCNoKey]

\* What the two sides make of the image, key by key (SharingAssumption).
Made(opts) == [src : {Image}, ver : 0 .. MaxVersion, opts : {opts}]
MCPrepared == [k \in MCKeys |-> IF k = Image THEN {} ELSE Made(Paged(Url3.opts))]
MCFiled == [k \in MCKeys |-> CASE k = Image    -> Made(MCAsIs)
                               [] k = Url3.raw -> Made(Url3.opts)
                               [] k = Url1.raw -> Made(Url1.opts)]
===============================================================================
