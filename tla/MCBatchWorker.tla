---------------------------- MODULE MCBatchWorker ----------------------------
(***************************************************************************)
(* Two batches at a time over two images with one file name.  One trigger  *)
(* spells out a size, the other leaves it to SIZES and repeats a format:   *)
(* all their outputs share one key.  SIZES is empty, or has a row without  *)
(* a height after a good one.                                              *)
(***************************************************************************)
EXTENDS BatchWorker, TLC

ImageA == <<"cat", "a", "x.png">>
ImageB == <<"cat", "b", "x.png">>
MCBase == [k \in {ImageA, ImageB} |-> k[3]]
Thumb(w, h, f) == <<"39", 3, w, h, "x.png", f>>

Given ==
    [authorized |-> TRUE, decodes |-> TRUE, client |-> "39", version |-> "",
     images |-> <<ImageA, ImageB>>, sizes |-> << <<200, 0>> >>, formats |-> <<"JPG">>]

LeftToEnv == [Given EXCEPT !.version = "03", !.images = <<ImageA>>, !.sizes = << >>,
                           !.formats = <<"JPG", "JPG">>]

Bad == {[Given EXCEPT !.authorized = FALSE, !.client = ""],
        [Given EXCEPT !.decodes = FALSE],
        [Given EXCEPT !.formats = <<"JPG", "gif">>],
        [Given EXCEPT !.sizes = << <<200, 0>>, <<200>> >>],
        [Given EXCEPT !.sizes = << <<-1, 0>> >>],
        [Given EXCEPT !.version = "v3"]}

MCTriggers == {Given, LeftToEnv} \union Bad
MCEnvSizes == {<< >>, << <<200, 0>>, <<200>> >>}
MCDefaultSizes == << <<200, 0>> >>
MCAtoi == [s \in {"3", "03"} |-> 3]
MCLower == [f \in {"JPG", "gif"} |-> IF f = "JPG" THEN "jpg" ELSE f]

MCOptions == {<<200, 0, "jpg", "all pages">>, <<"rerendered">>}
MCRerendered == <<"rerendered">>
MCAsIs == << >>
MCKeys == {ImageA, ImageB, Thumb(200, 0, "JPG")}
MCCatalog == {ImageA, ImageB}
MCNoKey == << >>
MCStrip == [k \in MCKeys |-> MCNoKey]
MCSymmetry == Permutations(Procs)

\* No requests are served beside the batches of these runs.
MCFiled == [k \in MCKeys |-> {}]
==============================================================================
