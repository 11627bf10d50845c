------------------------------ MODULE MCS3Store ------------------------------
(***************************************************************************)
(* Two goroutines over one tenant key and the key it strips to.            *)
(***************************************************************************)
EXTENDS S3Store, TLC

MCWritable == {[src |-> "13/a", ver |-> 1, opts |-> "small"]}

MCSymmetry == Permutations(Procs)

MCStrip == "13/a" :> "a" @@ "a" :> "none"
==============================================================================
