------------------------------ MODULE MCUrlPairs ------------------------------
(***************************************************************************)
(* All pairs of URLs over a few segments of each kind: plain and compound  *)
(* file names, with and without group, version, alpha and size, and option *)
(* lists that differ in one respect each.                                  *)
(***************************************************************************)
EXTENDS UrlPairs, MCTokens

MCNames == {<<"x", "png">>, <<"x", "png", "webp">>}

Box == Opt("size", <<"100", "50">>)

MCOptionLists ==
    {<< >>, <<Box>>,
     <<Opt("w", <<"100">>)>>,
     <<Opt("w", <<"50">>), Opt("width", <<"100">>), Opt("h", <<"50">>)>>,
     <<Opt("ex", <<"1">>), Opt("rs", <<"fill", "100", "50">>)>>,
     <<Opt("rs", <<"", "100", "50", "t", "1", "so">>)>>,
     <<Box, Opt("el", <<"1">>)>>,
     <<Box, Opt("ex", <<"1", "no">>)>>,
     <<Box, Opt("ex", <<"1", "fp", "0", "0">>)>>,
     <<Box, Opt("exar", <<"1">>)>>,
     <<Box, Opt("rt", <<"auto">>), Opt("g", <<"sm">>)>>,
     <<Box, Opt("rt", <<"fill">>), Opt("g", <<"fp", "0.5", "0.5">>)>>,
     <<Box, Opt("rt", <<"fill">>), Opt("g", <<"ce", "10">>)>>,
     <<Opt("c", <<"0.5">>)>>,
     <<Opt("c", <<"50", "0", "ea">>)>>,
     <<Opt("c", <<"50", "0", "ce", "10">>)>>,
     <<Opt("bg", <<"fff">>)>>,
     <<Opt("bg", <<"255", "0", "0">>)>>,
     <<Opt("skp", <<"webp", "gif">>)>>,
     <<Opt("raw", <<"1">>)>>}
==============================================================================
