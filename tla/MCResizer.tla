------------------------------ MODULE MCResizer ------------------------------
(***************************************************************************)
(* Small images of every orientation, one of them a sliver, through every  *)
(* resizing type, box, padding and crop; signed and unsigned requests of   *)
(* every shape under every signing configuration.                          *)
(***************************************************************************)
EXTENDS Resizer, MCTokens

Opt(name, args) == [name |-> name, args |-> args]

Part(parts) == Opt("", parts)

MCHexBytes == "aa" :> <<10>> @@ "bb" :> <<11>>

Env(key, salt, size, unsafe) == [key |-> key, salt |-> salt, size |-> size, unsafe |-> unsafe]

MCEnvironments ==
    {Env("aa", "bb", 0, FALSE), Env("aa", "bb", 10, TRUE), Env("", "", 0, TRUE),
     Env("", "", 0, FALSE), Env("aa", "", 0, FALSE), Env("aa", "zz", 0, FALSE), Env("aa", "bb", 33, FALSE)}

Verifiers == UNION {NewVerifier(env) : env \in MCEnvironments}

Picture(name) == <<Part(<<"13">>), Part(<<"products">>), Part(name)>>

-----------------------------------------------------------------------------
(* Geometry: these are signed by whichever deployment serves them          *)

Types == {"fit", "fill", "fill-down", "force", "auto"}

Boxes == {<<"3", "2">>, <<"6", "6">>, <<"2", "7">>, <<"10", "4">>, <<"4", "0">>, <<"0", "3">>}

Extras ==
    {<< >>, <<Opt("ex", <<"1">>)>>, <<Opt("ex", <<"1", "soea", "1", "-1">>)>>,
     <<Opt("exar", <<"1", "no">>)>>, <<Opt("ex", <<"1">>), Opt("exar", <<"1">>), Opt("bg", <<"f00">>)>>,
     <<Opt("g", <<"fp", "0.25", "1">>)>>, <<Opt("g", <<"sm">>), Opt("bg", <<"255", "0", "0">>)>>,
     <<Opt("g", <<"ea", "1.5", "2">>)>>}

Resizes ==
    {<<Opt("rs", <<t>> \o b \o <<e>>)>> \o x : t \in Types, b \in Boxes, e \in {"0", "1"}, x \in Extras}

Crops ==
    {<<Opt("c", c)>> \o b :
       c \in {<<"0.5", "0.25">>, <<"3", "0", "soea", "1">>, <<"2", "2", "fp", "0.25", "1">>,
              <<"2", "3", "sm">>, <<"0.001", "100">>, <<"100", "100">>},
       b \in {<< >>, <<Opt("s", <<"3", "2">>)>>, <<Opt("rs", <<"fill-down", "10", "4">>)>>}}

Signed(segments) == {[segments |-> segments, signature |-> digest(v, segments)] : v \in Verifiers}

Geometric ==
    UNION {Signed(list \o Picture(<<"x", f>>)) : list \in Resizes \union Crops, f \in {"jpg", "png"}}

-----------------------------------------------------------------------------
(* Gates                                                                   *)

Shapes ==
    {<< >>, <<Part(<<"13">>)>>, <<Opt("w", <<"3">>)>>, Picture(<<"x", "png">>), Picture(<<"x">>),
     Picture(<<"x", "pdf">>), <<Opt("w", <<"256">>)>> \o Picture(<<"x", "png">>),
     <<Opt("c", <<"256">>)>> \o Picture(<<"x", "png">>),
     <<Opt("x", <<"1">>)>> \o Picture(<<"x", "png">>), <<Opt("w", <<"-1">>)>> \o Picture(<<"x", "png">>),
     <<Opt("w", <<"1", "2">>)>> \o Picture(<<"x", "png">>), <<Opt("ex", <<"1", "sm">>)>> \o Picture(<<"x", "png">>),
     <<Opt("raw", <<"1">>)>> \o Picture(<<"x", "png">>), <<Opt("skp", <<"png">>)>> \o Picture(<<"x", "png">>),
     <<Part(<<"13">>), Opt("w", <<"3">>), Part(<<"x", "png">>)>>,
     <<Part(<<"13">>), Part(<<"files">>), Part(<<"x", "png">>)>>,
     <<Part(<<"13">>), Part(<<"files">>), Part(<<"7">>), Part(<<"x", "png">>)>>,
     <<Part(<<"13">>), Part(<<"products">>), Part(<<"7">>), Part(<<"x", "png">>)>>}

Elsewhere == <<Opt("w", <<"2">>)>> \o Picture(<<"x", "png">>)

Gated ==
    {[segments |-> s, signature |-> g] :
       s \in Shapes, g \in {Unsafe, Garbage} \union {digest(v, p) : v \in Verifiers, p \in {Elsewhere}}}
      \union UNION {Signed(s) : s \in Shapes}

MCRequests == Geometric \union Gated

MCLegacyJobs ==
    [w : {0, 3, 6, 10, 49}, h : {0, 2, 6, 49}, fit : {"contain", "cover", "inside"},
     alpha : {"auto", "keep", "flatten"}, format : {"png", "jpg"}]

Image(w, h, alpha, svg) == [w |-> w, h |-> h, alpha |-> alpha, svg |-> svg]

MCSources ==
    {Image(8, 4, FALSE, FALSE), Image(4, 8, TRUE, FALSE), Image(5, 5, TRUE, TRUE),
     Image(7, 3, TRUE, FALSE), Image(1, 49, FALSE, FALSE)}
==============================================================================
