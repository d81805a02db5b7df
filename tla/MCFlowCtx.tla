------------------------------- MODULE MCFlowCtx -------------------------------
(* Inputs to check FlowCtx with: a map that both partitions replace, each by one *)
(* with another key, a number that only one partition has, and a name with a dot *)
(* that hides a field of another phase.                                          *)
EXTENDS FlowCtx

Number(n) == [type |-> "float64", n |-> n]
At(words, n) == Path(words) :> Number(n)
MCJobInput == (Path(<<"file">>) :> [type |-> "string", n |-> 0]) @@ At(<<"range", "from">>, 0)
MCCoords == << At(<<"range", "from">>, 1), At(<<"range", "to">>, 2) @@ At(<<"size">>, 3) >>
MCNames == << <<"a">>, <<"b">>, <<"b", "processed">>, <<"c">> >>
===============================================================================
