----------------------------- MODULE MCJobService -----------------------------
(* Catalogs and parameters to check JobService with.                             *)
EXTENDS JobService

Phase(m, name) ==
  [mode |-> m, reg |-> name, steps |-> <<>>, subRoot |-> <<>>, partitioner |-> <<>>, handler |-> <<>>]
Activity(x) == Phase("activity", <<x>>)
Child(x) == Phase("workflow", <<x, "wf">>)
FlowOf(x, r) == [Phase("workflow", <<x, "flow-wf">>) EXCEPT !.subRoot = <<r>>]
Pipe(s) == [Phase("pipeline", <<>>) EXCEPT !.steps = s]
Shard(p, h) == [Phase("shard", <<>>) EXCEPT !.partitioner = <<p>>, !.handler = <<h>>]
Job(x, tree) == [name |-> x, nonIdentity |-> {"run"}, tree |-> tree]

Etl == Job("etl", <<Pipe(<<2>>), FlowOf("f", 3), Shard(4, 5), Activity("split"), Child("part")>>)
Report == Job("report", <<Activity("sum")>>)

(* Has a phase named like one of Etl.                                            *)
Copy == Job("copy", <<Pipe(<<2>>), Activity("split")>>)

MCCatalogs == {<<Etl, Report>>, <<Etl, Copy>>}

MCKeys == <<"date", "run", "zone">>
Str(t) == [type |-> "string", text |-> t]
Num(t) == [type |-> "int", text |-> t]
MCParams == {
  [date |-> Str(<<"1">>), zone |-> Str(<<"2">>), run |-> Str(<<"1">>)],
  [date |-> Str(<<"1">>), zone |-> Str(<<"2">>), run |-> Str(<<"2">>)],
  [date |-> Num(<<"1">>), zone |-> Num(<<"2">>)],
  [date |-> Str(<<"1", "&", "zone", "=", "2">>)],
  [run |-> Str(<<"1">>)] }
===============================================================================
