------------------------------ MODULE MCPhaseTree ------------------------------
(* Trees to check PhaseTree with.                                                *)
EXTENDS PhaseTree

Leaf0(m, x) == [mode |-> m, name |-> <<x>>, steps |-> <<>>, parts |-> <<>>]
Activity(x) == Leaf0("activity", x)
Child(x) == Leaf0("workflow", x)
FlowOf(x, r) == [Child(x) EXCEPT !.steps = <<r>>]
Composite(m, s) == [mode |-> m, name |-> <<>>, steps |-> s, parts |-> <<>>]
Pipe(s) == Composite("pipeline", s)
Par(s) == Composite("parallel", s)
Shard(x, p, h, names) == [mode |-> "shard", name |-> <<x>>, steps |-> <<p, h>>, parts |-> names]
XY == << <<"x">>, <<"y">> >>

(* An activity, then in parallel a pipeline with a child and another activity,   *)
(* then a flow.                                                                  *)
EtlTree == <<
  Pipe(<<2, 3, 8>>),
  Activity("a"),
  Par(<<4, 7>>),
  Pipe(<<5, 6>>), Child("b"), Activity("c"),
  Activity("d"),
  FlowOf("f", 9), Pipe(<<10, 11>>), Activity("g"), Activity("h") >>

(* A shard over flows, one partition without a name, each over an activity; in   *)
(* parallel a shard with a composite handler and a flow over a shard of children; *)
(* then a shard whose handler is a shard over activities.                        *)
ShardTree == <<
  Pipe(<<2, 6, 16>>),
  Shard("s", 3, 4, << <<"x">>, <<>> >>), Activity("p"), FlowOf("w", 5), Activity("e"),
  Par(<<7, 12>>),
  Shard("t", 8, 9, XY), Activity("q"), Pipe(<<10, 11>>), Activity("u"), Activity("v"),
  FlowOf("f", 13), Shard("k", 14, 15, XY), Activity("r"), Child("z"),
  Shard("m", 17, 18, XY), Activity("o"), Shard("n", 19, 20, XY), Activity("j"), Activity("i") >>

(* A composite handler that holds a child.                                       *)
HandlerChildTree == <<
  Shard("s", 2, 3, XY), Activity("p"),
  Pipe(<<4>>), Child("w") >>

(* A flow that runs a child and an activity in parallel: either it fails beside   *)
(* the child, or it is out of time while the child runs.                         *)
RetryTree == <<
  FlowOf("f", 2), Par(<<3, 4>>), Child("a"), Activity("b") >>
===============================================================================
