-------------------------------- MODULE FlowCtx --------------------------------
(* The FlowCtx data passing of a workflow (batch/flowctx.go and its uses in      *)
(* batch/phase.go), with Go maps as references: what is copied, what is written  *)
(* in place, what crosses a process as JSON, and what a path reads.              *)
EXTENDS Integers, SequencesExt

CONSTANTS
  JobInput,  \* what the job was started with
  Coords,    \* the coordinates of the partitions of a shard
  Names,     \* the names of the phases, in the order they put
  Items,     \* how many items an activity processes
  MaxCtx     \* bound: FlowCtxs ever made

(* Go maps are flat functions from paths of keys to scalars, so that no map in   *)
(* them is empty.  A key is the words between its dots.  A scalar has its Go     *)
(* type.                                                                         *)
Scalar == [type : {"int", "float64", "string"}, n : Nat]
Key(word) == <<word>>
Path(words) == [i \in DOMAIN words |-> Key(words[i])]
IsMap(m) == \A p \in DOMAIN m : p \in Seq(Seq(STRING)) \ {<<>>} /\ m[p] \in Scalar

(* Every name is used once, as the comment at flowctx.go 165 presupposes.        *)
ASSUME FlowCtxAssumption ==
  /\ IsMap(JobInput)
  /\ Len(Coords) \in Nat \ {0} /\ DOMAIN Coords = 1..Len(Coords)
  /\ \A i \in DOMAIN Coords : IsMap(Coords[i])
  /\ Names \in Seq(Seq(STRING) \ {<<>>}) /\ IsInjective(Names)
  /\ Items \subseteq Nat /\ MaxCtx \in Nat

VARIABLES
  heap,    \* heap[r]: the Go map at reference r
  ctx,     \* ctx[c]: a FlowCtx, what it is for and what its input is made of
  put,     \* names put so far
  items    \* items[k]: items the partitions of the shard named k have processed

vars == <<heap, ctx, put, items>>

In(c) == heap[ctx[c].input]
Outs(c) == heap[ctx[c].outputs]
FlowCtxs == DOMAIN ctx

-------------------------------------------------------------------------------
(* Scalars and maps.                                                             *)

(* A key of new replaces that of old, with all that is under it.                 *)
Keys(m) == {p[1] : p \in DOMAIN m}
Over(new, old) ==
  [p \in DOMAIN new \cup {q \in DOMAIN old : q[1] \notin Keys(new)} |->
     IF p \in DOMAIN new THEN new[p] ELSE old[p]]

(* A number that went through JSON is a float64.                                 *)
Json(m) == [p \in DOMAIN m |-> IF m[p].type = "int" THEN [m[p] EXCEPT !.type = "float64"] ELSE m[p]]

(* Mutant: no case for float64.                                                  *)
asIntAnyNoFloat(v) == IF v.type = "int" THEN v.n ELSE 0
asIntAny(v) == IF v.type \in {"int", "float64"} THEN v.n ELSE 0
Field(m, p) == IF p \in DOMAIN m THEN asIntAny(m[p]) ELSE 0

Processed == <<Key("processed")>>
Skipped == <<Key("skipped")>>

(* The sums of the numbers at the top of the results.                            *)
Sum(results, p) ==
  LET sum[i \in 0..Len(results)] == IF i = 0 THEN 0 ELSE sum[i - 1] + Field(results[i], p)
  IN  sum[Len(results)]

aggregateShardResults(results) ==
  LET numbers == {p \in UNION {DOMAIN results[i] : i \in DOMAIN results} :
                    Len(p) = 1 /\ \E i \in DOMAIN results :
                                    p \in DOMAIN results[i] /\ results[i][p].type # "string"}
  IN  [p \in numbers \cup {Processed, Skipped} |-> [type |-> "int", n |-> Sum(results, p)]]

(* lookup: a phase of that very name, the input, a field of an output.           *)
Missing == [type |-> "missing", n |-> 0]
Map == [type |-> "map", n |-> 0]

lookupPath(root, words) ==
  IF Path(words) \in DOMAIN root THEN root[Path(words)]
  ELSE IF \E p \in DOMAIN root : IsStrictPrefix(Path(words), p) THEN Map ELSE Missing

lookup(c, words) ==
  IF \E p \in DOMAIN Outs(c) : p[1] = words THEN Map
  ELSE IF /\ Head(words) = "input" /\ Len(words) > 1
          /\ lookupPath(In(c), Tail(words)) # Missing
    THEN lookupPath(In(c), Tail(words))
    ELSE lookupPath(Outs(c), words)

-------------------------------------------------------------------------------
(* Operations on the heap.                                                       *)

(* Mutant: the maps are shared.                                                  *)
cloneSharing(h, c) == [heap |-> h, input |-> ctx[c].input, outputs |-> ctx[c].outputs]

(* A context of new maps, with the same contents.  The maps in them are shared:  *)
(* nothing writes into one, mergeCoords, Put and merge assign keys at the top.   *)
clone(h, c) ==
  [heap |-> h \o <<In(c), Outs(c)>>, input |-> Len(h) + 1, outputs |-> Len(h) + 2]

(* Mutant: maps under the same key are merged.                                   *)
mergeCoordsDeep(new, coords) == [new EXCEPT !.heap[new.input] = coords @@ @]
mergeCoords(new, coords) == [new EXCEPT !.heap[new.input] = Over(coords, @)]

Under(name, m) == [p \in {<<name>> \o q : q \in DOMAIN m} |-> m[Tail(p)]]
Put(c, name, m) == [heap EXCEPT ![ctx[c].outputs] = Over(Under(name, m), @)]

(* Mutant: the outputs are replaced.                                             *)
mergeReplacing(c, o) == [heap EXCEPT ![ctx[c].outputs] = Outs(o)]
merge(c, o) == [heap EXCEPT ![ctx[c].outputs] = Over(Outs(o), @)]

(* A FlowCtx made for c: the input of the job and the coordinates, outermost      *)
(* first, of the partitions around it; of the shard that runs in it, or for a     *)
(* partition of its own, the results so far and the items processed.              *)
For(new, kind, c, around) ==
  [input |-> new.input, outputs |-> new.outputs, kind |-> kind, up |-> c,
   around |-> around, st |-> "live", results |-> <<>>, items |-> 0]

Busy(c) == \E d \in FlowCtxs : ctx[d].up = c /\ ctx[d].st = "live"
Free(c) == ctx[c].st = "live" /\ ~Busy(c)
Room(n) == Len(ctx) + n <= MaxCtx
NextName == Names[put + 1]

Init ==
  /\ heap = <<JobInput, <<>>>>
  /\ ctx = <<For([input |-> 1, outputs |-> 2], "main", 0, <<JobInput>>)>>
  /\ put = 0 /\ items = <<>>

(* Two branches of a parallel.  A handler is a leaf here: what the aggregate of a *)
(* composite one takes from its FlowCtx is PhaseTree's Gain.                     *)
Fork(c) ==
  /\ Free(c) /\ ctx[c].kind # "handler" /\ Room(2)
  /\ LET a == clone(heap, c)
         b == clone(a.heap, c)
     IN  /\ heap' = b.heap
         /\ ctx' = ctx \o <<For(a, "branch", c, ctx[c].around), For(b, "branch", c, ctx[c].around)>>
  /\ UNCHANGED <<put, items>>

(* A branch ends.                                                                *)
Join(b) ==
  /\ Free(b) /\ ctx[b].kind = "branch"
  /\ heap' = merge(ctx[b].up, b)
  /\ ctx' = [ctx EXCEPT ![b].st = "joined"]
  /\ UNCHANGED <<put, items>>

(* A shard in c: each partition in turn.                                         *)
Enter(cs, c) ==
  LET i   == Len(cs[c].results) + 1
      new == mergeCoords(clone(heap, c), Coords[i])
  IN  /\ Room(1)
      /\ heap' = new.heap
      /\ ctx' = Append(cs, For(new, "handler", c, Append(cs[c].around, Coords[i])))
      /\ UNCHANGED <<put, items>>

StartShard(c) == Free(c) /\ ctx[c].kind # "handler" /\ Enter(ctx, c)

(* Partition h of c is done: its result is one of those so far.                  *)
Taken(c, h) ==
  [ctx EXCEPT ![h].st = "returned", ![c].results = @ \o ctx[h].results, ![c].items = @ + ctx[h].items]

Noted(name, n) == [k \in DOMAIN items \cup {name} |-> IF k = name THEN n ELSE items[k]]
EndShard(cs, c) ==
  /\ put < Len(Names) /\ put' = put + 1
  /\ heap' = Put(c, NextName, aggregateShardResults(cs[c].results))
  /\ ctx' = [cs EXCEPT ![c].results = <<>>, ![c].items = 0]
  /\ items' = Noted(NextName, cs[c].items)

StepShard(h) ==
  /\ Free(h) /\ ctx[h].kind = "handler" /\ ctx[h].results # <<>>
  /\ LET c  == ctx[h].up
         cs == Taken(c, h)
     IN  IF Len(cs[c].results) < Len(Coords) THEN Enter(cs, c) ELSE EndShard(cs, c)

(* An activity or a child workflow is given the FlowCtx ...                      *)
Send(c) ==
  /\ Free(c) /\ Room(1) /\ (ctx[c].kind = "handler" => ctx[c].results = <<>>)
  /\ heap' = heap \o <<Json(In(c)), Json(Outs(c))>>
  /\ ctx' = Append(ctx, For([input |-> Len(heap) + 1, outputs |-> Len(heap) + 2],
                            "remote", c, ctx[c].around))
  /\ UNCHANGED <<put, items>>

(* ... and returns m, having processed n items: the result of a partition, or    *)
(* the output of its phase.                                                      *)
Returns(r, m, n) ==
  /\ LET c == ctx[r].up
     IN  IF ctx[c].kind = "handler"
           THEN /\ ctx' = [ctx EXCEPT ![r].st = "returned", ![c].results = <<m>>, ![c].items = n]
                /\ UNCHANGED <<heap, put>>
           ELSE /\ put < Len(Names) /\ put' = put + 1
                /\ heap' = Put(c, NextName, m)
                /\ ctx' = [ctx EXCEPT ![r].st = "returned"]
  /\ UNCHANGED items

(* An activity, or a flow over one, returns what it did; a flow over several     *)
(* phases all that is in its FlowCtx.                                            *)
Remote(r) == Free(r) /\ ctx[r].kind = "remote"
Untouched(r) == Outs(r) = Json(Outs(ctx[r].up))

ActivityReturns(r) ==
  /\ Remote(r) /\ Untouched(r)
  /\ \E n \in Items : Returns(r, [p \in {Processed} |-> [type |-> "float64", n |-> n]], n)
FlowReturns(r) == Remote(r) /\ ~Untouched(r) /\ Returns(r, Json(Outs(r)), 0)

Next ==
  \E c \in FlowCtxs : \/ Fork(c) \/ Join(c) \/ StartShard(c) \/ StepShard(c)
                     \/ Send(c) \/ ActivityReturns(c) \/ FlowReturns(c)

Spec == Init /\ [][Next]_vars

-------------------------------------------------------------------------------
(* Properties.                                                                   *)

(* Every FlowCtx is a value of its own: no map is reached from two of them, what *)
(* is written in place (mergeCoords, Put, merge) is seen by no other, and no     *)
(* output is ever lost or replaced (flowctx.go 8-17, 155-162).                   *)
Values == INSTANCE FlowCtxValues
            WITH val <- [c \in FlowCtxs |-> [input |-> In(c), outputs |-> Outs(c)]]
ImplementsValues == Values!Spec

(* The outputs of all branches of a parallel are there when it has ended, in     *)
(* whichever order they ended, and those from before it.                         *)
Joined ==
  \A b \in FlowCtxs : ctx[b].st = "joined" =>
    \A p \in DOMAIN Outs(b) : p \in DOMAIN Outs(ctx[b].up) /\ Outs(ctx[b].up)[p] = Outs(b)[p]

(* A path of keys without dots, as it is written; names that do not hide input.x. *)
Plain(p) == \A i \in DOMAIN p : Len(p[i]) = 1
Words(p) == [i \in DOMAIN p |-> p[i][1]]
Unhidden == \A k \in DOMAIN Names : Head(Names[k]) # "input"

(* The innermost of the maps around that has key k.                              *)
Innermost(around, k, i) ==
  k \in Keys(around[i]) /\ \A j \in DOMAIN around : j > i => k \notin Keys(around[j])

(* An execution unit reads as input.x what the innermost partition around it     *)
(* that has the first key of x has there, else what the job's input has, and     *)
(* nothing where that one has nothing (phase.go 303, 594): never a value of      *)
(* another partition, whole or in part, through any clone and process between.   *)
Coordinates ==
  Unhidden =>
    \A c \in FlowCtxs : \A i \in DOMAIN ctx[c].around :
      LET around == ctx[c].around
      IN  \A p \in UNION {DOMAIN around[j] : j \in DOMAIN around} :
            Plain(p) /\ Innermost(around, p[1], i) =>
              lookup(c, <<"input">> \o Words(p)) \in
                {lookupPath(around[i], Words(p)), lookupPath(Json(around[i]), Words(p))}

(* Wherever the output of a shard is, in a branch, a process or the output of a  *)
(* flow, the path to its "processed" reads the items its partitions processed,   *)
(* if no name in the way has a dot (numbers are integers: int(n) truncates each).*)
Totals ==
  Unhidden =>
    \A c \in FlowCtxs : (\A p \in DOMAIN Outs(c) : Plain(p)) =>
      \A p \in DOMAIN Outs(c) :
        Last(p) = Key("processed") /\ p[Len(p) - 1] \in DOMAIN items =>
          asIntAny(lookup(c, Words(p))) = items[p[Len(p) - 1]]
===============================================================================
