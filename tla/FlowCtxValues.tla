----------------------------- MODULE FlowCtxValues -----------------------------
(* What a FlowCtx promises (flowctx.go 8-17, 155-162): each is a value of its    *)
(* own, a copy of the one it was made from, with an input that never changes and *)
(* outputs that are only added to, through itself alone.                         *)
EXTENDS SequencesExt

CONSTANTS JobInput, Coords, Json(_)

VARIABLE val  \* val[c]: the input and the outputs of FlowCtx c

(* A key of new replaces that of old, with all that is under it.                 *)
Keys(m) == {p[1] : p \in DOMAIN m}
Over(new, old) ==
  [p \in DOMAIN new \cup {q \in DOMAIN old : q[1] \notin Keys(new)} |->
     IF p \in DOMAIN new THEN new[p] ELSE old[p]]

Init == val = <<[input |-> JobInput, outputs |-> <<>>]>>

(* The branches of a parallel.                                                   *)
Fork(c) == val' = val \o <<val[c], val[c]>>

(* A partition, its coordinates instead of the keys of the input they have.      *)
Enter(c) == \E i \in DOMAIN Coords : val' = Append(val, [val[c] EXCEPT !.input = Over(Coords[i], @)])

(* An execution unit gets its snapshot.                                          *)
Send(c) ==
  val' = Append(val, [input |-> Json(val[c].input), outputs |-> Json(val[c].outputs)])

(* Outputs are added: those of a phase, or of a branch.                          *)
Add(c) ==
  /\ DOMAIN val' = DOMAIN val /\ \A d \in DOMAIN val \ {c} : val'[d] = val[d]
  /\ val'[c].input = val[c].input
  /\ DOMAIN val[c].outputs \subseteq DOMAIN val'[c].outputs
  /\ Restrict(val'[c].outputs, DOMAIN val[c].outputs) = val[c].outputs

Next == \E c \in DOMAIN val : Fork(c) \/ Enter(c) \/ Send(c) \/ Add(c)

Spec == Init /\ [][Next]_val
===============================================================================
