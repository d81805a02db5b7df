---------------------------- MODULE ChunkContract ----------------------------
(* What a chunk phase promises the orchestration above it, with no attempts,    *)
(* checkpoints or chunks in sight: accepted items are persisted in any order and *)
(* any grouping, the phase reports success only over a complete store and with   *)
(* the counts of the data, and it may give up.  An attempt nobody waits for any  *)
(* more may still persist items after the phase gave up, never after it          *)
(* completed.                                                                    *)
EXTENDS Integers, FiniteSets

CONSTANTS
  N,      \* number of items
  None    \* no counts reported

VARIABLES
  kind,    \* kind[i] \in {"ok", "nil", "bad"}: the data
  stored,  \* the accepted items persisted so far
  outcome, \* "running", "completed", "failed" or "cancelled"
  tally    \* the counts reported

cvars == <<kind, stored, outcome, tally>>

OfKind(k) == {i \in 1..N : kind[i] = k}

Exact == [processed |-> Cardinality(OfKind("ok")),
          filtered |-> Cardinality(OfKind("nil")),
          skipped |-> Cardinality(OfKind("bad"))]

Init ==
  /\ kind \in [1..N -> {"ok", "nil", "bad"}]
  /\ stored = {} /\ outcome = "running" /\ tally = None

Persist ==
  /\ outcome # "completed"
  /\ \E S \in SUBSET OfKind("ok") : stored' = stored \cup S
  /\ UNCHANGED <<kind, outcome, tally>>

Complete ==
  /\ outcome = "running" /\ stored = OfKind("ok")
  /\ outcome' = "completed" /\ tally' = Exact
  /\ UNCHANGED <<kind, stored>>

GiveUp ==
  /\ outcome = "running"
  /\ outcome' \in {"failed", "cancelled"}
  /\ UNCHANGED <<kind, stored, tally>>

Next == Persist \/ Complete \/ GiveUp

Spec == Init /\ [][Next]_cvars
==============================================================================
