----------------------------- MODULE ExecInstances -----------------------------
(* The reader, processor and writer of a chunk phase over several calls of its   *)
(* activity (NewChunkPhase, batch/phase.go): attempts, zombies, partitions and   *)
(* jobs on one worker call the same closure, at any time.  A role given as a     *)
(* factory has an instance per call; one given as an instance has that one for   *)
(* all calls.  What implements io.Closer is closed at the end of a call.         *)
EXTENDS Integers

CONSTANTS
  MaxCalls,  \* bound: calls of the activity
  MaxFaults  \* bound: factories, loops and Close calls that fail

ASSUME ExecInstancesAssumption == MaxCalls \in Nat \ {0} /\ MaxFaults \in Nat

Call == 1..MaxCalls

(* The order roles are resolved in, and closed in: closeExecInstances goes       *)
(* through its arguments (w, p, r) from the last to the first.                   *)
Order == <<"reader", "processor", "writer">>
Role == {"reader", "processor", "writer"}

VARIABLES
  factory, closer,  \* the roles given as factories; those that implement io.Closer
  pc,               \* pc[c]: <<step of call c, role it is at>>
  res,              \* res[c]: what call c returned, or the error it will return
  closes,           \* closes[x]: how often Close was called on instance x
  bad,              \* bad[c]: everything that went wrong in call c, reported or not
  faults

vars == <<factory, closer, pc, res, closes, bad, faults>>

(* Mutant: the instance a factory made is kept for the next call.                *)
InstKept(c, r) == <<r, 0>>

(* The instance call c has in role r.                                            *)
Inst(c, r) == IF r \in factory THEN <<r, c>> ELSE <<r, 0>>
Instances == Role \X (0..MaxCalls)

Init ==
  /\ factory \in SUBSET Role /\ closer \in SUBSET Role
  /\ pc = [c \in Call |-> <<"idle", 0>>]
  /\ res = [c \in Call |-> "none"]
  /\ closes = [x \in Instances |-> 0]
  /\ bad = [c \in Call |-> {}]
  /\ faults = 0

At(c, step) == pc[c][1] = step
RoleAt(c) == Order[pc[c][2]]
GoTo(c, step, i) == pc' = [pc EXCEPT ![c] = <<step, i>>]
Goes(c, what) == /\ faults < MaxFaults /\ faults' = faults + 1
                 /\ bad' = [bad EXCEPT ![c] = @ \cup {what}]
Fine == UNCHANGED <<bad, faults>>

Begin(c) ==
  /\ At(c, "idle") /\ GoTo(c, "resolve", 1)
  /\ Fine /\ UNCHANGED <<factory, closer, res, closes>>

(* A factory makes an instance, or there is one already.                         *)
Resolve(c) ==
  /\ At(c, "resolve")
  /\ IF pc[c][2] = 3 THEN GoTo(c, "loop", 0) ELSE GoTo(c, "resolve", pc[c][2] + 1)
  /\ Fine /\ UNCHANGED <<factory, closer, res, closes>>

(* A factory fails: the call returns, whatever the others have opened.           *)
FactoryFails(c) ==
  /\ At(c, "resolve") /\ RoleAt(c) \in factory
  /\ Goes(c, "factory") /\ GoTo(c, "done", 0)
  /\ res' = [res EXCEPT ![c] = "factory"]
  /\ UNCHANGED <<factory, closer, closes>>

(* runChunkLoop and the Results of writer and processor use all three.           *)
LoopEnds(c) ==
  /\ At(c, "loop") /\ GoTo(c, "close", 1)
  /\ Fine /\ UNCHANGED <<factory, closer, res, closes>>

LoopFailsTo(c, step) ==
  /\ At(c, "loop") /\ GoTo(c, step, 1)
  /\ Goes(c, "loop")
  /\ res' = [res EXCEPT ![c] = "loop"]
  /\ UNCHANGED <<factory, closer, closes>>

(* Mutant: the error is returned at once.                                        *)
LoopFailsAtOnce(c) == LoopFailsTo(c, "done")
LoopFails(c) == LoopFailsTo(c, "close")

(* A panic of a reader, processor or writer is recovered by the SDK, above the   *)
(* activity: nothing is closed.                                                  *)
Panics(c) ==
  /\ At(c, "loop") /\ GoTo(c, "done", 0)
  /\ Goes(c, "panic")
  /\ res' = [res EXCEPT ![c] = "panic"]
  /\ UNCHANGED <<factory, closer, closes>>

Counted(c) == IF RoleAt(c) \in closer THEN [closes EXCEPT ![Inst(c, RoleAt(c))] = @ + 1] ELSE closes
CloseUpTo(c, last) ==
  /\ At(c, "close")
  /\ closes' = Counted(c)
  /\ IF pc[c][2] < last THEN GoTo(c, "close", pc[c][2] + 1) /\ UNCHANGED res
     ELSE GoTo(c, "done", 0) /\ res' = [res EXCEPT ![c] = IF @ = "none" THEN "ok" ELSE @]
  /\ Fine /\ UNCHANGED <<factory, closer>>

(* Mutant: one too far.                                                          *)
CloseTooFar(c) == CloseUpTo(c, 4)

(* closeExecInstances: one role closed, or nothing to close; the last one ends   *)
(* the call.                                                                     *)
Close(c) == CloseUpTo(c, 3)

CloseFailsWith(c, err) ==
  /\ At(c, "close") /\ RoleAt(c) \in closer
  /\ closes' = Counted(c)
  /\ Goes(c, "close") /\ GoTo(c, "done", 0)
  /\ res' = [res EXCEPT ![c] = err]
  /\ UNCHANGED <<factory, closer>>

(* Mutant: the error of Close replaces that of the loop.                         *)
CloseErrFirst(c) == CloseFailsWith(c, "close")

(* Close fails: the rest stays open; the error is returned unless the loop has   *)
(* failed already.                                                               *)
CloseFails(c) == CloseFailsWith(c, IF res[c] = "none" THEN "close" ELSE res[c])

TypeOK ==
  /\ factory \subseteq Role /\ closer \subseteq Role
  /\ pc \in [Call -> ({"idle", "loop", "done"} \X (0..1)) \cup ({"resolve", "close"} \X (1..3))]
  /\ res \in [Call -> {"none", "ok", "factory", "loop", "panic", "close"}]
  /\ closes \in [Instances -> Nat]
  /\ bad \in [Call -> SUBSET {"factory", "loop", "panic", "close"}]
  /\ faults \in 0..MaxFaults

Next ==
  \E c \in Call :
    \/ Begin(c) \/ Resolve(c) \/ FactoryFails(c)
    \/ LoopEnds(c) \/ LoopFails(c) \/ Panics(c)
    \/ Close(c) \/ CloseFails(c)

Spec == Init /\ [][Next]_vars

-------------------------------------------------------------------------------
(* Properties.                                                                   *)

Own(c) == {Inst(c, r) : r \in Role}

(* What a call works with has not been closed, by itself or by another call that *)
(* overlaps or preceded it (types.go 22, 41: instances are shared by executions) *)
UsableInLoop == \A c \in Call : At(c, "loop") => \A x \in Own(c) : closes[x] = 0

(* ... if what is shared has no Close; then nothing is closed twice either.      *)
Lifetimes ==
  closer \subseteq factory => UsableInLoop /\ \A x \in Instances : closes[x] <= 1

(* What a call has opened is closed when it returns, after errors of the loop    *)
(* too; only a failing factory, a failing Close or a panic leave something open. *)
NothingLeftOpen ==
  \A c \in Call :
    At(c, "done") /\ bad[c] \subseteq {"loop"} =>
      \A r \in closer \cap factory : closes[Inst(c, r)] = 1

(* A call succeeds only if nothing went wrong, and the error it returns is that  *)
(* of the loop, if there is one: whether the activity is retried and what its    *)
(* caller sees depends on it (phase.go 165).                                     *)
ErrorReported ==
  \A c \in Call : At(c, "done") =>
    /\ res[c] = "ok" <=> bad[c] = {}
    /\ "loop" \in bad[c] => res[c] = "loop"
===============================================================================
