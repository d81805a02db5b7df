---------------------------- MODULE PhaseTreeProof ----------------------------
(* Proofs about the phase tree, for every tree, safe or not, every client and    *)
(* any number of runs, attempts and failures.                                    *)
EXTENDS PhaseTreeNodes

-------------------------------------------------------------------------------
(* What becomes of the executions of children in one step.                       *)

Executions == DOMAIN exec = ChildIds

(* An execution that completed stays what it is.                                 *)
Kept ==
  /\ DOMAIN exec' = ChildIds
  /\ \A id \in ChildIds : exec[id].status = "completed" => exec'[id] = exec[id]

LEMMA Untouched == Executions /\ UNCHANGED exec => Kept
BY DEF Executions, Kept

LEMMA OneTouched ==
  ASSUME Executions, NEW i, exec[i].status # "completed", NEW e, exec' = [exec EXCEPT ![i] = e]
  PROVE  Kept
BY DEF Executions, Kept

(* The workflow that fails is the one that runs the phase (phase.go 264, 408).   *)
LEMMA FailsKeeps ==
  ASSUME Executions, NEW d, d = Main \/ Running(d), Fails(d)
  PROVE  Kept
<1>1. CASE d = Main
  BY <1>1, Untouched DEF Fails
<1>2. CASE d # Main
  <2>1. exec[Id[d]].status # "completed"
    BY <1>2 DEF Running
  <2>2. \E e : exec' = [exec EXCEPT ![Id[d]] = e]
    BY <1>2 DEF Fails
  <2>3. QED
    BY <2>1, <2>2, OneTouched
<1>3. QED
  BY <1>1, <1>2

(* The step of a phase that starts a child is under the reuse policy, and a      *)
(* phase whose error closes a workflow runs in one that is not closed.           *)
LEMMA PhaseKeeps ==
  ASSUME Executions, NEW a \in Active, Run(a) \/ ExtractFails(a)
  PROVE  Kept
<1>1. CASE StartPipeline(a) \/ StepPipeline(a) \/ StartParallel(a) \/ \E b \in Subs(a) : JoinParallel(a, b)
  BY <1>1, Untouched DEF StartPipeline, StepPipeline, StepPipelineTo, StartParallel, JoinParallel, JoinThen
<1>2. CASE StartShard(a) \/ Partitioned(a) \/ StepShard(a) \/ ScheduleActivity(a) \/ ChildReturns(a)
  BY <1>2, Untouched DEF StartShard, Partitioned, StepShard, StepShardWith, ScheduleActivity, ChildReturns
<1>3. CASE StartChild(a)
  <2>1. CASE exec[Id[a]].status \in {"running", "completed"}
    BY <1>3, <2>1, Untouched DEF StartChild, StartChildUnder, SkipChild
  <2>2. CASE exec[Id[a]].status \notin {"running", "completed"}
    <3>1. \E e : exec' = [exec EXCEPT ![Id[a]] = e]
      BY <1>3, <2>2 DEF StartChild, StartChildUnder
    <3>2. QED
      BY <2>2, <3>1, OneTouched
  <2>3. QED
    BY <2>1, <2>2
<1>4. CASE ExtractFails(a) \/ ChildErrs(a)
  <2>1. Fails(Dom[a]) /\ Alive(Dom[a])
    BY <1>4 DEF ExtractFails, IsShard, ChildErrs, Ended, At
  <2>2. QED
    BY <2>1, FailsKeeps DEF Alive
<1>5. QED
  BY <1>1, <1>2, <1>3, <1>4 DEF Run

LEMMA ActivityKeeps ==
  ASSUME Executions, NEW t \in tasks, ActivityCompletes(t) \/ ActivityFails(t)
  PROVE  Kept
<1>1. CASE UNCHANGED exec
  BY <1>1, Untouched
<1>2. CASE ActivityFails(t) /\ Awaited(t)
  <2>1. Fails(Dom[t.act]) /\ Alive(Dom[t.act])
    BY <1>2 DEF ActivityFails, ActivityFailsWith, Awaited, At
  <2>2. QED
    BY <2>1, FailsKeeps DEF Alive
<1>3. QED
  BY <1>1, <1>2 DEF ActivityCompletes, ActivityFails, ActivityFailsWith

(* An execution ends, or is terminated, while it runs.                           *)
LEMMA ChildKeeps ==
  ASSUME Executions, NEW id \in ChildIds,
         ChildCompletes(id) \/ ChildFails(id) \/ FlowCompletes(id) \/ Terminate(id)
  PROVE  Kept
<1>1. exec[id].status = "running"
  BY DEF ChildCompletes, ChildFails, HandWritten, FlowCompletes, Terminate, Orphan
<1>2. \E e : exec' = [exec EXCEPT ![id] = e]
  BY DEF ChildCompletes, ChildFails, FlowCompletes, Terminate
<1>3. QED
  BY <1>1, <1>2, OneTouched

LEMMA StepKeeps == Executions /\ [Next]_vars => Kept
<1> SUFFICES ASSUME Executions, [Next]_vars PROVE Kept
  OBVIOUS
<1>1. CASE \E a \in Active : Run(a) \/ ExtractFails(a)
  BY <1>1, PhaseKeeps
<1>2. CASE \E t \in tasks : ActivityCompletes(t) \/ ActivityFails(t)
  BY <1>2, ActivityKeeps
<1>3. CASE \E id \in ChildIds : ChildCompletes(id) \/ ChildFails(id) \/ FlowCompletes(id) \/ Terminate(id)
  BY <1>3, ChildKeeps
<1>4. CASE Complete \/ Rerun \/ UNCHANGED vars
  BY <1>4, Untouched DEF Complete, Rerun, vars
<1>5. CASE Abort \/ \E d \in Children : FlowTimesOut(d)
  BY <1>5, FailsKeeps DEF Abort, FlowTimesOut
<1>6. QED
  BY <1>1, <1>2, <1>3, <1>4, <1>5 DEF Next

(* A child that completed is never run again, over all runs of the job and all   *)
(* attempts of its flows (phase.go 622-633).                                     *)
THEOREM CompletedNotRunAgain == Spec => CompletedKept
<1>1. Init => Executions
  BY DEF Init, Executions
<1>2. Executions /\ [Next]_vars => Executions'
  BY StepKeeps DEF Kept, Executions
<1>3. Executions /\ [Next]_vars =>
        \A id \in ChildIds : exec[id].status = "completed" => exec'[id] = exec[id]
  BY StepKeeps DEF Kept
<1>4. Spec => []Executions
  BY <1>1, <1>2, PTL DEF Spec
<1>5. QED
  BY <1>3, <1>4, PTL DEF Spec, CompletedKept

-------------------------------------------------------------------------------
Fields == {"st", "at", "val", "sum", "skips", "fc"}
Frames == DOMAIN frame = Act /\ \A a \in Act : DOMAIN frame[a] = Fields
Execs ==
  /\ DOMAIN exec = ChildIds
  /\ \A id \in ChildIds :
       /\ DOMAIN exec[id] = {"status", "epoch", "act", "in"}
       /\ exec[id].status # "absent" => /\ exec[id].act \in Children /\ Id[exec[id].act] = id
                                        /\ exec[id].epoch \in Seq(Nat) /\ exec[id].epoch # <<>>
                                        /\ Last(exec[id].epoch) > 0
Tasks == \A t \in tasks : t.act \in Act /\ Mode(t.act[1]) = "activity"
Shape == Frames /\ Execs /\ Tasks /\ run \in Nat

(* A phase that called another; a child whose execution runs.                    *)
Busy(a) == frame[a].st = "busy"
Runs(x) == exec[Id[x]].status = "running"

(* The step of a pipeline or shard that it is at, if any, is the one that is active. *)
AtStep ==
  \A a \in Act : Busy(a) =>
    /\ Mode(a[1]) = "pipeline" =>
         /\ frame[a].at \in 1..Len(Tree[a[1]].steps)
         /\ \A b \in Calls(a) : b \in Active => b = Step(a, frame[a].at)
    /\ Mode(a[1]) = "shard" =>
         /\ frame[a].at \in 0..Partitions(a)
         /\ \A b \in Calls(a) : b \in Active => b = IF frame[a].at = 0 THEN Step(a, 1) ELSE HandlerOf(a, frame[a].at)
CallersBusy ==
  \A a, b \in Act : b \in Active /\ AtOrBelow(b, a) /\ a # b /\ Dom[a] = Dom[b] => Busy(a)
DeadIdle == \A a \in Active : Alive(Dom[a])
Stack == AtStep /\ CallersBusy /\ DeadIdle

(* What a step leaves of the other frames: all, or a returned callee is consumed. *)
Same(b) == frame'[b].st = frame[b].st /\ frame'[b].at = frame[b].at
Released(b) == frame[b].st = "ok" /\ frame'[b].st = "idle"
Others(S) == \A b \in Act \ S : Same(b) \/ Released(b)

(* Activation a calls C, or goes on to it.                                       *)
CallsNow(a, C) ==
  /\ a \in Active /\ Alive(Dom[a]) /\ Mode(a[1]) # "workflow" /\ Calls(a) \cap Active = {}
  /\ C \subseteq Calls(a)
  /\ frame'[a].st = "busy" /\ \A c \in C : frame'[c].st = "called"
  /\ Others(C \cup {a})
  /\ Mode(a[1]) = "pipeline" =>
       frame'[a].at \in 1..Len(Tree[a[1]].steps) /\ C = {Step(a, frame'[a].at)}
  /\ Mode(a[1]) = "shard" =>
       frame'[a].at \in 0..Partitions(a) /\ C = {IF frame'[a].at = 0 THEN Step(a, 1) ELSE HandlerOf(a, frame'[a].at)}
  /\ UNCHANGED <<status, exec>>

(* Activation a returns to its caller.                                           *)
Returned(a) ==
  /\ a \in Active /\ Alive(Dom[a])
  /\ Mode(a[1]) # "workflow" => Calls(a) \cap Active = {}
  /\ Mode(a[1]) = "workflow" => exec[Id[a]].status = "completed"
  /\ frame'[a].st = "ok" /\ Others({a})
  /\ UNCHANGED <<status, exec>>

(* Frames as the code makes them.                                                *)
LEMMA Records ==
  /\ Idle.st = "idle" /\ Called.st = "called" /\ \A ctx : CalledWith(ctx).st = "called"
  /\ DOMAIN Idle = Fields /\ DOMAIN Called = Fields /\ \A ctx : DOMAIN CalledWith(ctx) = Fields
BY DEF Idle, Called, CalledWith, Fields

(* A phase that is not busy has called nothing that is still active.             *)
LEMMA InactiveCalls ==
  ASSUME Stack, NEW a \in Act, Mode(a[1]) # "workflow", ~Busy(a)
  PROVE  Calls(a) \cap Active = {}
<1> SUFFICES ASSUME NEW c \in Calls(a), c \in Active PROVE FALSE
  OBVIOUS
<1>1. c \in Act /\ AtOrBelow(c, a) /\ c # a /\ Dom[c] = Dom[a]
  BY CallFacts, DomCalls DEF Flow
<1>2. QED
  BY <1>1 DEF Stack, CallersBusy

(* Nothing has two callers.                                                      *)
LEMMA OneCaller ==
  ASSUME NEW a \in Act, NEW b \in Act, NEW c \in Calls(a), c \in Calls(b)
  PROVE  a = b
<1>1. c \in Act /\ AtOrBelow(c, a) /\ Parent[c[1]] = a[1]
  BY CallFacts
<1>2. AtOrBelow(c, b) /\ Parent[c[1]] = b[1]
  BY CallFacts
<1>3. QED
  BY <1>1, <1>2, UpIs

(* Two activations below each other are one.                                     *)
LEMMA Antisymmetric ==
  ASSUME NEW a \in Act, NEW b \in Act, AtOrBelow(b, a), AtOrBelow(a, b)
  PROVE  a = b
<1>1. b[1] >= a[1] /\ b[1] \in Nat /\ a[1] \in Nat /\ (b[1] = a[1] => b = a)
  BY BelowSameNode
<1>2. a[1] >= b[1]
  BY BelowSameNode
<1>3. QED
  BY <1>1, <1>2

(* What is above a call is above the caller.                                     *)
LEMMA AboveCall ==
  ASSUME NEW a \in Act, NEW c \in Calls(a), NEW e \in Act, AtOrBelow(c, e), c # e
  PROVE  AtOrBelow(a, e)
<1>1. c \in Act /\ AtOrBelow(c, a) /\ Parent[c[1]] = a[1] /\ a[1] \in Node /\ e[1] \in Node
  BY CallFacts, ActFacts
<1>2. c[1] # e[1] /\ c[1] \in Desc[e[1]]
  BY <1>1, BelowSameNode DEF AtOrBelow
<1>3. a[1] \in Desc[e[1]]
  BY <1>1, <1>2, DescParent
<1>4. Up(a, e[1]) = Up(c, e[1])
  BY <1>1, <1>3, UpUp
<1>5. Up(c, e[1]) = e
  BY <1>1, UpIs
<1>6. QED
  BY <1>1, <1>3, <1>4, <1>5, UpAct

(* The first step of a flow is the top of its workflow.                          *)
LEMMA TopOfFlow ==
  ASSUME NEW d \in Act, Flow(d[1]), NEW s \in Calls(d), NEW e \in Act, Dom[e] = d, AtOrBelow(s, e)
  PROVE  e = s
<1> SUFFICES ASSUME e # s PROVE FALSE
  OBVIOUS
<1>1. AtOrBelow(d, e)
  BY AboveCall
<1>2. d[1] >= e[1] /\ d[1] \in Nat /\ e[1] \in Nat
  BY <1>1, BelowSameNode
<1>3. d[1] < e[1]
  BY NotMain, DomFacts
<1>4. QED
  BY <1>2, <1>3

(* What a child workflow calls: a flow its one step, in its own workflow.        *)
LEMMA FlowCalls ==
  ASSUME NEW d \in Act, Mode(d[1]) = "workflow"
  PROVE  /\ Subs(d) = Calls(d)
         /\ Flow(d[1]) => /\ Calls(d) = {Step(d, 1)} /\ Step(d, 1) \in Act /\ Dom[Step(d, 1)] = d
                          /\ Step(d, 1) # d
         /\ ~Flow(d[1]) => Calls(d) = {} /\ \A a \in Act : Dom[a] # d
<1>1. Calls(d) = Subs(d) /\ Calls(d) = IF Flow(d[1]) THEN {Step(d, 1)} ELSE {}
  BY StepCalls
<1>2. ASSUME Flow(d[1]) PROVE Step(d, 1) \in Calls(d)
  BY <1>1, <1>2
<1>3. ASSUME Flow(d[1]) PROVE Step(d, 1) \in Act /\ Dom[Step(d, 1)] = d /\ Step(d, 1) # d
  BY <1>2, <1>3, CallFacts, DomCalls
<1>4. \A a \in Act : Dom[a] = d => Flow(d[1])
  BY NotMain, DomFacts
<1>5. QED
  BY <1>1, <1>3, <1>4

(* Nothing runs below a phase that called nothing that runs.                     *)
LEMMA NoneBelow ==
  ASSUME CallersBusy, NEW a \in Act, Mode(a[1]) # "workflow", Calls(a) \cap Active = {},
         NEW b \in Active, AtOrBelow(b, a), Dom[b] = Dom[a]
  PROVE  b = a
<1> SUFFICES ASSUME b # a PROVE FALSE
  OBVIOUS
<1>1. b \in Act
  BY DEF Active
<1>2. PICK c \in Calls(a) : AtOrBelow(b, c)
  BY <1>1, BelowSplit
<1>3. c \in Act /\ Dom[c] = Dom[a]
  BY CallFacts, DomCalls DEF Flow
<1>4. b # c
  BY <1>2
<1>5. Busy(c)
  BY <1>1, <1>2, <1>3, <1>4 DEF CallersBusy
<1>6. QED
  BY <1>3, <1>5 DEF Busy, Active

(* IDs tell children apart.                                                      *)
LEMMA OneExecution ==
  ASSUME SafeTree, Execs, NEW d \in Children
  PROVE  /\ d \in Act /\ Id[d] \in ChildIds
         /\ exec[Id[d]].status # "absent" => exec[Id[d]].act = d
         /\ Running(d) <=> Runs(d)
         /\ \A e \in Children : Id[e] = Id[d] => e = d
BY DEF SafeTree, Execs, Running, Runs, Children, ChildIds

-------------------------------------------------------------------------------
(* All that there is to do at and below a has been done.                         *)
Finished(a) ==
  \A w \in Act : AtOrBelow(w, a) /\ Leaf(w[1]) =>
    /\ ~Flow(w[1]) => w \in done
    /\ w \in Children => exec[Id[w]].status = "completed"
BusyFin(a) ==
  /\ Mode(a[1]) = "pipeline" => \A j \in 1..(frame[a].at - 1) : Finished(Step(a, j))
  /\ Mode(a[1]) = "parallel" => \A b \in Calls(a) : frame[b].st = "idle" => Finished(b)
  /\ Mode(a[1]) = "shard" /\ frame[a].at > 0 =>
       /\ Finished(Step(a, 1))
       /\ \A i \in 1..(frame[a].at - 1) : Finished(HandlerOf(a, i))
FinOk == \A a \in Act : frame[a].st = "ok" => Finished(a)
FinExec == \A x \in Children : exec[Id[x]].status = "completed" => Finished(x)
FinBusy == \A a \in Act : Busy(a) => BusyFin(a)
Fin == FinOk /\ FinExec /\ FinBusy

(* The effect of a phase on its own workflow (phase.go 320-615): it returns with  *)
(* its work done, it calls with what came before done, or it consumes a result.  *)
Steady == UNCHANGED <<status, exec>> /\ done \subseteq done'
Quiet == Steady /\ Others({})
Effect(a) ==
  /\ Frames' /\ Steady
  /\ \/ Returned(a) /\ (Fin => Finished(a)')
     \/ \E C : CallsNow(a, C) /\ (Fin => BusyFin(a)')
     \/ Quiet

(* What is done stays done.                                                      *)
LEMMA SteadyFinished == Steady => \A a : Finished(a) => Finished(a)'
BY DEF Steady, Finished

(* A phase is finished when all that it calls is.                                *)
LEMMA FinishedFromCalls ==
  ASSUME NEW a \in Act, ~Leaf(a[1]), \A c \in Calls(a) : Finished(c)
  PROVE  Finished(a)
<1> SUFFICES ASSUME NEW w \in Act, AtOrBelow(w, a), Leaf(w[1])
             PROVE  /\ ~Flow(w[1]) => w \in done
                    /\ w \in Children => exec[Id[w]].status = "completed"
  BY DEF Finished
<1>1. w # a
  OBVIOUS
<1>2. PICK c \in Calls(a) : AtOrBelow(w, c)
  BY <1>1, BelowSplit
<1>3. Finished(c)
  OBVIOUS
<1>4. QED
  BY <1>2, <1>3 DEF Finished

(* What it means that a is at st.                                                *)
LEMMA Here ==
  ASSUME Shape, NEW a \in Act, NEW st, At(a, st)
  PROVE  /\ a[1] \in Node /\ frame[a].st = st /\ Alive(Dom[a])
         /\ DOMAIN frame = Act /\ DOMAIN frame[a] = Fields /\ \A b \in Act : DOMAIN frame[b] = Fields
BY ActFacts DEF At, Shape, Frames

(* The calls of a phase that is not a shard are its steps, each once.            *)
LEMMA Steps ==
  ASSUME NEW a \in Act, Mode(a[1]) # "shard"
  PROVE  /\ Len(Tree[a[1]].steps) \in Nat /\ Calls(a) = Subs(a)
         /\ \A j \in 1..Len(Tree[a[1]].steps) : Step(a, j) \in Calls(a) /\ Step(a, j) \in Act /\ Step(a, j) # a
         /\ \A i, j \in 1..Len(Tree[a[1]].steps) : Step(a, i) = Step(a, j) => i = j
         /\ \A c \in Calls(a) : \E j \in 1..Len(Tree[a[1]].steps) : c = Step(a, j)
         /\ \A c \in Calls(a) : c \in Act /\ c # a
         /\ Kids(a[1]) # {} => 1 \in 1..Len(Tree[a[1]].steps)
         /\ Kids(a[1]) = {} => Calls(a) = {}
<1>1. /\ Len(Tree[a[1]].steps) \in Nat /\ Calls(a) = Subs(a) /\ a[1] \in Node
      /\ Calls(a) = {Step(a, j) : j \in 1..Len(Tree[a[1]].steps)} /\ (Kids(a[1]) = {} => Subs(a) = {})
  BY StepCalls, ActFacts
<1>2. \A c \in Calls(a) : c \in Act /\ c # a
  BY CallFacts
<1>3. \A i, j \in 1..Len(Tree[a[1]].steps) : Step(a, i) = Step(a, j) => i = j
  BY <1>1, StepFacts DEF Step, Sub
<1>4. Kids(a[1]) # {} => 1 \in 1..Len(Tree[a[1]].steps)
  BY <1>1, StepFacts
<1>5. QED
  BY <1>1, <1>2, <1>3, <1>4

(* Each step of Phase.run has such an effect.  A pipeline (phase.go 383-411).    *)
LEMMA StartPipelineIs ==
  ASSUME Shape, Stack, NEW a \in Active, StartPipeline(a)
  PROVE  Effect(a)
<1>1. a \in Act /\ Mode(a[1]) = "pipeline" /\ At(a, "called") /\ Steady
  BY DEF StartPipeline, Active, Steady
<1>2. /\ a[1] \in Node /\ frame[a].st = "called" /\ Alive(Dom[a]) /\ UNCHANGED <<status, exec>>
      /\ DOMAIN frame = Act /\ DOMAIN frame[a] = Fields /\ \A b \in Act : DOMAIN frame[b] = Fields
  BY <1>1, Here DEF Steady
<1>3. Calls(a) \cap Active = {}
  BY <1>1, <1>2, InactiveCalls DEF Busy
<1>4. CASE Kids(a[1]) = {}
  <2>1. frame' = [frame EXCEPT ![a].st = "ok"]
    BY <1>4 DEF StartPipeline
  <2>2. Frames' /\ Returned(a)
    BY <1>1, <1>2, <1>3, <2>1 DEF Frames, Returned, Others, Same, Released, Fields
  <2>3. Finished(a)
    BY <1>1, <1>4, Steps, FinishedFromCalls DEF Leaf
  <2>4. QED
    BY <1>1, <2>2, <2>3, SteadyFinished DEF Effect
<1>5. CASE Kids(a[1]) # {}
  <2>1. frame' = [frame EXCEPT ![a].st = "busy", ![a].at = 1, ![Step(a, 1)] = Called]
    BY <1>5 DEF StartPipeline
  <2>2. 1 \in 1..Len(Tree[a[1]].steps) /\ Step(a, 1) \in Calls(a) /\ Step(a, 1) \in Act /\ Step(a, 1) # a
    BY <1>1, <1>5, Steps
  <2>3. frame'[a].st = "busy" /\ frame'[a].at = 1 /\ frame'[Step(a, 1)].st = "called"
        /\ \A b \in Act \ {a, Step(a, 1)} : frame'[b] = frame[b]
    <3>1. frame'[a].st = "busy" /\ frame'[a].at = 1
      BY <1>1, <1>2, <2>1, <2>2 DEF Fields
    <3>2. frame'[Step(a, 1)].st = "called"
      BY <1>2, <2>1, <2>2, Records
    <3>3. \A b \in Act \ {a, Step(a, 1)} : frame'[b] = frame[b]
      BY <1>2, <2>1, <2>2
    <3>4. QED
      BY <3>1, <3>2, <3>3
  <2>4. Frames'
    BY <1>2, <2>1, <2>2, Records DEF Frames, Fields
  <2>5. CallsNow(a, {Step(a, 1)})
    BY <1>1, <1>2, <1>3, <2>2, <2>3 DEF CallsNow, Others, Same, Released
  <2>6. BusyFin(a)'
    BY <1>1, <2>3 DEF BusyFin
  <2>7. QED
    BY <1>1, <2>4, <2>5, <2>6 DEF Effect
<1>6. QED
  BY <1>4, <1>5

(* The next step of a pipeline, or its end.                                      *)
LEMMA StepPipelineIs ==
  ASSUME Shape, Stack, NEW a \in Active, StepPipeline(a)
  PROVE  Effect(a)
<1> DEFINE L == Len(Tree[a[1]].steps)
           k == frame[a].at
<1>1. a \in Act /\ Mode(a[1]) = "pipeline" /\ At(a, "busy") /\ Steady /\ frame[Step(a, k)].st = "ok"
  BY DEF StepPipeline, StepPipelineTo, Active, Steady
<1>2. /\ a[1] \in Node /\ frame[a].st = "busy" /\ Alive(Dom[a]) /\ UNCHANGED <<status, exec>>
      /\ DOMAIN frame = Act /\ DOMAIN frame[a] = Fields /\ \A b \in Act : DOMAIN frame[b] = Fields
  BY <1>1, Here DEF Steady
<1>3. k \in 1..L /\ L \in Nat /\ \A b \in Calls(a) : b \in Active => b = Step(a, k)
  BY <1>1, <1>2, Steps DEF Stack, AtStep, Busy
<1>4. Calls(a) \cap Active = {}
  BY <1>1, <1>3 DEF Active
<1>5. Step(a, k) \in Calls(a) /\ Step(a, k) \in Act
  BY <1>1, <1>3, Steps
<1>6. ASSUME Fin PROVE \A j \in 1..k : Finished(Step(a, j))
  <2>1. \A j \in 1..(k - 1) : Finished(Step(a, j))
    BY <1>1, <1>2, <1>6 DEF Fin, FinBusy, BusyFin, Busy
  <2>2. Finished(Step(a, k))
    BY <1>1, <1>5, <1>6 DEF Fin, FinOk
  <2>3. \A j \in 1..k : j = k \/ j \in 1..(k - 1)
    BY <1>3
  <2>4. QED
    BY <2>1, <2>2, <2>3
<1>7. CASE k + 1 > L
  <2>1. frame' = [frame EXCEPT ![a].st = "ok"]
    BY <1>7 DEF StepPipeline, StepPipelineTo
  <2>2. Frames' /\ Returned(a)
    BY <1>1, <1>2, <1>4, <2>1 DEF Frames, Returned, Others, Same, Released, Fields
  <2>3. ASSUME Fin PROVE Finished(a)
    <3>1. k = L
      BY <1>3, <1>7
    <3>2. \A c \in Calls(a) : Finished(c)
      BY <1>1, <1>6, <2>3, <3>1, Steps
    <3>3. QED
      BY <1>1, <3>2, FinishedFromCalls DEF Leaf
  <2>4. QED
    BY <1>1, <2>2, <2>3, SteadyFinished DEF Effect
<1>8. CASE ~(k + 1 > L)
  <2> DEFINE s == Step(a, k + 1)
  <2>1. frame' = [frame EXCEPT ![a].at = k + 1, ![s] = Called]
    BY <1>8 DEF StepPipeline, StepPipelineTo
  <2>2. k + 1 \in 1..L
    BY <1>3, <1>8
  <2>3. s \in Calls(a) /\ s \in Act /\ s # a
    BY <1>1, <2>2, Steps
  <2> HIDE DEF s
  <2>4. frame'[a].st = "busy" /\ frame'[a].at = k + 1 /\ frame'[s].st = "called"
        /\ \A b \in Act \ {a, s} : frame'[b] = frame[b]
    <3>1. frame'[a].st = "busy" /\ frame'[a].at = k + 1
      BY <1>1, <1>2, <2>1, <2>3 DEF Fields
    <3>2. frame'[s].st = "called"
      BY <1>2, <2>1, <2>3, Records
    <3>3. \A b \in Act \ {a, s} : frame'[b] = frame[b]
      BY <1>2, <2>1, <2>3
    <3>4. QED
      BY <3>1, <3>2, <3>3
  <2>5. Frames'
    BY <1>2, <2>1, <2>3, Records DEF Frames, Fields
  <2>6. frame'[a].at \in 1..L /\ {s} = {Step(a, frame'[a].at)}
    BY <2>2, <2>4 DEF s
  <2>7. CallsNow(a, {s})
    BY <1>1, <1>2, <1>4, <2>3, <2>4, <2>6 DEF CallsNow, Others, Same, Released
  <2>8. ASSUME Fin PROVE BusyFin(a)'
    <3>1. frame'[a].at - 1 = k
      BY <1>3, <2>4
    <3>2. \A j \in 1..k : Finished(Step(a, j))'
      BY <1>1, <1>6, <2>8, SteadyFinished
    <3>3. QED
      BY <1>1, <3>1, <3>2 DEF BusyFin
  <2>9. QED
    BY <1>1, <2>5, <2>7, <2>8 DEF Effect
<1>9. QED
  BY <1>7, <1>8

(* The calls of a shard: its partitioner, and the handler of each partition.     *)
LEMMA ShardCalls ==
  ASSUME NEW a \in Act, Mode(a[1]) = "shard"
  PROVE  /\ Partitions(a) \in Nat
         /\ Step(a, 1) \in Calls(a) /\ Step(a, 1) \in Act /\ Step(a, 1) # a
         /\ Partitioner(Step(a, 1)[1]) /\ Step(a, 1)[1] \in Node \ {1}
         /\ \A i \in 1..Partitions(a) : /\ HandlerOf(a, i) \in Calls(a) /\ HandlerOf(a, i) \in Act
                                        /\ HandlerOf(a, i) # a
         /\ \A c \in Calls(a) : c = Step(a, 1) \/ \E i \in 1..Partitions(a) : c = HandlerOf(a, i)
<1>1. Partitions(a) \in Nat /\ a[1] \in Node
  BY PartitionsAre, ActFacts
<1>2. Calls(a) = {Step(a, 1)} \cup {HandlerOf(a, i) : i \in 1..Partitions(a)}
  BY DEF Calls
<1>3. Step(a, 1)[1] = Tree[a[1]].steps[1]
  BY DEF Step, Sub
<1>4. Partitioner(Step(a, 1)[1]) /\ Step(a, 1)[1] \in Kids(a[1])
  BY <1>1, <1>3, ShardSteps
<1>5. Step(a, 1)[1] \in Node \ {1}
  BY <1>1, <1>4, KidFacts
<1>6. \A c \in Calls(a) : c \in Act /\ c # a
  BY CallFacts
<1>7. QED
  BY <1>1, <1>2, <1>4, <1>5, <1>6

(* A parallel (phase.go 424-458): its branches are called together.              *)
LEMMA StartParallelIs ==
  ASSUME Shape, Stack, NEW a \in Active, StartParallel(a)
  PROVE  Effect(a)
<1>1. a \in Act /\ Mode(a[1]) = "parallel" /\ At(a, "called") /\ Steady
  BY DEF StartParallel, Active, Steady
<1>2. /\ a[1] \in Node /\ frame[a].st = "called" /\ Alive(Dom[a]) /\ UNCHANGED <<status, exec>>
      /\ DOMAIN frame = Act /\ DOMAIN frame[a] = Fields /\ \A b \in Act : DOMAIN frame[b] = Fields
  BY <1>1, Here DEF Steady
<1>3. Calls(a) \cap Active = {}
  BY <1>1, <1>2, InactiveCalls DEF Busy
<1>4. Calls(a) = Subs(a) /\ Calls(a) \subseteq Act \ {a}
  BY <1>1, Steps
<1>5. frame' = [b \in Act |-> IF b \in Calls(a) THEN CalledWith(Ctx(a))
                             ELSE IF b # a THEN frame[b]
                             ELSE [frame[a] EXCEPT !.st = IF Calls(a) = {} THEN "ok" ELSE "busy"]]
  BY <1>4 DEF StartParallel
<1>6. /\ \A c \in Calls(a) : frame'[c] = CalledWith(Ctx(a))
      /\ \A b \in Act \ (Calls(a) \cup {a}) : frame'[b] = frame[b]
      /\ frame'[a] = [frame[a] EXCEPT !.st = IF Calls(a) = {} THEN "ok" ELSE "busy"]
      /\ DOMAIN frame' = Act
  BY <1>1, <1>4, <1>5
<1>7. Frames'
  BY <1>1, <1>2, <1>6, Records DEF Frames, Fields
<1>8. Others(Calls(a) \cup {a}) /\ \A c \in Calls(a) : frame'[c].st = "called"
  BY <1>6, Records DEF Others, Same
<1>9. frame'[a].st = (IF Calls(a) = {} THEN "ok" ELSE "busy")
  BY <1>2, <1>6 DEF Fields
<1>10. CASE Calls(a) = {}
  <2>1. Returned(a)
    BY <1>1, <1>2, <1>3, <1>8, <1>9, <1>10 DEF Returned
  <2>2. Finished(a)'
    BY <1>1, <1>10, FinishedFromCalls, SteadyFinished DEF Leaf
  <2>3. QED
    BY <1>1, <1>7, <2>1, <2>2 DEF Effect
<1>11. CASE Calls(a) # {}
  <2>1. CallsNow(a, Calls(a))
    BY <1>1, <1>2, <1>3, <1>8, <1>9, <1>11 DEF CallsNow
  <2>2. BusyFin(a)'
    BY <1>1, <1>8 DEF BusyFin
  <2>3. QED
    BY <1>1, <1>7, <2>1, <2>2 DEF Effect
<1>12. QED
  BY <1>10, <1>11

(* A branch of a parallel ends (phase.go 459-480).                               *)
LEMMA JoinParallelIs ==
  ASSUME Shape, Stack, NEW a \in Active, NEW b \in Subs(a), JoinParallel(a, b)
  PROVE  Effect(a)
<1> DEFINE last == \A c \in Subs(a) \ {b} : frame[c].st = "idle"
<1>1. a \in Act /\ Mode(a[1]) = "parallel" /\ At(a, "busy") /\ Steady /\ frame[b].st = "ok"
  BY DEF JoinParallel, JoinThen, Active, Steady
<1>2. /\ a[1] \in Node /\ frame[a].st = "busy" /\ Alive(Dom[a]) /\ UNCHANGED <<status, exec>>
      /\ DOMAIN frame = Act /\ DOMAIN frame[a] = Fields /\ \A c \in Act : DOMAIN frame[c] = Fields
  BY <1>1, Here DEF Steady
<1>3. Calls(a) = Subs(a) /\ Calls(a) \subseteq Act \ {a} /\ b \in Act /\ b # a
  BY <1>1, Steps
<1>4. frame' = [frame EXCEPT ![Own[a]].fc = Merge(@, frame[b].fc),
                            ![b] = Idle,
                            ![a].st = IF last THEN "ok" ELSE "busy"]
  BY DEF JoinParallel, JoinThen
<1>5. DOMAIN frame' = Act /\ \A c \in Act : DOMAIN frame'[c] = Fields
  BY <1>2, <1>3, <1>4, Records DEF Fields
<1>6. \A c \in Act \ {a, b} : frame'[c].st = frame[c].st /\ frame'[c].at = frame[c].at
  BY <1>2, <1>3, <1>4 DEF Fields
<1>7. frame'[b].st = "idle"
  BY <1>2, <1>3, <1>4, Records DEF Fields
<1>8. frame'[a].at = frame[a].at /\ frame'[a].st = IF last THEN "ok" ELSE "busy"
  BY <1>1, <1>2, <1>3, <1>4 DEF Fields
<1>9. Frames' /\ Others({a})
  BY <1>1, <1>5, <1>6, <1>7 DEF Frames, Others, Same, Released
<1>10. CASE last
  <2>1. Calls(a) \cap Active = {}
    BY <1>1, <1>3, <1>10 DEF Active
  <2>2. Returned(a)
    BY <1>1, <1>2, <1>8, <1>9, <1>10, <2>1 DEF Returned
  <2>3. ASSUME Fin PROVE Finished(a)'
    <3>1. \A c \in Calls(a) : frame[c].st = "idle" => Finished(c)
      BY <1>1, <1>2, <2>3 DEF Fin, FinBusy, BusyFin, Busy
    <3>2. Finished(b)
      BY <1>1, <1>3, <2>3 DEF Fin, FinOk
    <3>3. \A c \in Calls(a) : Finished(c)
      BY <1>3, <1>10, <3>1, <3>2
    <3>4. QED
      BY <1>1, <3>3, FinishedFromCalls, SteadyFinished DEF Leaf
  <2>4. QED
    BY <1>1, <1>9, <2>2, <2>3 DEF Effect
<1>11. CASE ~last
  <2>1. Same(a)
    BY <1>2, <1>8, <1>11 DEF Same
  <2>2. Quiet
    BY <1>1, <1>9, <2>1 DEF Quiet, Others
  <2>3. QED
    BY <1>1, <1>9, <2>2 DEF Effect
<1>12. QED
  BY <1>10, <1>11

(* A shard calls its partitioner first (phase.go 493-501).                       *)
LEMMA StartShardIs ==
  ASSUME Shape, Stack, NEW a \in Active, StartShard(a)
  PROVE  Effect(a)
<1> DEFINE s == Step(a, 1)
<1>1. a \in Act /\ Mode(a[1]) = "shard" /\ At(a, "called") /\ Steady
  BY DEF StartShard, IsShard, Active, Steady
<1>2. /\ a[1] \in Node /\ frame[a].st = "called" /\ Alive(Dom[a]) /\ UNCHANGED <<status, exec>>
      /\ DOMAIN frame = Act /\ DOMAIN frame[a] = Fields /\ \A b \in Act : DOMAIN frame[b] = Fields
  BY <1>1, Here DEF Steady
<1>3. Calls(a) \cap Active = {}
  BY <1>1, <1>2, InactiveCalls DEF Busy
<1>4. frame' = [frame EXCEPT ![a].st = "busy", ![a].at = 0, ![s] = Called]
  BY DEF StartShard
<1>5. s \in Calls(a) /\ s \in Act /\ s # a /\ Partitions(a) \in Nat
  BY <1>1, ShardCalls
<1> HIDE DEF s
<1>6. frame'[a].st = "busy" /\ frame'[a].at = 0
  BY <1>1, <1>2, <1>4, <1>5 DEF Fields
<1>7. frame'[s].st = "called" /\ \A b \in Act \ {a, s} : frame'[b] = frame[b]
  BY <1>2, <1>4, <1>5, Records
<1>8. Frames'
  BY <1>2, <1>4, <1>5, Records DEF Frames, Fields
<1>9. 0 \in 0..Partitions(a) /\ {s} = {IF frame'[a].at = 0 THEN Step(a, 1) ELSE HandlerOf(a, frame'[a].at)}
  BY <1>5, <1>6 DEF s
<1>10. CallsNow(a, {s})
  BY <1>1, <1>2, <1>3, <1>5, <1>6, <1>7, <1>9 DEF CallsNow, Others, Same, Released
<1>11. BusyFin(a)'
  BY <1>1, <1>6 DEF BusyFin
<1>12. QED
  BY <1>1, <1>8, <1>10, <1>11 DEF Effect
(* The output of an activity is never that of a skipped child.                   *)
Unskipped == \A a \in Act : Mode(a[1]) = "activity" => frame[a].val # Skipped

(* The aggregate is put, and the shard returns.                                  *)
LEMMA PutAggIs ==
  ASSUME Frames, NEW a \in Act, NEW k, NEW s, PutAgg(a, k, s)
  PROVE  Frames' /\ frame'[a].st = "ok" /\ Others({a})
<1>1. frame' = [frame EXCEPT ![a].st = "ok",
                             ![Own[a]].fc = Put(@, a[1], [tag |-> "agg", n |-> k, skips |-> s])]
  BY DEF PutAgg
<1>2. DOMAIN frame = Act /\ \A b \in Act : DOMAIN frame[b] = Fields
  BY DEF Frames
<1>3. DOMAIN frame' = Act /\ \A b \in Act : DOMAIN frame'[b] = Fields
  BY <1>1, <1>2 DEF Fields
<1>4. frame'[a].st = "ok"
  BY <1>1, <1>2 DEF Fields
<1>5. \A b \in Act \ {a} : frame'[b].st = frame[b].st /\ frame'[b].at = frame[b].at
  BY <1>1, <1>2 DEF Fields
<1>6. QED
  BY <1>3, <1>4, <1>5 DEF Frames, Others, Same

(* The partitions are known; the first handler is called (phase.go 503-540).     *)
LEMMA PartitionedIs ==
  ASSUME SafeTree, Shape, Stack, Unskipped, NEW a \in Active, Partitioned(a)
  PROVE  Effect(a)
<1> DEFINE s == Step(a, 1)
           h == HandlerOf(a, 1)
<1>1. a \in Act /\ Mode(a[1]) = "shard" /\ At(a, "busy") /\ Steady /\ frame[s].st = "ok" /\ frame[a].at = 0
  BY DEF Partitioned, IsShard, Active, Steady
<1>2. /\ a[1] \in Node /\ frame[a].st = "busy" /\ Alive(Dom[a]) /\ UNCHANGED <<status, exec>>
      /\ DOMAIN frame = Act /\ DOMAIN frame[a] = Fields /\ \A b \in Act : DOMAIN frame[b] = Fields
  BY <1>1, Here DEF Steady
<1>3. s \in Calls(a) /\ s \in Act /\ s # a /\ Partitioner(s[1]) /\ s[1] \in Node \ {1} /\ Partitions(a) \in Nat
  BY <1>1, ShardCalls
<1>4. \A b \in Calls(a) : b \in Active => b = s
  BY <1>1, <1>2 DEF Stack, AtStep, Busy
<1>5. Calls(a) \cap Active = {}
  BY <1>1, <1>4 DEF Active
<1>6. frame[s].val # Skipped
  BY <1>3 DEF Unskipped, SafeTree
<1>7. Fin => Finished(s)
  BY <1>1, <1>3 DEF Fin, FinOk
<1>8. CASE Partitions(a) = 0
  <2>1. PutAgg(a, 0, 0)
    BY <1>8 DEF Partitioned
  <2>2. Frames' /\ frame'[a].st = "ok" /\ Others({a})
    BY <1>1, <2>1, PutAggIs DEF Shape
  <2>3. Returned(a)
    BY <1>1, <1>2, <1>5, <2>2 DEF Returned
  <2>4. Calls(a) = {s}
    BY <1>1, <1>3, <1>8, ShardCalls
  <2>5. Fin => Finished(a)'
    BY <1>1, <1>7, <2>4, FinishedFromCalls, SteadyFinished DEF Leaf
  <2>6. QED
    BY <1>1, <2>2, <2>3, <2>5 DEF Effect
<1>9. CASE Partitions(a) # 0
  <2>1. frame' = [frame EXCEPT ![a].at = 1, ![h] = CalledWith(Ctx(a))]
    BY <1>6, <1>9 DEF Partitioned
  <2>2. 1 \in 1..Partitions(a) /\ 1 \in 0..Partitions(a)
    BY <1>3, <1>9
  <2>3. h \in Calls(a) /\ h \in Act /\ h # a
    BY <1>1, <2>2, ShardCalls
  <2> HIDE DEF h, s
  <2>4. frame'[a].st = "busy" /\ frame'[a].at = 1
    BY <1>1, <1>2, <2>1, <2>3 DEF Fields
  <2>5. frame'[h].st = "called" /\ \A b \in Act \ {a, h} : frame'[b] = frame[b]
    BY <1>2, <2>1, <2>3, Records
  <2>6. Frames'
    BY <1>2, <2>1, <2>3, Records DEF Frames, Fields
  <2>7. {h} = {IF frame'[a].at = 0 THEN Step(a, 1) ELSE HandlerOf(a, frame'[a].at)}
    BY <2>4 DEF h
  <2>8. CallsNow(a, {h})
    BY <1>1, <1>2, <1>5, <2>2, <2>3, <2>4, <2>5, <2>7 DEF CallsNow, Others, Same, Released
  <2>9. Fin => BusyFin(a)'
    <3>1. Fin => Finished(Step(a, 1))'
      BY <1>1, <1>7, SteadyFinished DEF s
    <3>2. 1..(frame'[a].at - 1) = {}
      BY <2>4
    <3>3. QED
      BY <1>1, <3>1, <3>2 DEF BusyFin
  <2>10. QED
    BY <1>1, <2>6, <2>8, <2>9 DEF Effect
<1>10. QED
  BY <1>8, <1>9

(* The next partition of a shard, or its end.                                    *)
LEMMA StepShardIs ==
  ASSUME Shape, Stack, NEW a \in Active, StepShard(a)
  PROVE  Effect(a)
<1> DEFINE i == frame[a].at
           h == HandlerOf(a, i)
           g == HandlerOf(a, i + 1)
           P == Partitions(a)
<1>1. a \in Act /\ Mode(a[1]) = "shard" /\ At(a, "busy") /\ Steady /\ frame[h].st = "ok" /\ i > 0
  BY DEF StepShard, StepShardWith, IsShard, Active, Steady
<1>2. /\ a[1] \in Node /\ frame[a].st = "busy" /\ Alive(Dom[a]) /\ UNCHANGED <<status, exec>>
      /\ DOMAIN frame = Act /\ DOMAIN frame[a] = Fields /\ \A b \in Act : DOMAIN frame[b] = Fields
  BY <1>1, Here DEF Steady
<1>3. P \in Nat /\ i \in 0..P /\ \A b \in Calls(a) : b \in Active => b = IF i = 0 THEN Step(a, 1) ELSE h
  BY <1>1, <1>2, ShardCalls DEF Stack, AtStep, Busy
<1>4. i \in 1..P /\ i # 0
  BY <1>1, <1>3
<1>5. h \in Calls(a) /\ h \in Act /\ h # a
  BY <1>1, <1>4, ShardCalls
<1>6. Calls(a) \cap Active = {}
  BY <1>1, <1>3, <1>4 DEF Active
<1>7. ASSUME Fin PROVE Finished(Step(a, 1)) /\ \A j \in 1..i : Finished(HandlerOf(a, j))
  <2>1. Finished(Step(a, 1)) /\ \A j \in 1..(i - 1) : Finished(HandlerOf(a, j))
    BY <1>1, <1>2, <1>7 DEF Fin, FinBusy, BusyFin, Busy
  <2>2. Finished(HandlerOf(a, i))
    BY <1>1, <1>5, <1>7 DEF Fin, FinOk
  <2>3. \A j \in 1..i : j = i \/ j \in 1..(i - 1)
    BY <1>4
  <2>4. QED
    BY <2>1, <2>2, <2>3
<1>8. CASE i = P
  <2>1. \E k, l : PutAgg(a, k, l)
    BY <1>8 DEF StepShard, StepShardWith
  <2>2. Frames' /\ frame'[a].st = "ok" /\ Others({a})
    BY <1>1, <2>1, PutAggIs DEF Shape
  <2>3. Returned(a)
    BY <1>1, <1>2, <1>6, <2>2 DEF Returned
  <2>4. Fin => \A c \in Calls(a) : Finished(c)
    BY <1>1, <1>7, <1>8, ShardCalls
  <2>5. Fin => Finished(a)'
    BY <1>1, <2>4, FinishedFromCalls, SteadyFinished DEF Leaf
  <2>6. QED
    BY <1>1, <2>2, <2>3, <2>5 DEF Effect
<1>9. CASE i # P
  <2>1. \E sum, skips : frame' = [frame EXCEPT ![a].at = i + 1, ![a].sum = sum, ![a].skips = skips,
                                        ![Own[a]].fc = Ctx(a), ![h] = Idle, ![g] = CalledWith(Ctx(a))]
    BY <1>9 DEF StepShard, StepShardWith
  <2>2. PICK sum, skips : frame' = [frame EXCEPT ![a].at = i + 1, ![a].sum = sum, ![a].skips = skips,
                                        ![Own[a]].fc = Ctx(a), ![h] = Idle, ![g] = CalledWith(Ctx(a))]
    BY <2>1
  <2>3. i + 1 \in 1..P /\ i + 1 \in 0..P /\ i + 1 # 0 /\ i + 1 - 1 = i
    BY <1>3, <1>4, <1>9
  <2>4. g \in Calls(a) /\ g \in Act /\ g # a
    BY <1>1, <2>3, ShardCalls
  <2> DEFINE j == i + 1
             ctx == Ctx(a)
  <2>5. frame' = [frame EXCEPT ![a].at = j, ![a].sum = sum, ![a].skips = skips,
                               ![Own[a]].fc = ctx, ![h] = Idle, ![g] = CalledWith(ctx)]
    BY <2>2
  <2>17. g = HandlerOf(a, j)
    OBVIOUS
  <2>6. j \in 1..P /\ j \in 0..P /\ j # 0 /\ j - 1 = i /\ g = HandlerOf(a, j)
    <3>1. j \in 1..P /\ j \in 0..P /\ j # 0
      BY <2>3
    <3>2. j - 1 = i
      BY <1>4
    <3>3. QED
      BY <2>17, <3>1, <3>2
  <2> HIDE DEF h, g, j, ctx
  <2>7. frame'[a].st = "busy" /\ frame'[a].at = j
    BY <1>1, <1>2, <1>5, <2>4, <2>5 DEF Fields
  <2>8. frame'[g].st = "called"
    BY <1>2, <2>4, <2>5, Records
  <2>9. h # g => frame'[h].st = "idle"
    BY <1>2, <1>5, <2>4, <2>5, Records
  <2>10. \A b \in Act \ {a, h, g} : frame'[b].st = frame[b].st /\ frame'[b].at = frame[b].at
    BY <1>2, <1>5, <2>4, <2>5 DEF Fields
  <2>11. Frames'
    BY <1>2, <1>5, <2>4, <2>5, Records DEF Frames, Fields
  <2>12. Others({g} \cup {a})
    BY <1>1, <2>9, <2>10 DEF Others, Same, Released
  <2>13. {g} = {IF frame'[a].at = 0 THEN Step(a, 1) ELSE HandlerOf(a, frame'[a].at)}
    BY <2>6, <2>7
  <2>14. CallsNow(a, {g})
    BY <1>1, <1>2, <1>6, <2>4, <2>6, <2>7, <2>8, <2>12, <2>13 DEF CallsNow
  <2>15. ASSUME Fin PROVE BusyFin(a)'
    <3>1. frame'[a].at - 1 = i
      BY <2>6, <2>7
    <3>2. Finished(Step(a, 1))' /\ \A k \in 1..i : Finished(HandlerOf(a, k))'
      BY <1>1, <1>7, <2>15, SteadyFinished
    <3>3. QED
      BY <1>1, <3>1, <3>2 DEF BusyFin
  <2>16. QED
    BY <1>1, <2>11, <2>14, <2>15 DEF Effect
<1>10. QED
  BY <1>8, <1>9
(* The callers of a child that runs wait for it, those of a workflow that is      *)
(* closed left aside; nothing runs below a child that completed, and below one   *)
(* that failed where flows are retried; in a flow that is retried only one       *)
(* branch leads to a child.                                                      *)
Waiting ==
  \A x \in Children, c \in Act : Runs(x) /\ AtOrBelow(x, c) /\ Alive(Dom[c]) => Busy(c)
NothingBelow(d) == \A x \in Children : AtOrBelow(x, d) /\ x # d => ~Runs(x)
Settled ==
  \A d \in Children :
    \/ exec[Id[d]].status = "completed"
    \/ FlowAttempts > 1 /\ exec[Id[d]].status = "failed"
    => NothingBelow(d)
Bears(a) == \E m \in Desc[a[1]] : Mode(m) = "workflow"
OneBranch ==
  FlowAttempts > 1 =>
    \A a, c \in Active : Dom[a] = Dom[c] /\ Dom[a] # Main /\ Bears(a) => AtOrBelow(a, c) \/ AtOrBelow(c, a)

(* What the other steps do.                                                      *)
Elsewhere(d) == \A x \in Children \ {d} : exec'[Id[x]] = exec[Id[x]]
Started(a) ==
  /\ a \in Active /\ ~Busy(a) /\ Alive(Dom[a]) /\ a \in Children
  /\ exec[Id[a]].status \notin {"running", "completed"} /\ exec'[Id[a]].status = "running"
  /\ exec'[Id[a]].epoch = Append(Epoch(Dom[a]), 1) /\ Elsewhere(a)
  /\ frame'[a].st = "busy" /\ \A c \in Calls(a) : frame'[c].st = "called"
  /\ Others(Calls(a) \cup {a})
  /\ UNCHANGED status
Vacated(d, S) == \A b \in Act \ S : IF Dom[b] = d THEN frame'[b].st = "idle" ELSE Same(b)
MainFails == status = "running" /\ status' = "failed" /\ Vacated(Main, {}) /\ UNCHANGED exec
FlowCloses(d) ==
  /\ d \in Children /\ Runs(d) /\ exec'[Id[d]].status \in {"failed", "terminated"} /\ Elsewhere(d)
  /\ FlowAttempts > 1 /\ exec'[Id[d]].status = "failed" => NothingBelow(d)
  /\ exec'[Id[d]].epoch = exec[Id[d]].epoch
  /\ Vacated(d, {}) /\ UNCHANGED status
FlowRestarts(d) ==
  /\ d \in Children /\ Runs(d) /\ Flow(d[1]) /\ exec'[Id[d]].status = "running" /\ Elsewhere(d)
  /\ exec'[Id[d]].epoch = Append(Front(exec[Id[d]].epoch), Last(exec[Id[d]].epoch) + 1)
  /\ NothingBelow(d)
  /\ frame'[Step(d, 1)].st = "called" /\ Vacated(d, {Step(d, 1)}) /\ UNCHANGED status
ChildEnds(d) ==
  /\ d \in Children /\ Runs(d) /\ exec'[Id[d]].status \in {"completed", "failed"} /\ Elsewhere(d)
  /\ exec'[Id[d]].epoch = exec[Id[d]].epoch
  /\ NothingBelow(d) /\ \A a \in Active : Dom[a] # d
  /\ \A b \in Act : Same(b)
  /\ UNCHANGED status
Completes ==
  /\ status = "running" /\ status' = "completed" /\ frame[Root].st = "ok"
  /\ \A b \in Act : Same(b)
  /\ UNCHANGED exec
Reruns ==
  /\ status = "failed" /\ status' = "running" /\ (\A x \in Children : ~Runs(x))
  /\ frame'[Root].st = "called" /\ \A b \in Act \ {Root} : Same(b)
  /\ run' = run + 1 /\ UNCHANGED exec
Grows == done \subseteq done'

(* Putting an output touches the frame of the phase alone.                       *)
LEMMA ReturnsIs ==
  ASSUME Frames, NEW a \in Act, NEW v, Returns(a, v)
  PROVE  Frames' /\ frame'[a].st = "ok" /\ Others({a})
<1>1. DOMAIN frame = Act /\ \A b \in Act : DOMAIN frame[b] = Fields
  BY DEF Frames
<1>2. CASE Handler(a[1]) \/ Partitioner(a[1])
  <2>1. frame' = [frame EXCEPT ![a].st = "ok", ![a].val = v]
    BY <1>2 DEF Returns
  <2>2. QED
    BY <1>1, <2>1 DEF Frames, Fields, Others, Same
<1>3. CASE ~(Handler(a[1]) \/ Partitioner(a[1]))
  <2>1. \E w : frame' = [frame EXCEPT ![a].st = "ok", ![Own[a]].fc = Put(@, a[1], w)]
    BY <1>3 DEF Returns
  <2>2. PICK w : frame' = [frame EXCEPT ![a].st = "ok", ![Own[a]].fc = Put(@, a[1], w)]
    BY <2>1
  <2>3. DOMAIN frame' = Act /\ \A b \in Act : DOMAIN frame'[b] = Fields
    BY <1>1, <2>2 DEF Fields
  <2>4. frame'[a].st = "ok"
    BY <1>1, <2>2 DEF Fields
  <2>5. \A b \in Act \ {a} : frame'[b].st = frame[b].st /\ frame'[b].at = frame[b].at
    BY <1>1, <2>2 DEF Fields
  <2>6. QED
    BY <2>3, <2>4, <2>5 DEF Frames, Others, Same
<1>4. QED
  BY <1>2, <1>3

(* An activity is scheduled: the phase waits, and nothing else changes.          *)
LEMMA ScheduleActivityIs ==
  ASSUME Shape, Stack, NEW a \in Active, ScheduleActivity(a)
  PROVE  Effect(a)
<1>1. a \in Act /\ Mode(a[1]) = "activity" /\ At(a, "called") /\ Steady
  BY DEF ScheduleActivity, Active, Steady
<1>2. /\ a[1] \in Node /\ frame[a].st = "called" /\ Alive(Dom[a]) /\ UNCHANGED <<status, exec>>
      /\ DOMAIN frame = Act /\ DOMAIN frame[a] = Fields /\ \A b \in Act : DOMAIN frame[b] = Fields
  BY <1>1, Here DEF Steady
<1>3. frame' = [frame EXCEPT ![a].st = "busy"]
  BY DEF ScheduleActivity
<1>4. Calls(a) = {}
  BY <1>1, StepCalls
<1>5. Frames' /\ frame'[a].st = "busy" /\ Others({a})
  BY <1>1, <1>2, <1>3 DEF Frames, Fields, Others, Same
<1>6. CallsNow(a, {})
  BY <1>1, <1>2, <1>4, <1>5 DEF CallsNow
<1>7. BusyFin(a)'
  BY <1>1 DEF BusyFin
<1>8. QED
  BY <1>1, <1>5, <1>6, <1>7 DEF Effect

(* An activity ends, in this run or after it.                                    *)
LEMMA ActivityCompletesIs ==
  ASSUME Shape, Stack, NEW t \in tasks, ActivityCompletes(t)
  PROVE  t.act \in Act /\ Effect(t.act)
<1> DEFINE a == t.act
<1>1. a \in Act /\ Mode(a[1]) = "activity" /\ Steady /\ a \in done'
  BY DEF Shape, Tasks, ActivityCompletes, Steady
<1>2. CASE Awaited(t)
  <2>1. At(a, "busy") /\ Returns(a, Out)
    BY <1>2 DEF Awaited, ActivityCompletes
  <2>2. frame[a].st = "busy" /\ Alive(Dom[a])
    BY <1>1, <2>1, Here
  <2>3. Frames' /\ frame'[a].st = "ok" /\ Others({a})
    BY <1>1, <2>1, ReturnsIs DEF Shape
  <2>4. Calls(a) = {}
    BY <1>1, StepCalls
  <2>5. Returned(a)
    BY <1>1, <2>2, <2>3, <2>4 DEF Returned, Active, Steady
  <2>6. Finished(a)'
    <3>1. \A w \in Act : AtOrBelow(w, a) => w = a
      BY <1>1, LeafBelow DEF Leaf, Flow
    <3>2. a \notin Children
      BY <1>1 DEF Children
    <3>3. QED
      BY <1>1, <3>1, <3>2 DEF Finished
  <2>7. QED
    BY <1>1, <2>3, <2>5, <2>6 DEF Effect
<1>3. CASE ~Awaited(t)
  <2>1. UNCHANGED frame
    BY <1>3 DEF ActivityCompletes
  <2>2. Frames' /\ Quiet
    BY <1>1, <2>1 DEF Shape, Frames, Quiet, Others, Same
  <2>3. QED
    BY <1>1, <2>2 DEF Effect
<1>4. QED
  BY <1>2, <1>3

(* The first attempt of a child in this run.                                     *)
LEMMA EpochFacts ==
  ASSUME Shape, NEW a \in Act, Alive(Dom[a])
  PROVE  LET e == Append(Epoch(Dom[a]), 1) IN e \in Seq(Nat) /\ e # <<>> /\ Last(e) = 1
<1>1. Epoch(Dom[a]) \in Seq(Nat)
  <2>1. CASE Dom[a] = Main
    BY <2>1 DEF Epoch, Shape
  <2>2. CASE Dom[a] # Main
    <3>1. Dom[a] \in Children /\ exec[Id[Dom[a]]].status = "running"
      BY <2>2, DomFacts DEF Alive, Running
    <3>2. Id[Dom[a]] \in ChildIds
      BY <3>1 DEF ChildIds
    <3>3. exec[Id[Dom[a]]].epoch \in Seq(Nat)
      BY <3>1, <3>2 DEF Shape, Execs
    <3>4. QED
      BY <2>2, <3>3 DEF Epoch
  <2>3. QED
    BY <2>1, <2>2
<1>2. \A s \in Seq(Nat) : Append(s, 1) \in Seq(Nat) /\ Append(s, 1) # <<>> /\ Append(s, 1)[Len(Append(s, 1))] = 1
  OBVIOUS
<1>3. QED
  BY <1>1, <1>2 DEF Last

(* An execution is replaced by one of the same child.                            *)
LEMMA Replaced ==
  ASSUME SafeTree, Execs, NEW d \in Children, NEW e, exec' = [exec EXCEPT ![Id[d]] = e],
         DOMAIN e = {"status", "epoch", "act", "in"}, e.act = d, e.epoch \in Seq(Nat), e.epoch # <<>>,
         Last(e.epoch) > 0
  PROVE  Execs' /\ exec'[Id[d]] = e /\ Elsewhere(d)
<1>1. Id[d] \in ChildIds /\ \A x \in Children : Id[x] \in ChildIds
  BY DEF ChildIds
<1>2. DOMAIN exec = ChildIds
  BY DEF Execs
<1>3. exec'[Id[d]] = e /\ DOMAIN exec' = ChildIds /\ \A id \in ChildIds \ {Id[d]} : exec'[id] = exec[id]
  BY <1>1, <1>2
<1>4. Elsewhere(d)
  BY <1>1, <1>3, OneExecution DEF Elsewhere
<1>5. Execs'
  BY <1>1, <1>3 DEF Execs
<1>6. QED
  BY <1>3, <1>4, <1>5

(* A child is started, or skipped because it completed (phase.go 617-656).       *)
LEMMA StartChildIs ==
  ASSUME SafeTree, Shape, Stack, Waiting, NEW a \in Active, StartChild(a)
  PROVE  Frames' /\ Execs' /\ Grows /\ (Effect(a) \/ Started(a))
<1>1. a \in Act /\ Mode(a[1]) = "workflow" /\ At(a, "called") /\ Grows /\ a \in Children
  BY DEF StartChild, StartChildUnder, Active, Grows, Children
<1>2. /\ a[1] \in Node /\ frame[a].st = "called" /\ Alive(Dom[a])
      /\ DOMAIN frame = Act /\ DOMAIN frame[a] = Fields /\ \A b \in Act : DOMAIN frame[b] = Fields
  BY <1>1, Here
<1>3. exec[Id[a]].status # "running"
  BY <1>1, <1>2, BelowSelf DEF Waiting, Runs, Busy
<1>4. CASE exec[Id[a]].status = "completed"
  <2>1. Returns(a, Skipped) /\ UNCHANGED <<status, exec>>
    BY <1>4 DEF StartChild, StartChildUnder, SkipChild
  <2>2. Frames' /\ frame'[a].st = "ok" /\ Others({a})
    BY <1>1, <2>1, ReturnsIs DEF Shape
  <2>3. Returned(a)
    BY <1>1, <1>2, <1>4, <2>1, <2>2 DEF Returned
  <2>4. Steady
    BY <1>1, <2>1 DEF Steady, Grows
  <2>5. Fin => Finished(a)'
    BY <1>1, <1>4, <2>4, SteadyFinished DEF Fin, FinExec
  <2>6. QED
    BY <1>1, <2>1, <2>2, <2>3, <2>4, <2>5 DEF Effect, Shape, Execs
<1>5. CASE exec[Id[a]].status # "completed"
  <2> DEFINE r == [status |-> "running", act |-> a, in |-> Ctx(a), epoch |-> Append(Epoch(Dom[a]), 1)]
  <2>1. /\ exec' = [exec EXCEPT ![Id[a]] = r]
        /\ frame' = [b \in Act |-> IF b = a THEN [frame[a] EXCEPT !.st = "busy"]
                                   ELSE IF b \in Subs(a) THEN CalledWith(Ctx(a))
                                   ELSE frame[b]]
        /\ UNCHANGED status
    BY <1>3, <1>5 DEF StartChild, StartChildUnder
  <2>2. Subs(a) = Calls(a) /\ Calls(a) \subseteq Act \ {a}
    BY <1>1, FlowCalls, CallFacts
  <2>3. DOMAIN r = {"status", "epoch", "act", "in"} /\ r.act = a /\ r.status = "running"
        /\ r.epoch = Append(Epoch(Dom[a]), 1)
    OBVIOUS
  <2>4. r.epoch \in Seq(Nat) /\ r.epoch # <<>> /\ Last(r.epoch) > 0
    BY <1>1, <1>2, EpochFacts
  <2> HIDE DEF r
  <2>5. Execs' /\ exec'[Id[a]] = r /\ Elsewhere(a)
    BY <1>1, <2>1, <2>3, <2>4, Replaced DEF Shape
  <2>6. frame'[a].st = "busy" /\ (\A c \in Calls(a) : frame'[c] = CalledWith(Ctx(a)))
        /\ \A b \in Act \ (Calls(a) \cup {a}) : frame'[b] = frame[b]
    BY <1>1, <1>2, <2>1, <2>2 DEF Fields
  <2>7. Frames'
    BY <1>1, <1>2, <2>1, <2>2, Records DEF Frames, Fields
  <2>8. Started(a)
    <3>1. frame'[a].st = "busy" /\ (\A c \in Calls(a) : frame'[c].st = "called") /\ Others(Calls(a) \cup {a})
      BY <2>6, Records DEF Others, Same
    <3>2. exec'[Id[a]].status = "running" /\ exec'[Id[a]].epoch = Append(Epoch(Dom[a]), 1)
      BY <2>3, <2>5
    <3>3. QED
      BY <1>1, <1>2, <1>3, <1>5, <2>1, <2>5, <3>1, <3>2 DEF Started, Busy
  <2>9. QED
    BY <1>1, <2>5, <2>7, <2>8
<1>6. QED
  BY <1>4, <1>5

(* A phase whose child completed returns.                                        *)
LEMMA ChildReturnsIs ==
  ASSUME Shape, Stack, NEW a \in Active, ChildReturns(a)
  PROVE  Effect(a)
<1>1. a \in Act /\ Mode(a[1]) = "workflow" /\ At(a, "busy") /\ a \in Children /\ Steady
      /\ exec[Id[a]].status = "completed"
  BY DEF ChildReturns, Ended, Active, Children, Steady
<1>2. frame[a].st = "busy" /\ Alive(Dom[a])
  BY <1>1, Here
<1>3. Frames' /\ frame'[a].st = "ok" /\ Others({a})
  BY <1>1, ReturnsIs DEF Shape, ChildReturns
<1>4. Returned(a)
  BY <1>1, <1>2, <1>3 DEF Returned, Steady
<1>5. Fin => Finished(a)'
  BY <1>1, SteadyFinished DEF Fin, FinExec
<1>6. QED
  BY <1>1, <1>3, <1>4, <1>5 DEF Effect

(* What closes a workflow.                                                       *)
LEMMA FailsIs ==
  ASSUME SafeTree, Shape, NEW d, d = Main \/ (d \in Children /\ Flow(d[1])), Alive(d), Fails(d),
         d # Main /\ FlowAttempts > 1 => NothingBelow(d)
  PROVE  Frames' /\ Execs' /\ (MainFails \/ FlowCloses(d) \/ FlowRestarts(d))
<1>1. DOMAIN frame = Act /\ (\A b \in Act : DOMAIN frame[b] = Fields) /\ Execs
  BY DEF Shape, Frames
<1>2. DOMAIN Closed(d) = Act /\ \A b \in Act : Closed(d)[b] = IF Dom[b] = d THEN Idle ELSE frame[b]
  BY DEF Closed
<1>3. \A b \in Act : DOMAIN Closed(d)[b] = Fields /\ (Dom[b] = d => Closed(d)[b].st = "idle")
  BY <1>1, <1>2, Records
<1>4. CASE d = Main
  <2>1. status = "running" /\ status' = "failed" /\ frame' = Closed(d) /\ UNCHANGED exec
    BY <1>4 DEF Fails, Alive
  <2>2. Frames'
    BY <1>2, <1>3, <2>1 DEF Frames
  <2>3. Vacated(Main, {})
    BY <1>2, <1>3, <1>4, <2>1 DEF Vacated, Same
  <2>4. QED
    BY <1>1, <2>1, <2>2, <2>3 DEF MainFails, Execs
<1>5. CASE d # Main
  <2> DEFINE e == exec[Id[d]]
  <2>1. /\ d \in Children /\ Flow(d[1]) /\ d \in Act /\ Mode(d[1]) = "workflow"
    BY <1>5 DEF Children
  <2>2. e.status = "running" /\ e.act = d /\ Id[d] \in ChildIds
    BY <1>5, <2>1 DEF Alive, Running, ChildIds
  <2>3. DOMAIN e = {"status", "epoch", "act", "in"} /\ e.epoch \in Seq(Nat) /\ e.epoch # <<>> /\ Last(e.epoch) > 0
    BY <1>1, <2>2 DEF Execs
  <2>4. CASE ~Again(e)
    <3> DEFINE r == [e EXCEPT !.status = "failed"]
    <3>1. exec' = [exec EXCEPT ![Id[d]] = r] /\ frame' = Closed(d) /\ UNCHANGED status
      BY <1>5, <2>4 DEF Fails
    <3>2. DOMAIN r = {"status", "epoch", "act", "in"} /\ r.act = d /\ r.epoch = e.epoch /\ r.status = "failed"
      BY <2>2, <2>3
    <3> HIDE DEF r
    <3>3. Execs' /\ exec'[Id[d]] = r /\ Elsewhere(d)
      BY <1>1, <2>1, <2>3, <3>1, <3>2, Replaced
    <3>4. Frames'
      BY <1>2, <1>3, <3>1 DEF Frames
    <3>5. Vacated(d, {})
      BY <1>2, <1>3, <3>1 DEF Vacated, Same
    <3>6. FlowCloses(d)
      BY <1>5, <2>1, <2>2, <3>1, <3>2, <3>3, <3>5 DEF FlowCloses, Runs
    <3>7. QED
      BY <3>3, <3>4, <3>6
  <2>5. CASE Again(e)
    <3> DEFINE s == Step(d, 1)
               k == Append(Front(e.epoch), Last(e.epoch) + 1)
               r == [e EXCEPT !.epoch = k]
    <3>1. /\ exec' = [exec EXCEPT ![Id[d]] = [e EXCEPT !.epoch = Append(Front(@), Last(@) + 1)]]
          /\ frame' = [Closed(d) EXCEPT ![s] = CalledWith(e.in)] /\ UNCHANGED status
      BY <1>5, <2>5 DEF Fails
    <3>2. k \in Seq(Nat) /\ k # <<>> /\ Last(k) > 0 /\ Last(e.epoch) \in Nat
      <4>1. \A q \in Seq(Nat) : q # <<>> =>
              /\ q[Len(q)] \in Nat /\ SubSeq(q, 1, Len(q) - 1) \in Seq(Nat)
        OBVIOUS
      <4>2. Front(e.epoch) \in Seq(Nat) /\ Last(e.epoch) \in Nat
        BY <2>3, <4>1 DEF Front, Last
      <4>3. \A q \in Seq(Nat), m \in Nat :
              /\ Append(q, m + 1) \in Seq(Nat) /\ Append(q, m + 1) # <<>>
              /\ Append(q, m + 1)[Len(Append(q, m + 1))] > 0
        OBVIOUS
      <4>4. QED
        BY <4>2, <4>3 DEF Last
    <3>3. DOMAIN r = {"status", "epoch", "act", "in"} /\ r.act = d /\ r.epoch = k /\ r.status = "running"
      BY <2>2, <2>3
    <3>4. exec' = [exec EXCEPT ![Id[d]] = r]
      BY <3>1, <2>3
    <3>5. FlowAttempts > 1
      BY <2>3, <2>5, <3>2, PhaseTreeAssumption DEF Again
    <3>6. s \in Act /\ Dom[s] = d
      BY <2>1, FlowCalls
    <3> HIDE DEF r, k, s
    <3>7. Execs' /\ exec'[Id[d]] = r /\ Elsewhere(d)
      BY <1>1, <2>1, <3>2, <3>3, <3>4, Replaced
    <3>8. frame'[s] = CalledWith(e.in) /\ DOMAIN frame' = Act /\ \A b \in Act \ {s} : frame'[b] = Closed(d)[b]
      BY <1>2, <3>1, <3>6
    <3>9. Frames'
      BY <1>3, <3>8, Records DEF Frames
    <3>10. Vacated(d, {s}) /\ frame'[s].st = "called"
      BY <1>2, <1>3, <3>8, Records DEF Vacated, Same
    <3>11. FlowRestarts(d)
      BY <1>5, <2>1, <2>2, <3>1, <3>3, <3>5, <3>7, <3>10 DEF FlowRestarts, Runs, s, k
    <3>12. QED
      BY <3>7, <3>9, <3>11
  <2>6. QED
    BY <2>4, <2>5
<1>6. QED
  BY <1>4, <1>5
(* When a workflow fails with attempts left, no child of it runs.                *)
LEMMA FailsQuietly ==
  ASSUME SafeTree, Shape, DeadIdle, Waiting, OneBranch, FlowAttempts > 1, NEW a \in Active, Dom[a] # Main,
         \A x \in Children : AtOrBelow(x, a) => ~Runs(x)
  PROVE  NothingBelow(Dom[a])
<1> DEFINE d == Dom[a]
<1>1. a \in Act /\ d \in Children /\ d \in Act /\ Flow(d[1]) /\ Mode(d[1]) = "workflow" /\ Alive(d)
  BY DomFacts DEF Active, Children, DeadIdle
<1> SUFFICES ASSUME NEW x \in Children, AtOrBelow(x, d), x # d, Runs(x) PROVE FALSE
  BY DEF NothingBelow
<1>2. x \in Act
  BY DEF Children
<1> DEFINE s == Step(d, 1)
<1>3. s \in Act /\ Dom[s] = d /\ Calls(d) = {s}
  BY <1>1, FlowCalls
<1> HIDE DEF d, s
<1>4. AtOrBelow(x, s)
  BY <1>1, <1>2, <1>3, BelowSplit
<1>5. PICK y \in Children : AtOrBelow(x, y) /\ Dom[y] = d
  BY <1>3, <1>4, ChildBelow
<1>6. y \in Act /\ Mode(y[1]) = "workflow" /\ y[1] \in Node
  BY ActFacts DEF Children
<1>7. Busy(y)
  BY <1>1, <1>5, <1>6 DEF Waiting
<1>8. y \in Active /\ Bears(y)
  BY <1>6, <1>7, DescSelf DEF Busy, Active, Bears
<1>9. AtOrBelow(y, a) \/ AtOrBelow(a, y)
  BY <1>1, <1>5, <1>8 DEF OneBranch, d
<1>10. CASE AtOrBelow(y, a)
  BY <1>1, <1>2, <1>5, <1>6, <1>10, BelowTrans
<1>11. CASE AtOrBelow(a, y)
  <2>1. a = y
    BY <1>1, <1>5, <1>11, ChildIsTip DEF d
  <2>2. QED
    BY <1>5, <2>1
<1>12. QED
  BY <1>9, <1>10, <1>11

(* A workflow fails by an activation of it.                                      *)
LEMMA AbandonedIs ==
  ASSUME SafeTree, Shape, DeadIdle, Waiting, OneBranch, NEW a \in Active, Fails(Dom[a]),
         FlowAttempts > 1 => \A x \in Children : AtOrBelow(x, a) => ~Runs(x)
  PROVE  /\ Frames' /\ Execs'
         /\ MainFails \/ \E d \in Children : FlowCloses(d) \/ FlowRestarts(d)
<1>1. a \in Act /\ Alive(Dom[a])
  BY DEF Active, DeadIdle
<1>2. Dom[a] = Main \/ (Dom[a] \in Children /\ Flow(Dom[a][1]))
  BY <1>1, DomFacts
<1>3. Dom[a] # Main /\ FlowAttempts > 1 => NothingBelow(Dom[a])
  BY FailsQuietly
<1>4. Frames' /\ Execs' /\ (MainFails \/ FlowCloses(Dom[a]) \/ FlowRestarts(Dom[a]))
  BY <1>1, <1>2, <1>3, FailsIs
<1>5. CASE MainFails
  BY <1>4, <1>5
<1>6. CASE FlowCloses(Dom[a]) \/ FlowRestarts(Dom[a])
  BY <1>4, <1>6 DEF FlowCloses, FlowRestarts
<1>7. QED
  BY <1>4, <1>5, <1>6

(* A child whose execution did not complete fails its workflow.                  *)
LEMMA ChildErrsIs ==
  ASSUME SafeTree, Shape, Stack, Waiting, Settled, OneBranch, NEW a \in Active, ChildErrs(a)
  PROVE  /\ Frames' /\ Execs' /\ Grows
         /\ MainFails \/ \E d \in Children : FlowCloses(d) \/ FlowRestarts(d)
<1>1. a \in Children /\ exec[Id[a]].status = "failed" /\ Fails(Dom[a]) /\ Grows
  BY DEF ChildErrs, Ended, Children, Active, Grows
<1>2. ASSUME FlowAttempts > 1 PROVE \A x \in Children : AtOrBelow(x, a) => ~Runs(x)
  BY <1>1, <1>2 DEF Settled, NothingBelow, Runs
<1>3. QED
  BY <1>1, <1>2, AbandonedIs DEF Stack

(* The partitioner returned no list (phase.go 505-512).                          *)
LEMMA ExtractFailsIs ==
  ASSUME SafeTree, Shape, Stack, Waiting, OneBranch, NEW a \in Active, ExtractFails(a)
  PROVE  /\ Frames' /\ Execs' /\ Grows
         /\ MainFails \/ \E d \in Children : FlowCloses(d) \/ FlowRestarts(d)
<1> DEFINE s == Step(a, 1)
<1>1. a \in Act /\ Mode(a[1]) = "shard" /\ At(a, "busy") /\ frame[a].at = 0 /\ frame[s].st = "ok"
      /\ Fails(Dom[a]) /\ Grows
  BY DEF ExtractFails, IsShard, Active, Grows
<1>2. frame[a].st = "busy" /\ Alive(Dom[a])
  BY <1>1, Here
<1>3. \A b \in Calls(a) : b \in Active => b = s
  BY <1>1, <1>2 DEF Stack, AtStep, Busy
<1>4. ASSUME NEW x \in Children, AtOrBelow(x, a), Runs(x) PROVE FALSE
  <2>1. x \in Act /\ x # a
    BY <1>1 DEF Children
  <2>2. PICK c \in Calls(a) : AtOrBelow(x, c)
    BY <1>1, <1>4, <2>1, BelowSplit
  <2>3. c \in Act /\ Dom[c] = Dom[a]
    BY <1>1, CallFacts, DomCalls DEF Flow
  <2>4. Busy(c)
    BY <1>2, <1>4, <2>2, <2>3 DEF Waiting
  <2>5. c = s
    BY <1>3, <2>3, <2>4 DEF Busy, Active
  <2>6. QED
    BY <1>1, <2>4, <2>5 DEF Busy
<1>5. QED
  BY <1>1, <1>4, AbandonedIs DEF Stack

(* An activity fails after its retries, in this run or after it.                 *)
LEMMA ActivityFailsIs ==
  ASSUME SafeTree, Shape, Stack, Waiting, OneBranch, NEW t \in tasks, ActivityFails(t)
  PROVE  /\ Frames' /\ Execs' /\ Grows
         /\ \/ Steady /\ Quiet
            \/ MainFails \/ \E d \in Children : FlowCloses(d) \/ FlowRestarts(d)
<1> DEFINE a == t.act
<1>1. a \in Act /\ Mode(a[1]) = "activity" /\ Grows
  BY DEF Shape, Tasks, ActivityFails, ActivityFailsWith, Grows
<1>2. CASE Awaited(t)
  <2>1. Fails(Dom[a]) /\ At(a, "busy")
    BY <1>2 DEF ActivityFails, ActivityFailsWith, Awaited
  <2>2. a \in Active
    BY <1>1, <2>1 DEF At, Active
  <2>3. ASSUME NEW x \in Children, AtOrBelow(x, a) PROVE FALSE
    <3>1. x = a
      BY <1>1, <2>3, LeafBelow DEF Leaf, Flow, Children
    <3>2. QED
      BY <1>1, <3>1 DEF Children
  <2>4. QED
    BY <1>1, <2>1, <2>2, <2>3, AbandonedIs DEF Stack
<1>3. CASE ~Awaited(t)
  <2>1. UNCHANGED <<frame, status, exec, done>>
    BY <1>3 DEF ActivityFails, ActivityFailsWith
  <2>2. QED
    BY <1>1, <2>1 DEF Shape, Frames, Execs, Steady, Quiet, Others, Same
<1>4. QED
  BY <1>2, <1>3

(* What is finished stays so while nothing is undone.                            *)
LEMMA FinishedGrows ==
  ASSUME Grows, \A x \in Children : exec[Id[x]].status = "completed" => exec'[Id[x]].status = "completed"
  PROVE  \A a : Finished(a) => Finished(a)'
BY DEF Grows, Finished

(* An execution changes its status.                                              *)
LEMMA ExecutionIs ==
  ASSUME SafeTree, Shape, NEW id \in ChildIds, exec[id].status = "running", NEW st,
         exec' = [exec EXCEPT ![id].status = st]
  PROVE  LET d == exec[id].act
         IN  /\ d \in Children /\ d \in Act /\ Mode(d[1]) = "workflow" /\ Runs(d) /\ id = Id[d] /\ Running(d)
             /\ Execs' /\ Elsewhere(d) /\ exec'[Id[d]].status = st /\ exec'[Id[d]].epoch = exec[Id[d]].epoch
<1> DEFINE d == exec[id].act
           r == [exec[id] EXCEPT !.status = st]
<1>1. d \in Children /\ Id[d] = id /\ exec[id].epoch \in Seq(Nat) /\ exec[id].epoch # <<>>
      /\ Last(exec[id].epoch) > 0 /\ DOMAIN exec[id] = {"status", "epoch", "act", "in"} /\ DOMAIN exec = ChildIds
  BY DEF Shape, Execs
<1>2. d \in Act /\ Mode(d[1]) = "workflow"
  BY <1>1 DEF Children
<1>3. Runs(d) /\ Running(d)
  BY <1>1 DEF Runs, Running
<1>4. exec' = [exec EXCEPT ![Id[d]] = r]
  BY <1>1
<1>5. DOMAIN r = {"status", "epoch", "act", "in"} /\ r.act = d /\ r.epoch = exec[id].epoch /\ r.status = st
  BY <1>1
<1> HIDE DEF r
<1>6. Execs' /\ exec'[Id[d]] = r /\ Elsewhere(d)
  BY <1>1, <1>4, <1>5, Replaced DEF Shape
<1>7. QED
  BY <1>1, <1>2, <1>3, <1>5, <1>6

(* A child ends; if it completed, all of it is done.                             *)
Done(d) == ChildEnds(d) /\ (exec'[Id[d]].status = "completed" => (Fin => Finished(d)'))

(* A child that is not a flow ends.                                              *)
LEMMA HandWrittenEnds ==
  ASSUME SafeTree, Shape, NEW id \in ChildIds, ChildCompletes(id) \/ ChildFails(id)
  PROVE  Frames' /\ Execs' /\ Grows /\ \E d \in Children : Done(d)
<1>0. PICK d : d = exec[id].act
  OBVIOUS
<1>1. exec[id].status = "running" /\ ~Flow(d[1]) /\ UNCHANGED <<status, frame>> /\ Grows
  BY <1>0 DEF ChildCompletes, ChildFails, HandWritten, Grows
<1>2. PICK st \in {"completed", "failed"} :
        exec' = [exec EXCEPT ![id].status = st] /\ (st = "completed" => d \in done')
  BY <1>0 DEF ChildCompletes, ChildFails
<1>3. /\ d \in Children /\ d \in Act /\ Mode(d[1]) = "workflow" /\ Runs(d) /\ id = Id[d]
      /\ Execs' /\ Elsewhere(d) /\ exec'[Id[d]].status = st /\ exec'[Id[d]].epoch = exec[Id[d]].epoch
  BY ZenonT(40), <1>0, <1>1, <1>2, ExecutionIs
<1>4. NothingBelow(d)
  BY <1>1, <1>3, LeafBelow DEF NothingBelow, Leaf, Children
<1>5. \A a \in Active : Dom[a] # d
  BY <1>1, <1>3, FlowCalls DEF Active
<1>6. Frames'
  BY <1>1 DEF Shape, Frames
<1>7. ChildEnds(d)
  BY <1>1, <1>3, <1>4, <1>5 DEF ChildEnds, Same
<1>8. st = "completed" => Finished(d)'
  <2>1. \A w \in Act : AtOrBelow(w, d) => w = d
    BY <1>1, <1>3, LeafBelow DEF Leaf
  <2>2. QED
    BY <1>2, <1>3, <2>1 DEF Finished
<1>9. QED
  BY <1>1, <1>3, <1>6, <1>7, <1>8 DEF Done

(* A flow whose step returned completes (phase.go 264-270).                      *)
LEMMA FlowCompletesIs ==
  ASSUME SafeTree, Shape, Stack, Waiting, NEW id \in ChildIds, FlowCompletes(id)
  PROVE  Frames' /\ Execs' /\ Grows /\ \E d \in Children : Done(d)
<1>0. PICK d : d = exec[id].act
  OBVIOUS
<1> DEFINE s == Step(d, 1)
<1>1. exec[id].status = "running" /\ Flow(d[1]) /\ UNCHANGED <<status, frame>> /\ Grows /\ frame[s].st = "ok"
      /\ exec' = [exec EXCEPT ![id].status = "completed"]
  BY <1>0 DEF FlowCompletes, Grows
<1>2. /\ d \in Children /\ d \in Act /\ Mode(d[1]) = "workflow" /\ Runs(d) /\ id = Id[d] /\ Running(d)
      /\ Execs' /\ Elsewhere(d) /\ exec'[Id[d]].status = "completed"
      /\ exec'[Id[d]].epoch = exec[Id[d]].epoch
  BY ZenonT(40), <1>0, <1>1, ExecutionIs
<1>3. Calls(d) = {s} /\ s \in Act /\ Dom[s] = d /\ d # Main
  BY <1>1, <1>2, FlowCalls, NotMain
<1> HIDE DEF s
<1>4. NothingBelow(d)
  <2> SUFFICES ASSUME NEW x \in Children, AtOrBelow(x, d), x # d, Runs(x) PROVE FALSE
    BY DEF NothingBelow
  <2>1. x \in Act
    BY DEF Children
  <2>2. AtOrBelow(x, s)
    BY <1>2, <1>3, <2>1, BelowSplit
  <2>3. Busy(s)
    BY <1>2, <1>3, <2>2 DEF Waiting, Alive
  <2>4. QED
    BY <1>1, <2>3 DEF Busy
<1>5. ASSUME NEW a \in Active, Dom[a] = d PROVE FALSE
  <2>1. a \in Act /\ AtOrBelow(a, d) /\ a # d
    BY <1>3, <1>5, DomFacts DEF Active
  <2>2. AtOrBelow(a, s)
    BY <1>2, <1>3, <2>1, BelowSplit
  <2>3. a # s
    BY <1>1 DEF Active
  <2>4. Busy(s)
    BY <1>3, <1>5, <2>1, <2>2, <2>3 DEF Stack, CallersBusy
  <2>5. QED
    BY <1>1, <2>4 DEF Busy
<1>6. Frames'
  BY <1>1 DEF Shape, Frames
<1>7. ChildEnds(d)
  BY <1>1, <1>2, <1>4, <1>5 DEF ChildEnds, Same
<1>8. ASSUME Fin PROVE Finished(d)'
  <2>1. Finished(s)'
    <3>1. Finished(s)
      BY <1>1, <1>3, <1>8 DEF Fin, FinOk
    <3>2. \A x \in Children : exec[Id[x]].status = "completed" => exec'[Id[x]].status = "completed"
      BY <1>2 DEF Elsewhere
    <3>3. QED
      BY <1>1, <3>1, <3>2, FinishedGrows
  <2> SUFFICES ASSUME NEW w \in Act, AtOrBelow(w, d), Leaf(w[1])
               PROVE  /\ ~Flow(w[1]) => w \in done'
                      /\ w \in Children => exec'[Id[w]].status = "completed"
    BY DEF Finished
  <2>2. CASE w = d
    BY <1>1, <1>2, <2>2
  <2>3. CASE w # d
    <3>1. AtOrBelow(w, s)
      BY <1>2, <1>3, <2>3, BelowSplit
    <3>2. QED
      BY <2>1, <3>1 DEF Finished
  <2>4. QED
    BY <2>2, <2>3
<1>9. QED
  BY <1>1, <1>2, <1>6, <1>7, <1>8 DEF Done

(* A flow is out of time (phase.go 247-249): it has no child if it is retried.    *)
LEMMA FlowTimesOutIs ==
  ASSUME SafeTree, Shape, NEW d \in Children, FlowTimesOut(d)
  PROVE  /\ Frames' /\ Execs' /\ Grows
         /\ \E c \in Children : FlowCloses(c) \/ FlowRestarts(c)
<1>1. FlowTimeout /\ Flow(d[1]) /\ Running(d) /\ Fails(d) /\ Grows
  BY DEF FlowTimesOut, Grows
<1>2. d \in Act /\ Mode(d[1]) = "workflow" /\ d # Main
  BY NotMain DEF Children
<1>3. ASSUME FlowAttempts > 1 PROVE NothingBelow(d)
  <2> SUFFICES ASSUME NEW x \in Children, AtOrBelow(x, d), x # d PROVE FALSE
    BY DEF NothingBelow
  <2> DEFINE s == Step(d, 1)
  <2>1. s \in Act /\ Dom[s] = d /\ Calls(d) = {s}
    BY <1>1, <1>2, FlowCalls
  <2> HIDE DEF s
  <2>2. AtOrBelow(x, s)
    BY <1>2, <2>1, BelowSplit DEF Children
  <2>3. PICK y \in Children : Dom[y] = d
    BY <2>1, <2>2, ChildBelow
  <2>4. y \in Act /\ y[1] \in Node /\ Mode(y[1]) = "workflow" /\ y[1] \in Desc[y[1]]
    BY ActFacts, DescSelf DEF Children
  <2>5. DomNode[y[1]] # 0
    BY <1>2, <2>3, <2>4, DomFacts
  <2>6. QED
    BY <1>1, <1>3, <2>4, <2>5 DEF SafeTree
<1>4. Frames' /\ Execs' /\ (MainFails \/ FlowCloses(d) \/ FlowRestarts(d))
  BY <1>1, <1>2, <1>3, FailsIs DEF Alive
<1>5. ~MainFails
  BY <1>1, <1>2 DEF MainFails, Fails
<1>6. QED
  BY <1>1, <1>4, <1>5

(* The server terminates the children of a closed workflow.                      *)
LEMMA TerminateIs ==
  ASSUME SafeTree, Shape, NEW id \in ChildIds, Terminate(id)
  PROVE  Frames' /\ Execs' /\ Grows /\ \E d \in Children : FlowCloses(d)
<1> DEFINE d == exec[id].act
<1>1. exec[id].status = "running" /\ UNCHANGED status /\ Grows /\ frame' = Closed(d)
      /\ exec' = [exec EXCEPT ![id].status = "terminated"]
  BY DEF Terminate, Orphan, Grows
<1>2. /\ d \in Children /\ d \in Act /\ Mode(d[1]) = "workflow" /\ Runs(d) /\ id = Id[d] /\ Running(d)
      /\ Execs' /\ Elsewhere(d) /\ exec'[Id[d]].status = "terminated"
      /\ exec'[Id[d]].epoch = exec[Id[d]].epoch
  BY <1>1, ExecutionIs
<1> HIDE DEF d
<1>3. DOMAIN frame' = Act /\ \A b \in Act : frame'[b] = IF Dom[b] = d THEN Idle ELSE frame[b]
  BY <1>1 DEF Closed
<1>4. Frames'
  BY <1>3, Records DEF Shape, Frames
<1>5. Vacated(d, {})
  BY <1>3, Records DEF Vacated, Same
<1>6. QED
  BY <1>1, <1>2, <1>4, <1>5 DEF FlowCloses

(* The job completes, fails by itself, or is started again.                      *)
LEMMA MainIs ==
  ASSUME SafeTree, Careful, Shape, Complete \/ Abort \/ Rerun
  PROVE  Frames' /\ Execs' /\ Grows /\ (Completes \/ MainFails \/ Reruns)
<1>1. Root \in Act /\ Dom[Root] = Main /\ DOMAIN frame = Act /\ Execs
      /\ \A b \in Act : DOMAIN frame[b] = Fields
  BY RootAct DEF Shape, Frames
<1>2. CASE Complete
  <2>1. status = "running" /\ frame[Root].st = "ok" /\ status' = "completed" /\ UNCHANGED <<frame, exec, done>>
    BY <1>1, <1>2 DEF Complete, At, Alive
  <2>2. QED
    BY <1>1, <2>1 DEF Frames, Execs, Grows, Completes, Same
<1>3. CASE Abort
  <2>1. Fails(Main) /\ Alive(Main) /\ Grows
    BY <1>3 DEF Abort, Alive, Grows
  <2>2. Frames' /\ Execs' /\ (MainFails \/ FlowCloses(Main) \/ FlowRestarts(Main))
    BY <2>1, FailsIs
  <2>3. Main \notin Children
    BY NotMain DEF Children
  <2>4. QED
    BY <2>1, <2>2, <2>3 DEF FlowCloses, FlowRestarts
<1>4. CASE Rerun
  <2>1. status = "failed" /\ status' = "running" /\ frame' = [frame EXCEPT ![Root] = Called]
        /\ UNCHANGED <<exec, done>> /\ run' = run + 1
        /\ \A id \in ChildIds : exec[id].status # "running"
    BY <1>4 DEF Rerun
  <2>2. \A x \in Children : ~Runs(x)
    BY <2>1 DEF Runs, ChildIds
  <2>3. Frames'
    BY <1>1, <2>1, Records DEF Frames
  <2>4. frame'[Root].st = "called" /\ \A b \in Act \ {Root} : frame'[b] = frame[b]
    BY <1>1, <2>1, Records
  <2>5. Reruns
    BY <2>1, <2>2, <2>4 DEF Reruns, Same
  <2>6. QED
    BY <1>1, <2>1, <2>3, <2>5 DEF Execs, Grows
<1>5. QED
  BY <1>2, <1>3, <1>4
(* A workflow is alive while its execution runs.                                 *)
LEMMA AliveIs ==
  ASSUME SafeTree, Execs, NEW a \in Act
  PROVE  /\ Dom[a] # Main => Dom[a] \in Children /\ Dom[a] \in Act
         /\ Alive(Dom[a]) <=> IF Dom[a] = Main THEN status = "running" ELSE Runs(Dom[a])
<1>1. Dom[a] # Main => Dom[a] \in Children /\ Dom[a] \in Act
  BY DomFacts
<1>2. Dom[a] # Main => (Running(Dom[a]) <=> Runs(Dom[a]))
  BY <1>1, OneExecution
<1>3. QED
  BY <1>1, <1>2 DEF Alive

(* The same after a step.                                                        *)
LEMMA AliveNext ==
  ASSUME SafeTree, Execs', NEW a \in Act
  PROVE  Alive(Dom[a])' <=> IF Dom[a] = Main THEN status' = "running" ELSE exec'[Id[Dom[a]]].status = "running"
<1>1. Dom[a] # Main => Dom[a] \in Children
  BY DomFacts
<1>2. ASSUME NEW d \in Children PROVE Running(d)' <=> exec'[Id[d]].status = "running"
  BY DEF SafeTree, Execs, Running, Children, ChildIds
<1>3. QED
  BY <1>1, <1>2 DEF Alive

(* Each effect keeps what is known of the stack, of who waits for whom, and of   *)
(* what may still run below a child.  A call.                                    *)
LEMMA CallsNowKeeps ==
  ASSUME SafeTree, Shape, Execs', Stack, Waiting, Settled, OneBranch,
         NEW a \in Active, NEW C, CallsNow(a, C)
  PROVE  Stack' /\ Waiting' /\ Settled' /\ OneBranch'
<1>1. /\ a \in Act /\ Alive(Dom[a]) /\ Mode(a[1]) # "workflow" /\ Calls(a) \cap Active = {}
      /\ C \subseteq Calls(a) /\ Others(C \cup {a}) /\ UNCHANGED <<status, exec>>
      /\ frame'[a].st = "busy" /\ \A c \in C : frame'[c].st = "called"
  BY DEF CallsNow, Active
<1>2. \A c \in C : c \in Act /\ c \in Calls(a) /\ Dom[c] = Dom[a] /\ AtOrBelow(c, a) /\ c # a /\ c \notin Active
  BY <1>1, CallFacts, DomCalls DEF Flow
<1>3. \A b \in Act : b \in Active' => b \in Active \/ b \in C
  BY <1>1 DEF Active, Others, Same, Released
<1>4. \A b \in Act : Busy(b)' => b = a \/ (b \notin C /\ Busy(b) /\ frame'[b].at = frame[b].at)
  BY <1>1 DEF Busy, Others, Same, Released
<1>5. \A b \in Act : Busy(b) => Busy(b)' \/ b \in C
  BY <1>1 DEF Busy, Others, Same, Released
<1>6. \A b \in Act : b \in C => ~Busy(b)
  BY <1>2 DEF Busy, Active
<1>7. \A b \in Act : Busy(b) => Busy(b)'
  BY <1>5, <1>6
<1>8. \A b \in Act : Alive(Dom[b])' <=> Alive(Dom[b])
  BY <1>1 DEF Alive, Running
<1>9. \A x : Runs(x)' <=> Runs(x)
  BY <1>1 DEF Runs
<1>10. AtStep'
  <2> SUFFICES ASSUME NEW b \in Act, Busy(b)'
      PROVE /\ Mode(b[1]) = "pipeline" =>
                 /\ frame'[b].at \in 1..Len(Tree[b[1]].steps)
                 /\ \A c \in Calls(b) : c \in Active' => c = Step(b, frame'[b].at)
            /\ Mode(b[1]) = "shard" =>
                 /\ frame'[b].at \in 0..Partitions(b)
                 /\ \A c \in Calls(b) : c \in Active' =>
                      c = IF frame'[b].at = 0 THEN Step(b, 1) ELSE HandlerOf(b, frame'[b].at)
    BY DEF AtStep
  <2>1. CASE b = a
    <3>1. \A c \in Calls(a) : c \in Active' => c \in C
      BY <1>1, <1>3, CallFacts
    <3>2. QED
      BY <2>1, <3>1 DEF CallsNow
  <2>2. CASE b # a
    <3>1. Busy(b) /\ frame'[b].at = frame[b].at
      BY <1>4, <2>2
    <3>2. \A c \in Calls(b) : c \in Active' => c \in Active
      BY <1>1, <1>2, <1>3, <2>2, CallFacts, OneCaller
    <3>3. QED
      BY <3>1, <3>2 DEF Stack, AtStep
  <2>3. QED
    BY <2>1, <2>2
<1>11. CallersBusy'
  <2> SUFFICES ASSUME NEW e \in Act, NEW b \in Act, b \in Active', AtOrBelow(b, e), e # b, Dom[e] = Dom[b]
               PROVE  Busy(e)'
    BY DEF CallersBusy
  <2>1. CASE b \in Active
    BY <1>7, <2>1 DEF Stack, CallersBusy
  <2>2. CASE b \in C
    <3>1. AtOrBelow(a, e) /\ Dom[e] = Dom[a]
      BY <1>1, <1>2, <2>2, AboveCall
    <3>2. CASE e = a
      BY <1>1, <3>2 DEF Busy
    <3>3. CASE e # a
      BY <1>1, <1>7, <3>1, <3>3 DEF Stack, CallersBusy
    <3>4. QED
      BY <3>2, <3>3
  <2>3. QED
    BY <1>3, <2>1, <2>2
<1>12. DeadIdle'
  <2> SUFFICES ASSUME NEW b \in Act, b \in Active' PROVE Alive(Dom[b])'
    BY DEF DeadIdle, Active
  <2>1. CASE b \in Active
    BY <1>8, <2>1 DEF Stack, DeadIdle
  <2>2. CASE b \in C
    BY <1>1, <1>2, <1>8, <2>2
  <2>3. QED
    BY <1>3, <2>1, <2>2
<1>13. Waiting'
  BY <1>7, <1>8, <1>9 DEF Waiting
<1>14. Settled'
  BY <1>1 DEF Settled, NothingBelow, Runs
<1>15. OneBranch'
  <2> SUFFICES ASSUME FlowAttempts > 1, NEW b \in Act, NEW c \in Act, b \in Active', c \in Active',
                      Dom[b] = Dom[c], Dom[b] # Main, Bears(b)
               PROVE  AtOrBelow(b, c) \/ AtOrBelow(c, b)
    BY DEF OneBranch, Active
  <2>1. CASE b \in Active /\ c \in Active
    BY <2>1 DEF OneBranch
  <2>2. ASSUME NEW y \in C, NEW z \in Active, Dom[y] = Dom[z], Dom[y] # Main, Bears(y) \/ Bears(z)
        PROVE  AtOrBelow(y, z)
    <3>1. z \in Act /\ Dom[a] = Dom[z] /\ y \in Act /\ AtOrBelow(y, a)
      BY <1>2, <2>2 DEF Active
    <3>2. Bears(y) => Bears(a)
      <4>1. Desc[y[1]] \subseteq Desc[a[1]]
        BY <1>1, <3>1, ActFacts, DescTrans DEF AtOrBelow
      <4>2. QED
        BY <4>1 DEF Bears
    <3>3. AtOrBelow(a, z) \/ AtOrBelow(z, a)
      BY <1>1, <1>2, <2>2, <3>1, <3>2 DEF OneBranch
    <3>4. CASE AtOrBelow(a, z)
      BY <1>1, <3>1, <3>4, BelowTrans
    <3>5. CASE AtOrBelow(z, a)
      <4>1. z = a
        BY <1>1, <3>1, <3>5, NoneBelow DEF Stack
      <4>2. QED
        BY <3>1, <4>1
    <3>6. QED
      BY <3>3, <3>4, <3>5
  <2>3. CASE b \in C /\ c \in Active
    BY <2>2, <2>3
  <2>4. CASE b \in Active /\ c \in C
    BY <2>2, <2>4
  <2>5. CASE b \in C /\ c \in C
    <3>1. a[1] \in Node /\ Mode(a[1]) \in Modes
      BY <1>1, ActFacts, NodeFacts
    <3>2. CASE Mode(a[1]) = "parallel"
      <4>1. b[1] \in Desc[a[1]] /\ b[1] \in Node /\ a[1] \in Node /\ Dom[a] # Main
        BY <1>1, <1>2, <2>5, ActFacts DEF AtOrBelow
      <4>2. DomNode[a[1]] # 0
        BY <1>1, <4>1, DomIs
      <4>3. Desc[b[1]] \subseteq Desc[a[1]]
        BY <4>1, DescTrans
      <4>4. PICK m \in Desc[b[1]] : Mode(m) = "workflow"
        BY DEF Bears
      <4>5. m \in Desc[a[1]]
        BY <4>3, <4>4
      <4>6. FALSE
        BY <3>2, <4>1, <4>2, <4>4, <4>5 DEF SafeTree
      <4>7. QED
        BY <4>6
    <3>3. CASE Mode(a[1]) = "activity"
      <4>1. C = {}
        BY <1>1, <3>3, StepCalls
      <4>2. QED
        BY <2>5, <4>1
    <3>4. CASE Mode(a[1]) \in {"pipeline", "shard"}
      <4>1. b = c
        BY <2>5, <3>4 DEF CallsNow
      <4>2. QED
        BY <4>1, BelowSelf
    <3>5. QED
      BY <1>1, <3>1, <3>2, <3>3, <3>4 DEF Modes
  <2>6. QED
    BY <1>3, <2>1, <2>3, <2>4, <2>5
<1>16. QED
  BY <1>10, <1>11, <1>12, <1>13, <1>14, <1>15 DEF Stack
(* Steps after which nothing runs that did not run before.                       *)
Left(b) ==
  /\ \A c \in Active' : AtOrBelow(c, b) /\ Dom[c] = Dom[b] => c = b
  /\ \A x \in Children : AtOrBelow(x, b) => ~Runs(x)'
Ends(d) == exec[Id[d]].status = "completed" \/ (FlowAttempts > 1 /\ exec[Id[d]].status = "failed")

(* In such a step all of it is kept.                                             *)
LEMMA FewerKeeps ==
  ASSUME Stack, Waiting, Settled, OneBranch,
         \A b \in Act : b \in Active' => b \in Active /\ Alive(Dom[b])',
         \A b \in Act : Busy(b)' => Busy(b) /\ frame'[b].at = frame[b].at,
         \A b \in Act : Alive(Dom[b])' => Alive(Dom[b]) /\ (Busy(b) => Busy(b)' \/ Left(b)),
         \A x \in Children : Runs(x)' => Runs(x),
         \A d \in Children : Ends(d)' => Ends(d) \/ NothingBelow(d)
  PROVE  Stack' /\ Waiting' /\ Settled' /\ OneBranch'
<1>1. AtStep'
  <2> SUFFICES ASSUME NEW b \in Act, Busy(b)'
      PROVE /\ Mode(b[1]) = "pipeline" =>
                 /\ frame'[b].at \in 1..Len(Tree[b[1]].steps)
                 /\ \A c \in Calls(b) : c \in Active' => c = Step(b, frame'[b].at)
            /\ Mode(b[1]) = "shard" =>
                 /\ frame'[b].at \in 0..Partitions(b)
                 /\ \A c \in Calls(b) : c \in Active' =>
                      c = IF frame'[b].at = 0 THEN Step(b, 1) ELSE HandlerOf(b, frame'[b].at)
    BY DEF AtStep
  <2>1. Busy(b) /\ frame'[b].at = frame[b].at
    OBVIOUS
  <2>2. \A c \in Calls(b) : c \in Active' => c \in Active
    BY CallFacts
  <2>3. QED
    BY <2>1, <2>2 DEF Stack, AtStep
<1>2. CallersBusy'
  <2> SUFFICES ASSUME NEW e \in Act, NEW b \in Act, b \in Active', AtOrBelow(b, e), e # b, Dom[e] = Dom[b]
               PROVE  Busy(e)'
    BY DEF CallersBusy
  <2>1. Busy(e) /\ Alive(Dom[e])'
    BY DEF Stack, CallersBusy
  <2>2. ~Left(e)
    BY DEF Left
  <2>3. QED
    BY <2>1, <2>2
<1>3. DeadIdle'
  BY DEF DeadIdle, Active
<1>4. Waiting'
  <2> SUFFICES ASSUME NEW x \in Children, NEW c \in Act, Runs(x)', AtOrBelow(x, c), Alive(Dom[c])'
               PROVE  Busy(c)'
    BY DEF Waiting
  <2>1. Busy(c)
    BY DEF Waiting
  <2>2. ~Left(c)
    BY DEF Left
  <2>3. QED
    BY <2>1, <2>2
<1>5. Settled'
  <2>1. \A d \in Children : NothingBelow(d) => NothingBelow(d)'
    BY DEF NothingBelow
  <2>2. \A d \in Children : Ends(d) => NothingBelow(d)
    BY DEF Settled, Ends
  <2>3. \A d \in Children : Ends(d)' => NothingBelow(d)'
    BY <2>1, <2>2
  <2>4. QED
    BY <2>3 DEF Settled, Ends
<1>6. OneBranch'
  <2> SUFFICES ASSUME FlowAttempts > 1, NEW b \in Act, NEW c \in Act, b \in Active', c \in Active',
                      Dom[b] = Dom[c], Dom[b] # Main, Bears(b)
               PROVE  AtOrBelow(b, c) \/ AtOrBelow(c, b)
    BY DEF OneBranch, Active
  <2>1. QED
    BY DEF OneBranch
<1>7. QED
  BY <1>1, <1>2, <1>3, <1>4, <1>5, <1>6 DEF Stack

(* A returned callee is consumed.                                                *)
LEMMA QuietKeeps ==
  ASSUME Stack, Waiting, Settled, OneBranch, Quiet
  PROVE  Stack' /\ Waiting' /\ Settled' /\ OneBranch'
<1>1. UNCHANGED <<status, exec>> /\ \A b \in Act : Same(b) \/ Released(b)
  BY DEF Quiet, Steady, Others
<1>2. \A b \in Act : (b \in Active' <=> b \in Active) /\ (Busy(b)' <=> Busy(b))
                     /\ (Busy(b)' => frame'[b].at = frame[b].at)
  BY <1>1 DEF Active, Busy, Same, Released
<1>3. \A d : (Alive(d)' <=> Alive(d)) /\ (Runs(d)' <=> Runs(d)) /\ (Ends(d)' <=> Ends(d))
  BY <1>1 DEF Alive, Running, Runs, Ends
<1>4. \A b \in Active : Alive(Dom[b])
  BY DEF Stack, DeadIdle
<1>5. QED
  BY <1>2, <1>3, <1>4, FewerKeeps

(* A phase returns.                                                              *)
LEMMA ReturnedKeeps ==
  ASSUME Stack, Waiting, Settled, OneBranch, NEW a \in Active, Returned(a)
  PROVE  Stack' /\ Waiting' /\ Settled' /\ OneBranch'
<1>1. /\ UNCHANGED <<status, exec>> /\ \A b \in Act \ {a} : Same(b) \/ Released(b)
      /\ frame'[a].st = "ok" /\ a \in Act /\ Alive(Dom[a])
  BY DEF Returned, Others, Active
<1>2. \A b \in Act : /\ b \in Active' => b \in Active /\ b # a
                     /\ Busy(b)' => Busy(b) /\ frame'[b].at = frame[b].at
                     /\ Busy(b) => Busy(b)' \/ b = a
  BY <1>1 DEF Active, Busy, Same, Released
<1>3. \A d : (Alive(d)' <=> Alive(d)) /\ (Runs(d)' <=> Runs(d)) /\ (Ends(d)' <=> Ends(d))
  BY <1>1 DEF Alive, Running, Runs, Ends
<1>4. \A b \in Active : Alive(Dom[b])
  BY DEF Stack, DeadIdle
<1>5. Left(a)
  <2>1. CASE Mode(a[1]) = "workflow"
    <3>1. a \in Children /\ exec[Id[a]].status = "completed"
      BY <1>1, <2>1 DEF Returned, Children
    <3>2. \A c \in Active' : AtOrBelow(c, a) /\ Dom[c] = Dom[a] => c = a
      BY <3>1, ChildIsTip DEF Active
    <3>3. \A x \in Children : AtOrBelow(x, a) => ~Runs(x)
      BY <3>1 DEF Settled, NothingBelow, Runs
    <3>4. QED
      BY <1>3, <3>2, <3>3 DEF Left
  <2>2. CASE Mode(a[1]) # "workflow"
    <3>1. Calls(a) \cap Active = {}
      BY <2>2 DEF Returned
    <3>2. \A c \in Active' : AtOrBelow(c, a) /\ Dom[c] = Dom[a] => c = a
      <4>1. \A c \in Active' : c \in Active
        BY <1>2 DEF Active
      <4>2. QED
        BY <1>1, <2>2, <3>1, <4>1, NoneBelow DEF Stack
    <3>3. ASSUME NEW x \in Children, AtOrBelow(x, a), Runs(x) PROVE FALSE
      <4>1. x \in Act /\ x # a
        BY <2>2 DEF Children
      <4>2. PICK c \in Calls(a) : AtOrBelow(x, c)
        BY <1>1, <3>3, <4>1, BelowSplit
      <4>3. c \in Act /\ Dom[c] = Dom[a]
        BY <1>1, <2>2, CallFacts, DomCalls DEF Flow
      <4>4. Busy(c)
        BY <1>1, <3>3, <4>2, <4>3 DEF Waiting
      <4>5. QED
        BY <3>1, <4>3, <4>4 DEF Busy, Active
    <3>4. QED
      BY <1>3, <3>2, <3>3 DEF Left
  <2>3. QED
    BY <2>1, <2>2
<1>6. QED
  BY <1>2, <1>3, <1>4, <1>5, FewerKeeps

(* The job fails.                                                                *)
LEMMA MainFailsKeeps ==
  ASSUME Stack, Waiting, Settled, OneBranch, MainFails
  PROVE  Stack' /\ Waiting' /\ Settled' /\ OneBranch'
<1>1. /\ status' = "failed" /\ UNCHANGED exec
      /\ \A b \in Act : IF Dom[b] = Main THEN frame'[b].st = "idle" ELSE Same(b)
  BY DEF MainFails, Vacated
<1>2. \A b \in Act : /\ b \in Active' => b \in Active /\ Dom[b] # Main
                     /\ Busy(b)' => Busy(b) /\ frame'[b].at = frame[b].at
                     /\ Busy(b) => Busy(b)' \/ Dom[b] = Main
  BY <1>1 DEF Active, Busy, Same
<1>3. \A d : /\ Alive(d)' <=> d # Main /\ Alive(d)
             /\ Runs(d)' <=> Runs(d)
             /\ Ends(d)' <=> Ends(d)
  BY <1>1 DEF Alive, Running, Runs, Ends
<1>4. \A b \in Active : Alive(Dom[b])
  BY DEF Stack, DeadIdle
<1>5. QED
  BY <1>2, <1>3, <1>4, FewerKeeps

(* A child is closed without having completed.                                   *)
LEMMA FlowClosesKeeps ==
  ASSUME SafeTree, Execs, Execs', Stack, Waiting, Settled, OneBranch, NEW d \in Children, FlowCloses(d)
  PROVE  Stack' /\ Waiting' /\ Settled' /\ OneBranch'
<1>1. /\ UNCHANGED status /\ Runs(d) /\ exec'[Id[d]].status \in {"failed", "terminated"}
      /\ FlowAttempts > 1 /\ exec'[Id[d]].status = "failed" => NothingBelow(d)
      /\ \A x \in Children \ {d} : exec'[Id[x]] = exec[Id[x]]
      /\ \A b \in Act : IF Dom[b] = d THEN frame'[b].st = "idle" ELSE Same(b)
  BY DEF FlowCloses, Vacated, Elsewhere
<1>2. \A b \in Act : /\ b \in Active' => b \in Active /\ Dom[b] # d
                     /\ Busy(b)' => Busy(b) /\ frame'[b].at = frame[b].at
                     /\ Busy(b) => Busy(b)' \/ Dom[b] = d
  BY <1>1 DEF Active, Busy, Same
<1>3. d # Main /\ \A b \in Act : Dom[b] # Main => Dom[b] \in Children
  BY NotMain, DomFacts DEF Children
<1>4. \A b \in Act : Alive(Dom[b])' <=> Dom[b] # d /\ Alive(Dom[b])
  BY <1>1, <1>3, AliveIs, AliveNext DEF Runs
<1>5. \A x \in Children : Runs(x)' => Runs(x)
  BY <1>1 DEF Runs
<1>6. \A x \in Children : Ends(x)' => Ends(x) \/ NothingBelow(x)
  BY <1>1 DEF Ends
<1>7. \A b \in Active : b \in Act /\ Alive(Dom[b])
  BY DEF Stack, DeadIdle, Active
<1>8. QED
  BY <1>2, <1>4, <1>5, <1>6, <1>7, FewerKeeps

(* A child ends by itself.                                                       *)
LEMMA ChildEndsKeeps ==
  ASSUME SafeTree, Execs, Execs', Stack, Waiting, Settled, OneBranch, NEW d \in Children, ChildEnds(d)
  PROVE  Stack' /\ Waiting' /\ Settled' /\ OneBranch'
<1>1. /\ UNCHANGED status /\ Runs(d) /\ exec'[Id[d]].status \in {"completed", "failed"} /\ NothingBelow(d)
      /\ \A x \in Children \ {d} : exec'[Id[x]] = exec[Id[x]]
      /\ \A b \in Act : Same(b)
      /\ \A b \in Active : Dom[b] # d
  BY DEF ChildEnds, Elsewhere
<1>2. \A b \in Act : /\ b \in Active' => b \in Active /\ Dom[b] # d
                     /\ Busy(b)' <=> Busy(b)
                     /\ frame'[b].at = frame[b].at
  BY <1>1 DEF Active, Busy, Same
<1>3. d # Main /\ \A b \in Act : Dom[b] # Main => Dom[b] \in Children
  BY NotMain, DomFacts DEF Children
<1>4. \A b \in Act : Alive(Dom[b])' <=> Dom[b] # d /\ Alive(Dom[b])
  BY <1>1, <1>3, AliveIs, AliveNext DEF Runs
<1>5. \A x \in Children : Runs(x)' => Runs(x)
  BY <1>1 DEF Runs
<1>6. \A x \in Children : Ends(x)' => Ends(x) \/ NothingBelow(x)
  BY <1>1 DEF Ends
<1>7. \A b \in Active : b \in Act /\ Alive(Dom[b])
  BY DEF Stack, DeadIdle, Active
<1>8. QED
  BY <1>2, <1>4, <1>5, <1>6, <1>7, FewerKeeps

(* The job completes.                                                            *)
LEMMA CompletesKeeps ==
  ASSUME Stack, Waiting, Settled, OneBranch, Completes
  PROVE  Stack' /\ Waiting' /\ Settled' /\ OneBranch'
<1>1. status' = "completed" /\ UNCHANGED exec /\ frame[Root].st = "ok" /\ \A b \in Act : Same(b)
  BY DEF Completes
<1>2. \A b \in Act : /\ b \in Active' <=> b \in Active
                     /\ Busy(b)' <=> Busy(b)
                     /\ frame'[b].at = frame[b].at
  BY <1>1 DEF Active, Busy, Same
<1>3. \A d : /\ Alive(d)' <=> d # Main /\ Alive(d)
             /\ Runs(d)' <=> Runs(d)
             /\ Ends(d)' <=> Ends(d)
  BY <1>1 DEF Alive, Running, Runs, Ends, Completes
<1>4. \A b \in Active : b \in Act /\ Alive(Dom[b])
  BY DEF Stack, DeadIdle, Active
<1>5. ASSUME NEW b \in Active, Dom[b] = Main PROVE FALSE
  <2>1. b \in Act /\ Root \in Act /\ Dom[Root] = Main /\ AtOrBelow(b, Root) /\ b # Root
    BY <1>1, <1>4, RootAct, AllBelowRoot DEF Active
  <2>2. Busy(Root)
    BY <1>5, <2>1 DEF Stack, CallersBusy
  <2>3. QED
    BY <1>1, <2>2 DEF Busy
<1>6. QED
  BY <1>2, <1>3, <1>4, <1>5, FewerKeeps

(* A child is started: by the reuse policy none of this ID runs, and none below   *)
(* it, as those of an earlier run have ended (Careful).                          *)
LEMMA StartedKeeps ==
  ASSUME SafeTree, Execs, Execs', Stack, Waiting, Settled, OneBranch, NEW a \in Active, Started(a)
  PROVE  Stack' /\ Waiting' /\ Settled' /\ OneBranch'
<1>1. /\ a \in Act /\ ~Busy(a) /\ Alive(Dom[a]) /\ a \in Children /\ Mode(a[1]) = "workflow"
      /\ exec[Id[a]].status # "running" /\ exec'[Id[a]].status = "running"
      /\ \A x \in Children \ {a} : exec'[Id[x]] = exec[Id[x]]
      /\ frame'[a].st = "busy" /\ \A c \in Calls(a) : frame'[c].st = "called"
      /\ \A b \in Act \ (Calls(a) \cup {a}) : Same(b) \/ Released(b)
      /\ UNCHANGED status
  BY DEF Started, Others, Elsewhere, Children, Active
<1>2. \A c \in Calls(a) : c \in Act /\ AtOrBelow(c, a) /\ c # a /\ Dom[c] = a /\ Flow(a[1])
  BY <1>1, CallFacts, DomCalls, FlowCalls
<1>3. a # Main /\ \A b \in Act : Dom[b] # Main => Dom[b] \in Children
  BY <1>1, NotMain, DomFacts
<1>4. \A b \in Act : Alive(Dom[b])' <=> Dom[b] = a \/ Alive(Dom[b])
  BY <1>1, <1>3, AliveIs, AliveNext DEF Runs
<1>5. \A b \in Act : Dom[b] = a => b \notin Active
  BY <1>1, <1>3, AliveIs DEF Stack, DeadIdle, Runs
<1>6. \A b \in Act : b \in Active' => b \in Active \/ b \in Calls(a)
  BY <1>1 DEF Active, Same, Released
<1>7. \A b \in Act : Busy(b)' => b = a \/ (Busy(b) /\ frame'[b].at = frame[b].at)
  BY <1>1 DEF Busy, Same, Released
<1>8. \A b \in Act : Busy(b) => Busy(b)'
  <2> SUFFICES ASSUME NEW b \in Act, Busy(b) PROVE Busy(b)'
    OBVIOUS
  <2>1. b \notin Calls(a) /\ b # a
    BY <1>1, <1>2, <1>5 DEF Busy, Active
  <2>2. QED
    BY <1>1, <2>1 DEF Busy, Same, Released
<1>9. \A x \in Children : Runs(x)' <=> x = a \/ Runs(x)
  BY <1>1 DEF Runs
<1>10. AtStep'
  <2> SUFFICES ASSUME NEW b \in Act, Busy(b)'
      PROVE /\ Mode(b[1]) = "pipeline" =>
                 /\ frame'[b].at \in 1..Len(Tree[b[1]].steps)
                 /\ \A c \in Calls(b) : c \in Active' => c = Step(b, frame'[b].at)
            /\ Mode(b[1]) = "shard" =>
                 /\ frame'[b].at \in 0..Partitions(b)
                 /\ \A c \in Calls(b) : c \in Active' =>
                      c = IF frame'[b].at = 0 THEN Step(b, 1) ELSE HandlerOf(b, frame'[b].at)
    BY DEF AtStep
  <2>1. CASE b = a
    BY <1>1, <2>1
  <2>2. CASE b # a
    <3>1. Busy(b) /\ frame'[b].at = frame[b].at
      BY <1>7, <2>2
    <3>2. \A c \in Calls(b) : c \in Active' => c \in Active
      BY <1>1, <1>6, <2>2, CallFacts, OneCaller
    <3>3. QED
      BY <3>1, <3>2 DEF Stack, AtStep
  <2>3. QED
    BY <2>1, <2>2
<1>11. CallersBusy'
  <2> SUFFICES ASSUME NEW e \in Act, NEW b \in Act, b \in Active', AtOrBelow(b, e), e # b, Dom[e] = Dom[b]
               PROVE  Busy(e)'
    BY DEF CallersBusy
  <2>1. CASE b \in Active
    BY <1>8, <2>1 DEF Stack, CallersBusy
  <2>2. CASE b \in Calls(a)
    <3>1. e = b
      BY <1>1, <1>2, <2>2, TopOfFlow
    <3>2. QED
      BY <3>1
  <2>3. QED
    BY <1>6, <2>1, <2>2
<1>12. DeadIdle'
  <2> SUFFICES ASSUME NEW b \in Act, b \in Active' PROVE Alive(Dom[b])'
    BY DEF DeadIdle, Active
  <2>1. CASE b \in Active
    BY <1>4, <2>1 DEF Stack, DeadIdle
  <2>2. CASE b \in Calls(a)
    BY <1>2, <1>4, <2>2
  <2>3. QED
    BY <1>6, <2>1, <2>2
<1>13. Waiting'
  <2> SUFFICES ASSUME NEW x \in Children, NEW c \in Act, Runs(x)', AtOrBelow(x, c), Alive(Dom[c])'
               PROVE  Busy(c)'
    BY DEF Waiting
  <2>1. x \in Act
    BY DEF Children
  <2>2. CASE x # a
    <3>1. Runs(x)
      BY <1>9, <2>2
    <3>2. CASE Dom[c] = a
      <4>1. AtOrBelow(c, a)
        BY <1>3, <3>2, DomFacts
      <4>2. AtOrBelow(x, a)
        BY <1>1, <2>1, <4>1, BelowTrans
      <4>3. Busy(a)
        BY <1>1, <3>1, <4>2 DEF Waiting
      <4>4. QED
        BY <1>1, <4>3
    <3>3. CASE Dom[c] # a
      BY <1>4, <1>8, <3>1, <3>3 DEF Waiting
    <3>4. QED
      BY <3>2, <3>3
  <2>3. CASE x = a /\ c = a
    BY <1>1, <2>3 DEF Busy
  <2>4. CASE x = a /\ c # a
    <3>1. AtOrBelow(a, c)
      BY <2>4
    <3>2. Dom[c] # a
      BY <1>1, <1>3, <2>4, <3>1, DomFacts, Antisymmetric
    <3>3. Alive(Dom[c])
      BY <1>4, <3>2
    <3>4. CASE Dom[a] = Dom[c]
      BY <1>1, <1>8, <2>4, <3>1, <3>4 DEF Stack, CallersBusy
    <3>5. CASE Dom[a] # Main /\ AtOrBelow(Dom[a], c)
      <4>1. Dom[a] \in Children /\ Runs(Dom[a])
        BY <1>1, <3>5, AliveIs
      <4>2. Busy(c)
        BY <3>3, <3>5, <4>1 DEF Waiting
      <4>3. QED
        BY <1>8, <4>2
    <3>6. QED
      BY <1>1, <3>1, <3>4, <3>5, DomBelow
  <2>5. QED
    BY <2>2, <2>3, <2>4
<1>14. Settled'
  <2> SUFFICES ASSUME NEW d \in Children, Ends(d)', NEW x \in Children, AtOrBelow(x, d), x # d, Runs(x)'
               PROVE  FALSE
    BY DEF Settled, Ends, NothingBelow
  <2>1. d # a /\ d \in Act /\ x \in Act
    BY <1>1 DEF Ends, Children
  <2>2. Ends(d)
    BY <1>1, <2>1 DEF Ends
  <2>3. NothingBelow(d)
    BY <2>2 DEF Settled, Ends
  <2>4. x = a
    BY <1>9, <2>3 DEF NothingBelow
  <2>5. Dom[a] # Dom[d]
    BY <1>1, <2>1, <2>4, ChildIsTip
  <2>6. Dom[a] # Main /\ AtOrBelow(Dom[a], d)
    BY <1>1, <2>1, <2>4, <2>5, DomBelow
  <2>7. Dom[a] \in Children /\ Runs(Dom[a])
    BY <1>1, <2>6, AliveIs
  <2>8. CASE Dom[a] = d
    BY <2>2, <2>7, <2>8 DEF Ends, Runs
  <2>9. CASE Dom[a] # d
    BY <2>3, <2>6, <2>7, <2>9 DEF NothingBelow
  <2>10. QED
    BY <2>8, <2>9
<1>15. OneBranch'
  <2> SUFFICES ASSUME FlowAttempts > 1, NEW b \in Act, NEW c \in Act, b \in Active', c \in Active',
                      Dom[b] = Dom[c], Dom[b] # Main, Bears(b)
               PROVE  AtOrBelow(b, c) \/ AtOrBelow(c, b)
    BY DEF OneBranch, Active
  <2>1. CASE b \in Active /\ c \in Active
    BY <2>1 DEF OneBranch
  <2>2. CASE b \in Calls(a) \/ c \in Calls(a)
    <3>1. Dom[b] = a
      BY <1>2, <2>2
    <3>2. b \in Calls(a) /\ c \in Calls(a)
      BY <1>5, <1>6, <3>1
    <3>3. b = c
      BY <1>1, <1>2, <3>2, FlowCalls
    <3>4. QED
      BY <3>3, BelowSelf
  <2>3. QED
    BY <1>6, <2>1, <2>2
<1>16. QED
  BY <1>10, <1>11, <1>12, <1>13, <1>14, <1>15 DEF Stack

(* A flow is tried again.                                                        *)
LEMMA FlowRestartsKeeps ==
  ASSUME SafeTree, Execs, Execs', Stack, Waiting, Settled, OneBranch, NEW d \in Children, FlowRestarts(d)
  PROVE  Stack' /\ Waiting' /\ Settled' /\ OneBranch'
<1> DEFINE s == Step(d, 1)
<1>1. /\ UNCHANGED status /\ Runs(d) /\ Flow(d[1]) /\ exec'[Id[d]].status = "running" /\ NothingBelow(d)
      /\ \A x \in Children \ {d} : exec'[Id[x]] = exec[Id[x]]
      /\ frame'[s].st = "called"
      /\ \A b \in Act \ {s} : IF Dom[b] = d THEN frame'[b].st = "idle" ELSE Same(b)
      /\ d \in Act /\ Mode(d[1]) = "workflow"
  BY DEF FlowRestarts, Vacated, Elsewhere, Children
<1>2. s \in Act /\ s \in Calls(d) /\ Dom[s] = d
  BY <1>1, FlowCalls
<1> HIDE DEF s
<1>3. \A b \in Act : /\ b \in Active' => (b \in Active /\ Dom[b] # d) \/ b = s
                     /\ Busy(b)' => Busy(b) /\ frame'[b].at = frame[b].at /\ Dom[b] # d
                     /\ Busy(b) => Busy(b)' \/ Dom[b] = d
  BY <1>1, <1>2 DEF Active, Busy, Same
<1>4. d # Main /\ \A b \in Act : Dom[b] # Main => Dom[b] \in Children
  BY <1>1, NotMain, DomFacts
<1>5. \A x \in Children : Runs(x)' <=> Runs(x)
  BY <1>1 DEF Runs
<1>6. \A b \in Act : Alive(Dom[b])' <=> Alive(Dom[b])
  BY <1>1, <1>4, <1>5, AliveIs, AliveNext DEF Runs
<1>7. \A x \in Children : Ends(x)' => Ends(x)
  BY <1>1 DEF Ends
<1>8. AtStep'
  <2> SUFFICES ASSUME NEW b \in Act, Busy(b)'
      PROVE /\ Mode(b[1]) = "pipeline" =>
                 /\ frame'[b].at \in 1..Len(Tree[b[1]].steps)
                 /\ \A c \in Calls(b) : c \in Active' => c = Step(b, frame'[b].at)
            /\ Mode(b[1]) = "shard" =>
                 /\ frame'[b].at \in 0..Partitions(b)
                 /\ \A c \in Calls(b) : c \in Active' =>
                      c = IF frame'[b].at = 0 THEN Step(b, 1) ELSE HandlerOf(b, frame'[b].at)
    BY DEF AtStep
  <2>1. CASE b = d
    BY <1>1, <2>1
  <2>2. CASE b # d
    <3>1. Busy(b) /\ frame'[b].at = frame[b].at
      BY <1>3
    <3>2. \A c \in Calls(b) : c \in Active' => c \in Active
      BY <1>1, <1>2, <1>3, <2>2, CallFacts, OneCaller
    <3>3. QED
      BY <3>1, <3>2 DEF Stack, AtStep
  <2>3. QED
    BY <2>1, <2>2
<1>9. CallersBusy'
  <2> SUFFICES ASSUME NEW e \in Act, NEW b \in Act, b \in Active', AtOrBelow(b, e), e # b, Dom[e] = Dom[b]
               PROVE  Busy(e)'
    BY DEF CallersBusy
  <2>1. CASE b \in Active /\ Dom[b] # d
    BY <1>3, <2>1 DEF Stack, CallersBusy
  <2>2. CASE b = s
    <3>1. e = b
      BY <1>1, <1>2, <2>2, TopOfFlow
    <3>2. QED
      BY <3>1
  <2>3. QED
    BY <1>3, <2>1, <2>2
<1>10. DeadIdle'
  <2> SUFFICES ASSUME NEW b \in Act, b \in Active' PROVE Alive(Dom[b])'
    BY DEF DeadIdle, Active
  <2>1. CASE b \in Active
    BY <1>6, <2>1 DEF Stack, DeadIdle
  <2>2. CASE b = s
    BY <1>1, <1>2, <1>4, <1>6, <2>2, AliveIs
  <2>3. QED
    BY <1>3, <2>1, <2>2
<1>11. Waiting'
  <2> SUFFICES ASSUME NEW x \in Children, NEW c \in Act, Runs(x)', AtOrBelow(x, c), Alive(Dom[c])'
               PROVE  Busy(c)'
    BY DEF Waiting
  <2>1. Busy(c) /\ Runs(x) /\ x \in Act
    BY <1>5, <1>6 DEF Waiting, Children
  <2>2. ASSUME Dom[c] = d PROVE FALSE
    <3>1. AtOrBelow(c, d) /\ c # d
      BY <1>4, <2>2, DomFacts
    <3>2. AtOrBelow(x, d)
      BY <1>1, <2>1, <3>1, BelowTrans
    <3>3. x = d
      BY <1>1, <2>1, <3>2 DEF NothingBelow
    <3>4. QED
      BY <1>1, <3>1, <3>3, Antisymmetric
  <2>3. QED
    BY <1>3, <2>1, <2>2
<1>12. Settled'
  <2>1. \A x \in Children : NothingBelow(x) => NothingBelow(x)'
    BY <1>5 DEF NothingBelow
  <2>2. QED
    BY <1>7, <2>1 DEF Settled, Ends
<1>13. OneBranch'
  <2> SUFFICES ASSUME FlowAttempts > 1, NEW b \in Act, NEW c \in Act, b \in Active', c \in Active',
                      Dom[b] = Dom[c], Dom[b] # Main, Bears(b)
               PROVE  AtOrBelow(b, c) \/ AtOrBelow(c, b)
    BY DEF OneBranch, Active
  <2>1. CASE b \in Active /\ c \in Active
    BY <2>1 DEF OneBranch
  <2>2. CASE b = s \/ c = s
    <3>1. b = s /\ c = s
      BY <1>2, <1>3, <2>2
    <3>2. QED
      BY <3>1, BelowSelf
  <2>3. QED
    BY <1>3, <2>1, <2>2
<1>14. QED
  BY <1>8, <1>9, <1>10, <1>11, <1>12, <1>13 DEF Stack

(* The job is started again.                                                     *)
LEMMA RerunsKeeps ==
  ASSUME Stack, Waiting, Settled, OneBranch, Reruns
  PROVE  Stack' /\ Waiting' /\ Settled' /\ OneBranch'
<1>1. /\ status = "failed" /\ status' = "running" /\ UNCHANGED exec /\ (\A x \in Children : ~Runs(x))
      /\ frame'[Root].st = "called" /\ \A b \in Act \ {Root} : Same(b)
      /\ Root \in Act /\ Dom[Root] = Main
  BY RootAct DEF Reruns
<1>2. \A b \in Act : /\ b \in Active' => b \in Active \/ b = Root
                     /\ Busy(b)' => Busy(b) /\ frame'[b].at = frame[b].at /\ b # Root
                     /\ Busy(b) => Busy(b)' \/ b = Root
  BY <1>1 DEF Active, Busy, Same
<1>3. \A b \in Act : b \in Active => Dom[b] # Main /\ Alive(Dom[b])
  BY <1>1 DEF Stack, DeadIdle, Alive
<1>4. \A d : d # Main => (Alive(d)' <=> Alive(d))
  BY <1>1 DEF Alive, Running
<1>5. \A b \in Act : AtOrBelow(Root, b) => b = Root
  BY <1>1, AllBelowRoot, Antisymmetric
<1>6. AtStep'
  <2> SUFFICES ASSUME NEW b \in Act, Busy(b)'
      PROVE /\ Mode(b[1]) = "pipeline" =>
                 /\ frame'[b].at \in 1..Len(Tree[b[1]].steps)
                 /\ \A c \in Calls(b) : c \in Active' => c = Step(b, frame'[b].at)
            /\ Mode(b[1]) = "shard" =>
                 /\ frame'[b].at \in 0..Partitions(b)
                 /\ \A c \in Calls(b) : c \in Active' =>
                      c = IF frame'[b].at = 0 THEN Step(b, 1) ELSE HandlerOf(b, frame'[b].at)
    BY DEF AtStep
  <2>1. Busy(b) /\ frame'[b].at = frame[b].at
    BY <1>2
  <2>2. \A c \in Calls(b) : c \in Active' => c \in Active
    <3> SUFFICES ASSUME NEW c \in Calls(b), c = Root PROVE FALSE
      BY <1>2, CallFacts
    <3>1. AtOrBelow(c, b) /\ c # b
      BY CallFacts
    <3>2. QED
      BY <1>5, <3>1
  <2>3. QED
    BY <2>1, <2>2 DEF Stack, AtStep
<1>7. CallersBusy'
  <2> SUFFICES ASSUME NEW e \in Act, NEW b \in Act, b \in Active', AtOrBelow(b, e), e # b, Dom[e] = Dom[b]
               PROVE  Busy(e)'
    BY DEF CallersBusy
  <2>1. b # Root
    BY <1>5
  <2>2. b \in Active
    BY <1>2, <2>1
  <2>3. e # Root
    BY <1>1, <1>3, <2>2
  <2>4. QED
    BY <1>2, <2>2, <2>3 DEF Stack, CallersBusy
<1>8. DeadIdle'
  <2> SUFFICES ASSUME NEW b \in Act, b \in Active' PROVE Alive(Dom[b])'
    BY DEF DeadIdle, Active
  <2>1. CASE b \in Active
    BY <1>3, <1>4, <2>1
  <2>2. CASE b = Root
    BY <1>1, <2>2 DEF Alive
  <2>3. QED
    BY <1>2, <2>1, <2>2
<1>9. Waiting'
  BY <1>1 DEF Waiting, Runs
<1>10. Settled'
  BY <1>1 DEF Settled, NothingBelow, Runs
<1>11. OneBranch'
  <2> SUFFICES ASSUME FlowAttempts > 1, NEW b \in Act, NEW c \in Act, b \in Active', c \in Active',
                      Dom[b] = Dom[c], Dom[b] # Main, Bears(b)
               PROVE  AtOrBelow(b, c) \/ AtOrBelow(c, b)
    BY DEF OneBranch, Active
  <2>1. b # Root /\ c # Root
    BY <1>1
  <2>2. QED
    BY <1>2, <2>1 DEF OneBranch
<1>12. QED
  BY <1>6, <1>7, <1>8, <1>9, <1>10, <1>11 DEF Stack

(* What returned, completed or was passed is finished: kept by a step that undoes *)
(* nothing and passes only what is finished.                                     *)
LEMMA FinKeeps ==
  ASSUME Fin, Grows,
         \A x \in Children : exec[Id[x]].status = "completed" => exec'[Id[x]].status = "completed",
         \A b \in Act : frame'[b].st = "ok" => frame[b].st = "ok" \/ Finished(b)',
         \A x \in Children : exec'[Id[x]].status = "completed" =>
           exec[Id[x]].status = "completed" \/ Finished(x)',
         \A b \in Act : Busy(b)' =>
           \/ BusyFin(b)'
           \/ /\ Busy(b) /\ frame'[b].at = frame[b].at
              /\ Mode(b[1]) = "parallel" =>
                   \A c \in Calls(b) : frame'[c].st = "idle" => frame[c].st \in {"idle", "ok"}
  PROVE  Fin'
<1>1. \A a : Finished(a) => Finished(a)'
  BY FinishedGrows
<1>2. FinOk'
  BY <1>1 DEF Fin, FinOk
<1>3. FinExec'
  BY <1>1 DEF Fin, FinExec
<1>4. FinBusy'
  <2> SUFFICES ASSUME NEW b \in Act, Busy(b), frame'[b].at = frame[b].at,
                      Mode(b[1]) = "parallel" =>
                        \A c \in Calls(b) : frame'[c].st = "idle" => frame[c].st \in {"idle", "ok"}
               PROVE  BusyFin(b)'
    BY DEF FinBusy
  <2>1. BusyFin(b)
    BY DEF Fin, FinBusy
  <2>2. Mode(b[1]) = "pipeline" => \A j \in 1..(frame'[b].at - 1) : Finished(Step(b, j))'
    BY <1>1, <2>1 DEF BusyFin
  <2>3. Mode(b[1]) = "parallel" => \A c \in Calls(b) : frame'[c].st = "idle" => Finished(c)'
    BY <1>1, <2>1, CallFacts DEF BusyFin, Fin, FinOk
  <2>4. Mode(b[1]) = "shard" /\ frame'[b].at > 0 =>
          /\ Finished(Step(b, 1))'
          /\ \A i \in 1..(frame'[b].at - 1) : Finished(HandlerOf(b, i))'
    BY <1>1, <2>1 DEF BusyFin
  <2>5. QED
    BY <2>2, <2>3, <2>4 DEF BusyFin
<1>5. QED
  BY <1>2, <1>3, <1>4 DEF Fin

(* By the steps of a phase.                                                      *)
LEMMA EffectFin ==
  ASSUME Fin, NEW a \in Act, Effect(a)
  PROVE  Fin'
<1>1. Grows /\ UNCHANGED exec
  BY DEF Effect, Steady, Grows
<1>2. CASE Returned(a) /\ Finished(a)'
  <2>1. frame'[a].st = "ok" /\ \A b \in Act \ {a} : Same(b) \/ Released(b)
    BY <1>2 DEF Returned, Others
  <2>2. \A b \in Act : frame'[b].st = "ok" => frame[b].st = "ok" \/ Finished(b)'
    BY <1>2, <2>1 DEF Same, Released
  <2>3. \A b \in Act : Busy(b)' => Busy(b) /\ frame'[b].at = frame[b].at
    BY <2>1 DEF Busy, Same, Released
  <2>4. \A b \in Act : frame'[b].st = "idle" => frame[b].st \in {"idle", "ok"}
    BY <2>1 DEF Same, Released
  <2>5. QED
    BY <1>1, <2>2, <2>3, <2>4, CallFacts, FinKeeps
<1>3. ASSUME NEW C, CallsNow(a, C), BusyFin(a)' PROVE Fin'
  <2>1. frame'[a].st = "busy" /\ (\A c \in C : frame'[c].st = "called")
        /\ \A b \in Act \ (C \cup {a}) : Same(b) \/ Released(b)
    BY <1>3 DEF CallsNow, Others
  <2>2. \A b \in Act : frame'[b].st = "ok" => frame[b].st = "ok"
    BY <2>1 DEF Same, Released
  <2>3. \A b \in Act : Busy(b)' => b = a \/ (Busy(b) /\ frame'[b].at = frame[b].at)
    BY <2>1 DEF Busy, Same, Released
  <2>4. \A b \in Act : frame'[b].st = "idle" => frame[b].st \in {"idle", "ok"}
    BY <2>1 DEF Same, Released
  <2>5. QED
    BY <1>1, <1>3, <2>2, <2>3, <2>4, CallFacts, FinKeeps
<1>4. CASE Quiet
  <2>1. \A b \in Act : Same(b) \/ Released(b)
    BY <1>4 DEF Quiet, Others
  <2>2. \A b \in Act : frame'[b].st = "ok" => frame[b].st = "ok"
    BY <2>1 DEF Same, Released
  <2>3. \A b \in Act : Busy(b)' => Busy(b) /\ frame'[b].at = frame[b].at
    BY <2>1 DEF Busy, Same, Released
  <2>4. \A b \in Act : frame'[b].st = "idle" => frame[b].st \in {"idle", "ok"}
    BY <2>1 DEF Same, Released
  <2>5. QED
    BY <1>1, <2>2, <2>3, <2>4, CallFacts, FinKeeps
<1>5. QED
  BY <1>2, <1>3, <1>4 DEF Effect

(* By the start of a child.                                                      *)
LEMMA StartedFin ==
  ASSUME Fin, Grows, NEW a \in Active, Started(a)
  PROVE  Fin'
<1>1. /\ a \in Act /\ a \in Children /\ Mode(a[1]) = "workflow"
      /\ exec[Id[a]].status # "completed" /\ exec'[Id[a]].status = "running"
      /\ \A x \in Children \ {a} : exec'[Id[x]] = exec[Id[x]]
      /\ frame'[a].st = "busy" /\ \A c \in Calls(a) : frame'[c].st = "called"
      /\ \A b \in Act \ (Calls(a) \cup {a}) : Same(b) \/ Released(b)
  BY DEF Started, Others, Elsewhere, Children, Active
<1>2. \A b \in Act : frame'[b].st = "ok" => frame[b].st = "ok"
  BY <1>1 DEF Same, Released
<1>3. BusyFin(a)'
  BY <1>1 DEF BusyFin
<1>4. \A b \in Act : Busy(b)' => b = a \/ (Busy(b) /\ frame'[b].at = frame[b].at)
  BY <1>1 DEF Busy, Same, Released
<1>5. \A b \in Act : frame'[b].st = "idle" => frame[b].st \in {"idle", "ok"}
  BY <1>1 DEF Same, Released
<1>6. \A x \in Children : exec[Id[x]].status = "completed" <=> exec'[Id[x]].status = "completed"
  BY <1>1
<1>7. QED
  BY <1>2, <1>3, <1>4, <1>5, <1>6, CallFacts, FinKeeps

(* When a workflow is vacated.                                                   *)
LEMMA VacatedFin ==
  ASSUME Fin, Grows, NEW d, NEW S \in SUBSET Act, Vacated(d, S),
         \A s \in S : Dom[s] = d /\ frame'[s].st = "called",
         \A x \in Children : exec[Id[x]].status = "completed" <=> exec'[Id[x]].status = "completed"
  PROVE  Fin'
<1>1. \A b \in Act : Dom[b] # d => Same(b)
  BY DEF Vacated
<1>2. \A b \in Act : Dom[b] = d => frame'[b].st \in {"idle", "called"}
  BY DEF Vacated
<1>3. \A b \in Act : frame'[b].st = "ok" => frame[b].st = "ok"
  BY <1>1, <1>2 DEF Same
<1>4. ASSUME NEW b \in Act, Busy(b)'
      PROVE  /\ Busy(b) /\ frame'[b].at = frame[b].at
             /\ Mode(b[1]) = "parallel" =>
                  \A c \in Calls(b) : frame'[c].st = "idle" => frame[c].st \in {"idle", "ok"}
  <2>1. Dom[b] # d
    BY <1>2, <1>4 DEF Busy
  <2>2. Busy(b) /\ frame'[b].at = frame[b].at
    BY <1>1, <1>4, <2>1 DEF Busy, Same
  <2>3. ASSUME Mode(b[1]) = "parallel", NEW c \in Calls(b) PROVE Same(c)
    BY <1>1, <2>1, <2>3, CallFacts, DomCalls DEF Flow
  <2>4. QED
    BY <2>2, <2>3 DEF Same
<1>5. QED
  BY <1>3, <1>4, FinKeeps

(* By the other steps.                                                           *)
LEMMA OthersFin ==
  ASSUME Fin, Grows,
         \/ MainFails \/ Completes \/ Reruns
         \/ \E d \in Children : FlowCloses(d) \/ FlowRestarts(d) \/ Done(d)
  PROVE  Fin'
<1>1. CASE MainFails
  <2>1. Vacated(Main, {}) /\ UNCHANGED exec
    BY <1>1 DEF MainFails
  <2>2. QED
    BY <2>1, VacatedFin
<1>2. ASSUME NEW d \in Children, FlowCloses(d) PROVE Fin'
  <2>1. Vacated(d, {}) /\ \A x \in Children : exec[Id[x]].status = "completed" <=> exec'[Id[x]].status = "completed"
    BY <1>2 DEF FlowCloses, Elsewhere, Runs
  <2>2. QED
    BY <2>1, VacatedFin
<1>3. ASSUME NEW d \in Children, FlowRestarts(d) PROVE Fin'
  <2>1. Vacated(d, {Step(d, 1)}) /\ frame'[Step(d, 1)].st = "called"
        /\ \A x \in Children : exec[Id[x]].status = "completed" <=> exec'[Id[x]].status = "completed"
    BY <1>3 DEF FlowRestarts, Elsewhere, Runs
  <2>2. Step(d, 1) \in Act /\ Dom[Step(d, 1)] = d
    BY <1>3, FlowCalls DEF FlowRestarts, Children
  <2>3. QED
    BY <2>1, <2>2, VacatedFin
<1>4. ASSUME NEW d \in Children, Done(d) PROVE Fin'
  <2>1. /\ \A b \in Act : frame'[b].st = frame[b].st /\ frame'[b].at = frame[b].at
        /\ Runs(d) /\ \A x \in Children \ {d} : exec'[Id[x]] = exec[Id[x]]
        /\ exec'[Id[d]].status = "completed" => Finished(d)'
    BY <1>4 DEF Done, ChildEnds, Elsewhere, Same
  <2>2. \A b \in Act : frame'[b].st = "ok" => frame[b].st = "ok"
    BY <2>1
  <2>3. \A b \in Act : Busy(b)' => Busy(b) /\ frame'[b].at = frame[b].at
    BY <2>1 DEF Busy
  <2>4. \A b \in Act : \A c \in Calls(b) : frame'[c].st = "idle" => frame[c].st \in {"idle", "ok"}
    BY <2>1, CallFacts
  <2>5. \A x \in Children : exec[Id[x]].status = "completed" => exec'[Id[x]].status = "completed"
    BY <2>1 DEF Runs
  <2>6. \A x \in Children : exec'[Id[x]].status = "completed" =>
           exec[Id[x]].status = "completed" \/ Finished(x)'
    BY <2>1
  <2>7. QED
    BY <2>2, <2>3, <2>4, <2>5, <2>6, FinKeeps
<1>5. CASE Completes
  <2>1. UNCHANGED exec /\ \A b \in Act : frame'[b].st = frame[b].st /\ frame'[b].at = frame[b].at
    BY <1>5 DEF Completes, Same
  <2>2. \A b \in Act : frame'[b].st = "ok" => frame[b].st = "ok"
    BY <2>1
  <2>3. \A b \in Act : Busy(b)' => Busy(b) /\ frame'[b].at = frame[b].at
    BY <2>1 DEF Busy
  <2>4. \A b \in Act : \A c \in Calls(b) : frame'[c].st = "idle" => frame[c].st \in {"idle", "ok"}
    BY <2>1, CallFacts
  <2>5. QED
    BY <2>1, <2>2, <2>3, <2>4, FinKeeps
<1>6. CASE Reruns
  <2>1. UNCHANGED exec /\ Root \in Act /\ frame'[Root].st = "called" /\ \A b \in Act \ {Root} : Same(b)
    BY <1>6, RootAct DEF Reruns
  <2>2. \A b \in Act : frame'[b].st = "ok" => frame[b].st = "ok"
    BY <2>1 DEF Same
  <2>3. \A b \in Act : Busy(b)' => Busy(b) /\ frame'[b].at = frame[b].at
    BY <2>1 DEF Busy, Same
  <2>4. \A b \in Act : \A c \in Calls(b) : frame'[c].st = "idle" => frame[c].st \in {"idle", "ok"}
    BY <2>1, CallFacts DEF Same
  <2>5. QED
    BY <2>1, <2>2, <2>3, <2>4, FinKeeps
<1>7. QED
  BY <1>1, <1>2, <1>3, <1>4, <1>5, <1>6
(* The outputs of activities in one step.                                        *)
ValsKept == \A b \in Act : Mode(b[1]) = "activity" => frame'[b].val \in {frame[b].val, None, Out}

(* A frame that has not returned has no output.                                  *)
LEMMA FreshOutputs ==
  /\ Idle.val = None /\ Called.val = None /\ \A ctx : CalledWith(ctx).val = None
  /\ None # Skipped /\ Out # Skipped
<1>1. Idle.val = None /\ Called.val = None /\ \A ctx : CalledWith(ctx).val = None
  BY DEF Idle, Called, CalledWith
<1>2. None.tag = "none" /\ Skipped.tag = "skipped" /\ Out.tag = "out"
  BY DEF None, Skipped, Out, Val
<1>3. QED
  BY <1>1, <1>2

(* An activity puts what it did.                                                 *)
LEMMA ReturnsVals ==
  ASSUME Frames, NEW a \in Act, NEW v, Returns(a, v), Mode(a[1]) # "activity" \/ v = Out
  PROVE  ValsKept
<1>1. DOMAIN frame = Act /\ \A b \in Act : DOMAIN frame[b] = Fields
  BY DEF Frames
<1>2. CASE Handler(a[1]) \/ Partitioner(a[1])
  <2>1. frame' = [frame EXCEPT ![a].st = "ok", ![a].val = v]
    BY <1>2 DEF Returns
  <2>2. QED
    BY <1>1, <2>1 DEF Fields, ValsKept
<1>3. CASE ~(Handler(a[1]) \/ Partitioner(a[1]))
  <2>1. \E w : frame' = [frame EXCEPT ![a].st = "ok", ![Own[a]].fc = Put(@, a[1], w)]
    BY <1>3 DEF Returns
  <2>2. PICK w : frame' = [frame EXCEPT ![a].st = "ok", ![Own[a]].fc = Put(@, a[1], w)]
    BY <2>1
  <2>3. QED
    BY <1>1, <2>2 DEF Fields, ValsKept
<1>4. QED
  BY <1>2, <1>3

(* Failing puts nothing.                                                         *)
LEMMA FailsVals ==
  ASSUME Frames, NEW d, Fails(d)
  PROVE  ValsKept
<1>1. \A b \in Act : Closed(d)[b].val \in {frame[b].val, None}
  BY FreshOutputs DEF Closed
<1>2. DOMAIN Closed(d) = Act
  BY DEF Closed
<1>3. CASE frame' = Closed(d)
  BY <1>1, <1>3 DEF ValsKept
<1>4. ASSUME NEW i, frame' = [Closed(d) EXCEPT ![Step(d, 1)] = CalledWith(i)] PROVE ValsKept
  BY <1>1, <1>2, <1>4, FreshOutputs DEF ValsKept
<1>5. QED
  BY <1>3, <1>4 DEF Fails

(* A step of a phase puts no skipped output for an activity.                     *)
LEMMA PhaseVals ==
  ASSUME Frames, NEW a \in Active, Run(a) \/ ExtractFails(a)
  PROVE  ValsKept
<1>1. a \in Act /\ DOMAIN frame = Act /\ \A b \in Act : DOMAIN frame[b] = Fields
  BY DEF Active, Frames
<1>2. ASSUME UNCHANGED frame PROVE ValsKept
  BY <1>2 DEF ValsKept
<1>3. CASE StartPipeline(a)
  <2>1. CASE frame' = [frame EXCEPT ![a].st = "ok"]
    BY <1>1, <2>1 DEF ValsKept, Fields
  <2>2. CASE frame' = [frame EXCEPT ![a].st = "busy", ![a].at = 1, ![Step(a, 1)] = Called]
    BY <1>1, <2>2, FreshOutputs DEF ValsKept, Fields
  <2>3. QED
    BY <1>3, <2>1, <2>2 DEF StartPipeline
<1>4. CASE StepPipeline(a)
  <2>1. CASE frame' = [frame EXCEPT ![a].st = "ok"]
    BY <1>1, <2>1 DEF ValsKept, Fields
  <2>2. ASSUME NEW k, frame' = [frame EXCEPT ![a].at = k, ![Step(a, k)] = Called] PROVE ValsKept
    BY <1>1, <2>2, FreshOutputs DEF ValsKept, Fields
  <2>3. QED
    BY <1>4, <2>1, <2>2 DEF StepPipeline, StepPipelineTo
<1>5. CASE StartParallel(a)
  BY <1>1, <1>5, FreshOutputs DEF StartParallel, ValsKept, Fields
<1>6. ASSUME NEW b \in Subs(a), JoinParallel(a, b) PROVE ValsKept
  <2>1. \E fc, st : frame' = [frame EXCEPT ![Own[a]].fc = fc, ![b] = Idle, ![a].st = st]
    BY <1>6 DEF JoinParallel, JoinThen
  <2>2. PICK fc, st : frame' = [frame EXCEPT ![Own[a]].fc = fc, ![b] = Idle, ![a].st = st]
    BY <2>1
  <2>3. QED
    BY <1>1, <2>2, FreshOutputs DEF ValsKept, Fields
<1>7. CASE StartShard(a)
  BY <1>1, <1>7, FreshOutputs DEF StartShard, ValsKept, Fields
<1>8. ASSUME NEW k, NEW l, PutAgg(a, k, l) PROVE ValsKept
  <2>1. \E fc : frame' = [frame EXCEPT ![a].st = "ok", ![Own[a]].fc = fc]
    BY <1>8 DEF PutAgg
  <2>2. PICK fc : frame' = [frame EXCEPT ![a].st = "ok", ![Own[a]].fc = fc]
    BY <2>1
  <2>3. QED
    BY <1>1, <2>2 DEF ValsKept, Fields
<1>9. CASE Partitioned(a)
  <2>1. CASE frame' = [frame EXCEPT ![a].at = 1, ![HandlerOf(a, 1)] = CalledWith(Ctx(a))]
    BY <1>1, <2>1, FreshOutputs DEF ValsKept, Fields
  <2>2. QED
    BY <1>8, <1>9, <2>1 DEF Partitioned
<1>10. CASE StepShard(a)
  <2>2. CASE frame[a].at = Partitions(a)
    <3>1. \E k, l : PutAgg(a, k, l)
      BY <1>10, <2>2 DEF StepShard, StepShardWith
    <3>2. QED
      BY <1>8, <3>1
  <2>3. CASE frame[a].at # Partitions(a)
    <3> DEFINE h == HandlerOf(a, frame[a].at)
               g == HandlerOf(a, frame[a].at + 1)
               j == frame[a].at + 1
               ctx == Ctx(a)
    <3>1. \E sum, skips : frame' = [frame EXCEPT ![a].at = j, ![a].sum = sum, ![a].skips = skips,
                                        ![Own[a]].fc = ctx, ![h] = Idle, ![g] = CalledWith(ctx)]
      BY <1>10, <2>3 DEF StepShard, StepShardWith
    <3>2. PICK sum, skips : frame' = [frame EXCEPT ![a].at = j, ![a].sum = sum, ![a].skips = skips,
                                        ![Own[a]].fc = ctx, ![h] = Idle, ![g] = CalledWith(ctx)]
      BY <3>1
    <3> HIDE DEF h, g, j, ctx
    <3>3. QED
      BY <1>1, <3>2, FreshOutputs DEF ValsKept, Fields
  <2>4. QED
    BY <2>2, <2>3
<1>11. CASE ScheduleActivity(a)
  BY <1>1, <1>11 DEF ScheduleActivity, ValsKept, Fields
<1>12. CASE StartChild(a)
  <2>1. CASE SkipChild(a)
    BY <1>1, <1>12, <2>1, ReturnsVals DEF SkipChild, StartChild, StartChildUnder
  <2>2. CASE frame' = [b \in Act |-> IF b = a THEN [frame[a] EXCEPT !.st = "busy"]
                                     ELSE IF b \in Subs(a) THEN CalledWith(Ctx(a))
                                     ELSE frame[b]]
    BY <1>1, <2>2, FreshOutputs DEF ValsKept, Fields
  <2>3. QED
    BY <1>12, <2>1, <2>2 DEF StartChild, StartChildUnder
<1>13. CASE ChildReturns(a)
  BY <1>1, <1>13, ReturnsVals DEF ChildReturns, Ended
<1>14. CASE ChildErrs(a) \/ ExtractFails(a)
  BY <1>14, FailsVals DEF ChildErrs, ExtractFails
<1>15. QED
  BY <1>3, <1>4, <1>5, <1>6, <1>7, <1>9, <1>10, <1>11, <1>12, <1>13, <1>14 DEF Run

(* So an activity is never taken for skipped (a partitioner that is one has its   *)
(* list).                                                                        *)
LEMMA UnskippedKeeps ==
  ASSUME Shape, Unskipped, [Next]_vars
  PROVE  Unskipped'
<1>11. SUFFICES ValsKept
  BY FreshOutputs DEF ValsKept, Unskipped
<1>1. Frames /\ DOMAIN frame = Act /\ \A b \in Act : DOMAIN frame[b] = Fields
  BY DEF Shape, Frames
<1>2. ASSUME UNCHANGED frame PROVE ValsKept
  BY <1>2 DEF ValsKept
<1>3. ASSUME NEW a \in Active, Run(a) \/ ExtractFails(a) PROVE ValsKept
  BY <1>1, <1>3, PhaseVals
<1>4. ASSUME NEW t \in tasks, ActivityCompletes(t) PROVE ValsKept
  <2>1. t.act \in Act
    BY DEF Shape, Tasks
  <2>2. QED
    BY <1>1, <1>2, <1>4, <2>1, ReturnsVals DEF ActivityCompletes
<1>5. ASSUME NEW t \in tasks, ActivityFails(t) PROVE ValsKept
  BY <1>1, <1>2, <1>5, FailsVals DEF ActivityFails, ActivityFailsWith
<1>6. ASSUME NEW id \in ChildIds, Terminate(id) PROVE ValsKept
  BY <1>6, FreshOutputs DEF Terminate, Closed, ValsKept
<1>7. CASE \E id \in ChildIds : ChildCompletes(id) \/ ChildFails(id) \/ FlowCompletes(id)
  BY <1>2, <1>7 DEF ChildCompletes, ChildFails, FlowCompletes
<1>8. CASE Complete \/ UNCHANGED vars
  BY <1>2, <1>8 DEF Complete, vars
<1>9. CASE Abort \/ \E d \in Children : FlowTimesOut(d)
  BY <1>1, <1>9, FailsVals DEF Abort, FlowTimesOut
<1>10. CASE Rerun
  BY <1>1, <1>10, FreshOutputs DEF Rerun, ValsKept
<1>12. QED
  BY <1>3, <1>4, <1>5, <1>6, <1>7, <1>8, <1>9, <1>10 DEF Next

(* Only activities are scheduled, and runs are counted.                          *)
LEMMA TasksKeep ==
  ASSUME Shape, [Next]_vars
  PROVE  Tasks' /\ run' \in Nat
<1>1. tasks' \subseteq tasks => Tasks'
  BY DEF Shape, Tasks
<1>2. CASE \E a \in Active : Run(a) \/ ExtractFails(a)
  <2>1. PICK a \in Active : Run(a) \/ ExtractFails(a)
    BY <1>2
  <2>2. CASE ScheduleActivity(a)
    <3>1. a \in Act /\ Mode(a[1]) = "activity" /\ tasks' = tasks \cup {[act |-> a, epoch |-> Epoch(Dom[a])]}
      BY <2>2 DEF ScheduleActivity, Active
    <3>2. \A t \in tasks' : t.act \in Act /\ Mode(t.act[1]) = "activity"
      BY <3>1 DEF Shape, Tasks
    <3>3. QED
      BY <2>2, <3>2 DEF Tasks, ScheduleActivity, Shape
  <2>3. CASE ~ScheduleActivity(a)
    <3>1. UNCHANGED <<tasks, run>>
      BY <2>1, <2>3 DEF Run, ExtractFails, StartPipeline, StepPipeline, StepPipelineTo, StartParallel,
        JoinParallel, JoinThen, StartShard, Partitioned, StepShard, StepShardWith, StartChild,
        StartChildUnder, ChildReturns, ChildErrs
    <3>2. QED
      BY <1>1, <3>1 DEF Shape
  <2>4. QED
    BY <2>2, <2>3
<1>3. CASE \E t \in tasks : ActivityCompletes(t) \/ ActivityFails(t)
  BY <1>1, <1>3 DEF ActivityCompletes, ActivityFails, ActivityFailsWith, Shape
<1>4. CASE \E id \in ChildIds : ChildCompletes(id) \/ ChildFails(id) \/ FlowCompletes(id) \/ Terminate(id)
  BY <1>1, <1>4 DEF ChildCompletes, ChildFails, FlowCompletes, Terminate, Shape
<1>5. CASE (\E d \in Children : FlowTimesOut(d)) \/ Complete \/ Abort \/ Rerun \/ UNCHANGED vars
  BY <1>1, <1>5 DEF FlowTimesOut, Complete, Abort, Rerun, vars, Shape
<1>6. QED
  BY <1>2, <1>3, <1>4, <1>5 DEF Next
(* What a step of the job may be.                                                *)
Moves ==
  \/ \E a \in Act : Effect(a)
  \/ \E a \in Active : Started(a)
  \/ MainFails \/ Completes \/ Reruns
  \/ \E d \in Children : FlowCloses(d) \/ FlowRestarts(d) \/ Done(d)

(* A step of a phase is one.                                                     *)
LEMMA EffectMoves ==
  ASSUME Shape, NEW a \in Act, Effect(a)
  PROVE  Frames' /\ Execs' /\ Grows /\ Moves
BY DEF Shape, Execs, Effect, Steady, Grows, Moves

(* Every step is one.                                                            *)
LEMMA NextMoves ==
  ASSUME SafeTree, Careful, Shape, Unskipped, Stack, Waiting, Settled, OneBranch, [Next]_vars
  PROVE  Frames' /\ Execs' /\ Grows /\ Moves
<1>1. ASSUME NEW a \in Active, Run(a) \/ ExtractFails(a)
      PROVE  Frames' /\ Execs' /\ Grows /\ Moves
  <2>1. a \in Act
    BY DEF Active
  <2>2. CASE StartPipeline(a) \/ StepPipeline(a) \/ StartParallel(a) \/ \E b \in Subs(a) : JoinParallel(a, b)
    BY <2>1, <2>2, StartPipelineIs, StepPipelineIs, StartParallelIs, JoinParallelIs, EffectMoves
  <2>3. CASE StartShard(a) \/ Partitioned(a) \/ StepShard(a) \/ ScheduleActivity(a) \/ ChildReturns(a)
    BY <2>1, <2>3, StartShardIs, PartitionedIs, StepShardIs, ScheduleActivityIs, ChildReturnsIs, EffectMoves
  <2>4. CASE StartChild(a)
    BY <2>1, <2>4, StartChildIs DEF Moves
  <2>5. CASE ChildErrs(a) \/ ExtractFails(a)
    BY <2>5, ChildErrsIs, ExtractFailsIs DEF Moves
  <2>6. QED
    BY <1>1, <2>2, <2>3, <2>4, <2>5 DEF Run
<1>2. ASSUME NEW t \in tasks, ActivityCompletes(t)
      PROVE  Frames' /\ Execs' /\ Grows /\ Moves
  BY <1>2, ActivityCompletesIs, EffectMoves
<1>3. ASSUME NEW t \in tasks, ActivityFails(t)
      PROVE  Frames' /\ Execs' /\ Grows /\ Moves
  <2>1. t.act \in Act
    BY DEF Shape, Tasks
  <2>2. Frames' /\ Execs' /\ Grows
    BY <1>3, ActivityFailsIs
  <2>3. CASE Steady /\ Quiet
    BY <2>1, <2>2, <2>3 DEF Effect, Moves
  <2>4. CASE MainFails \/ \E d \in Children : FlowCloses(d) \/ FlowRestarts(d)
    BY <2>2, <2>4 DEF Moves
  <2>5. QED
    BY <1>3, <2>3, <2>4, ActivityFailsIs
<1>4. ASSUME NEW id \in ChildIds, ChildCompletes(id) \/ ChildFails(id) \/ FlowCompletes(id) \/ Terminate(id)
      PROVE  Frames' /\ Execs' /\ Grows /\ Moves
  <2>1. CASE ChildCompletes(id) \/ ChildFails(id)
    BY <2>1, HandWrittenEnds DEF Moves
  <2>2. CASE FlowCompletes(id)
    BY <2>2, FlowCompletesIs DEF Moves
  <2>3. CASE Terminate(id)
    BY <2>3, TerminateIs DEF Moves
  <2>4. QED
    BY <1>4, <2>1, <2>2, <2>3
<1>5. CASE Complete \/ Abort \/ Rerun
  BY <1>5, MainIs DEF Moves
<1>6. CASE UNCHANGED vars
  <2>1. UNCHANGED <<frame, status, exec, done>>
    BY <1>6 DEF vars
  <2>2. Frames' /\ Steady /\ Quiet
    BY <2>1 DEF Shape, Frames, Steady, Quiet, Others, Same
  <2>3. Effect(Root)
    BY <2>2 DEF Effect
  <2>4. QED
    BY <2>3, RootAct, EffectMoves
<1>7. CASE \E d \in Children : FlowTimesOut(d)
  BY <1>7, FlowTimesOutIs DEF Moves
<1>8. QED
  BY <1>1, <1>2, <1>3, <1>4, <1>5, <1>6, <1>7 DEF Next

(* It keeps the stack.                                                           *)
LEMMA MovesKeep ==
  ASSUME SafeTree, Shape, Execs', Stack, Waiting, Settled, OneBranch, Moves
  PROVE  Stack' /\ Waiting' /\ Settled' /\ OneBranch'
<1>1. Execs
  BY DEF Shape
<1>2. ASSUME NEW a \in Act, Effect(a) PROVE Stack' /\ Waiting' /\ Settled' /\ OneBranch'
  <2>1. CASE Returned(a)
    BY <2>1, ReturnedKeeps DEF Returned
  <2>2. ASSUME NEW C, CallsNow(a, C) PROVE Stack' /\ Waiting' /\ Settled' /\ OneBranch'
    BY <2>2, CallsNowKeeps DEF CallsNow
  <2>3. CASE Quiet
    BY <2>3, QuietKeeps
  <2>4. QED
    BY <1>2, <2>1, <2>2, <2>3 DEF Effect
<1>3. CASE \E a \in Active : Started(a)
  BY <1>1, <1>3, StartedKeeps
<1>4. CASE MainFails \/ Completes \/ Reruns
  BY <1>4, MainFailsKeeps, CompletesKeeps, RerunsKeeps
<1>5. ASSUME NEW d \in Children, FlowCloses(d) \/ FlowRestarts(d) \/ Done(d)
      PROVE  Stack' /\ Waiting' /\ Settled' /\ OneBranch'
  BY <1>1, <1>5, FlowClosesKeeps, FlowRestartsKeeps, ChildEndsKeeps DEF Done
<1>6. QED
  BY <1>2, <1>3, <1>4, <1>5 DEF Moves

(* It keeps what is finished.                                                    *)
LEMMA MovesFin ==
  ASSUME Fin, Grows, Moves
  PROVE  Fin'
<1>1. CASE \E a \in Act : Effect(a)
  BY <1>1, EffectFin
<1>2. CASE \E a \in Active : Started(a)
  BY <1>2, StartedFin
<1>3. CASE ~((\E a \in Act : Effect(a)) \/ \E a \in Active : Started(a))
  BY <1>3, OthersFin DEF Moves
<1>4. QED
  BY <1>1, <1>2, <1>3

(* A job that completed has done everything.                                     *)
Whole == status = "completed" => Finished(Root)

(* A child that completed stays so.                                              *)
LEMMA CompletedStays ==
  ASSUME Moves, NEW x \in Children, exec[Id[x]].status = "completed"
  PROVE  exec'[Id[x]].status = "completed"
<1>1. CASE UNCHANGED exec
  BY <1>1
<1>2. ASSUME NEW d \in Children, exec[Id[d]].status # "completed", Elsewhere(d)
      PROVE  exec'[Id[x]].status = "completed"
  BY <1>2 DEF Elsewhere
<1>3. CASE \E a \in Active : Started(a)
  BY <1>2, <1>3 DEF Started
<1>4. ASSUME NEW d \in Children, FlowCloses(d) \/ FlowRestarts(d) \/ Done(d)
      PROVE  exec'[Id[x]].status = "completed"
  BY <1>2, <1>4 DEF FlowCloses, FlowRestarts, Done, ChildEnds, Runs
<1>5. QED
  BY <1>1, <1>3, <1>4 DEF Moves, Effect, Steady, MainFails, Completes, Reruns

(* A job that completed stays whole.                                             *)
LEMMA MovesWhole ==
  ASSUME Fin, Whole, Grows, Moves
  PROVE  Whole'
<1>1. \A a : Finished(a) => Finished(a)'
  BY CompletedStays, FinishedGrows
<1>2. CASE status = "completed"
  BY <1>1, <1>2 DEF Whole
<1>3. CASE Completes
  BY <1>1, <1>3, RootAct DEF Completes, Whole, Fin, FinOk
<1>4. CASE status # "completed" /\ ~Completes
  <2>1. status' # "completed"
    BY <1>4 DEF Moves, Effect, Steady, Started, MainFails, Reruns, FlowCloses, FlowRestarts, Done, ChildEnds
  <2>2. QED
    BY <2>1 DEF Whole
<1>5. QED
  BY <1>2, <1>3, <1>4

-------------------------------------------------------------------------------
(* The inductive invariant.  AllWorkDone speaks of the end; on the way, whatever  *)
(* returned, completed or was passed must be finished (Fin), which needs to know *)
(* where each phase is (Stack), that a caller waits for a child that runs         *)
(* (Waiting), and that none runs below one that has ended (Settled, OneBranch).  *)
Sound ==
  /\ Shape /\ Unskipped
  /\ Stack /\ Waiting /\ Settled /\ OneBranch
  /\ Fin /\ Whole

(* It holds in the first state.                                                  *)
LEMMA InitSound == Init => Sound
<1> SUFFICES ASSUME Init PROVE Sound
  OBVIOUS
<1>1. Root \in Act /\ Dom[Root] = Main /\ \A b \in Act : AtOrBelow(Root, b) => b = Root
  BY RootAct, AllBelowRoot, Antisymmetric
<1>2. /\ run = 1 /\ status = "running" /\ tasks = {} /\ done = {}
      /\ DOMAIN frame = Act /\ \A a \in Act : frame[a] = IF a = Root THEN Called ELSE Idle
      /\ DOMAIN exec = ChildIds /\ \A id \in ChildIds : exec[id] = Absent
  BY DEF Init
<1>3. /\ \A a \in Act : DOMAIN frame[a] = Fields /\ frame[a].val = None
      /\ \A a \in Act : frame[a].st \in {"called", "idle"} /\ (frame[a].st = "called" => a = Root)
  BY <1>2, Records, FreshOutputs
<1>4. \A x \in Children : exec[Id[x]].status = "absent"
  BY <1>2 DEF Absent, ChildIds
<1>5. Shape
  <2>1. Execs
    BY <1>2 DEF Execs, Absent
  <2>2. QED
    BY <1>2, <1>3, <2>1 DEF Shape, Frames, Tasks
<1>6. Unskipped
  BY <1>3, FreshOutputs DEF Unskipped
<1>7. \A a \in Act : ~Busy(a) /\ (a \in Active => a = Root)
  BY <1>3 DEF Busy, Active
<1>8. Stack
  BY <1>1, <1>2, <1>7 DEF Stack, AtStep, CallersBusy, DeadIdle, Alive, Active
<1>9. Waiting /\ Settled
  BY <1>4 DEF Waiting, Settled, Runs
<1>10. OneBranch
  BY <1>1, <1>7 DEF OneBranch, Active
<1>11. Fin
  BY <1>3, <1>4, <1>7 DEF Fin, FinOk, FinExec, FinBusy
<1>12. Whole
  BY <1>2 DEF Whole
<1>13. QED
  BY <1>5, <1>6, <1>8, <1>9, <1>10, <1>11, <1>12 DEF Sound

(* It is kept by every step of a safe tree with a careful client.               *)
LEMMA StepSound ==
  ASSUME SafeTree, Careful, Sound, [Next]_vars
  PROVE  Sound'
<1>1. /\ Shape /\ Unskipped /\ Stack /\ Waiting /\ Settled /\ OneBranch /\ Fin /\ Whole
  BY DEF Sound
<1>2. Frames' /\ Execs' /\ Grows /\ Moves
  BY <1>1, NextMoves
<1>3. Shape'
  BY <1>1, <1>2, TasksKeep DEF Shape
<1>4. Unskipped'
  BY <1>1, UnskippedKeeps
<1>5. Stack' /\ Waiting' /\ Settled' /\ OneBranch'
  BY <1>1, <1>2, MovesKeep
<1>6. Fin' /\ Whole'
  BY <1>1, <1>2, MovesFin, MovesWhole
<1>7. QED
  BY <1>3, <1>4, <1>5, <1>6 DEF Sound

(* It holds always.                                                              *)
LEMMA SoundAlways == Spec => [](SafeTree /\ Careful => Sound)
<1>1. Init => (SafeTree /\ Careful => Sound)
  BY InitSound
<1>2. (SafeTree /\ Careful => Sound) /\ [Next]_vars => (SafeTree /\ Careful => Sound)'
  <2> SUFFICES ASSUME SafeTree /\ Careful => Sound, [Next]_vars, (SafeTree /\ Careful)' PROVE Sound'
    OBVIOUS
  <2>1. SafeTree /\ Careful
    BY DEF SafeTree
  <2>2. QED
    BY <2>1, StepSound
<1>3. QED
  BY <1>1, <1>2, PTL DEF Spec

(* What is finished has its work done.                                           *)
LEMMA FinishedWork ==
  ASSUME NEW a \in Act, Finished(a)
  PROVE  WorkUnder(a) \subseteq done
<1>1. WorkUnder(a) = {w \in Work : AtOrBelow(w, a)}
  BY WorkIs
<1>2. \A w \in Work : w \in Act /\ Leaf(w[1]) /\ ~Flow(w[1])
  BY DEF Work
<1>3. QED
  BY <1>1, <1>2 DEF Finished

(* A job reported successful has had every unit of work of its tree carried out, *)
(* for every safe tree and any number of runs, attempts and failures.            *)
THEOREM NoWorkLost == Spec => []AllWorkDone
<1>1. (SafeTree /\ Careful => Sound) => AllWorkDone
  <2> SUFFICES ASSUME Sound, status = "completed" PROVE Work \subseteq done
    BY DEF AllWorkDone, NothingLost
  <2>1. Root \in Act /\ WorkUnder(Root) = Work
    BY RootAct
  <2>2. Finished(Root)
    BY DEF Sound, Whole
  <2>3. QED
    BY <2>1, <2>2, FinishedWork
<1>2. QED
  BY <1>1, SoundAlways, PTL

(* A pipeline is only ever at a step when all of the work of the steps before it  *)
(* has been done, in every run, whatever was skipped (phase.go 383-411).         *)
THEOREM StepsInOrder == Spec => []PipelineOrder
<1>1. (SafeTree /\ Careful => Sound) => PipelineOrder
  <2> SUFFICES ASSUME Sound, NEW a \in Act, Mode(a[1]) = "pipeline", At(a, "busy"),
                      NEW j \in 1..(frame[a].at - 1)
               PROVE  WorkUnder(Step(a, j)) \subseteq done
    BY DEF PipelineOrder
  <2>1. frame[a].st = "busy"
    BY DEF At
  <2>2. Finished(Step(a, j))
    BY <2>1 DEF Sound, Fin, FinBusy, BusyFin, Busy
  <2>3. frame[a].at \in 1..Len(Tree[a[1]].steps)
    BY <2>1 DEF Sound, Stack, AtStep, Busy
  <2>4. Step(a, j) \in Act
    <3>1. j \in 1..Len(Tree[a[1]].steps)
      BY <2>3, Steps
    <3>2. QED
      BY <3>1, Steps
  <2>5. QED
    BY <2>2, <2>4, FinishedWork
<1>2. QED
  BY <1>1, SoundAlways, PTL

-------------------------------------------------------------------------------
(* Epochs, in the order in which a workflow has them.                            *)
Earlier(e, f) ==
  /\ Len(e) = Len(f)
  /\ \E k \in 1..Len(e) : e[k] < f[k] /\ \A i \in 1..(k - 1) : e[i] = f[i]
UpTo(e, f) == e = f \/ Earlier(e, f)

(* The members of a sequence of numbers.                                         *)
LEMMA Members == \A q \in Seq(Nat) : Len(q) \in Nat /\ \A i \in 1..Len(q) : q[i] \in Nat
OBVIOUS

LEMMA EarlierTrans ==
  ASSUME NEW e \in Seq(Nat), NEW f \in Seq(Nat), NEW g \in Seq(Nat), UpTo(e, f), Earlier(f, g)
  PROVE  Earlier(e, g) /\ e # g
<1>1. Earlier(e, g)
  <2>1. CASE e = f
    BY <2>1
  <2>2. CASE Earlier(e, f)
    <3>1. Len(e) = Len(f) /\ Len(f) = Len(g) /\ Len(e) \in Nat
      BY <2>2 DEF Earlier
    <3>2. PICK j \in 1..Len(e) : e[j] < f[j] /\ \A i \in 1..(j - 1) : e[i] = f[i]
      BY <2>2 DEF Earlier
    <3>3. PICK k \in 1..Len(e) : f[k] < g[k] /\ \A i \in 1..(k - 1) : f[i] = g[i]
      BY <3>1 DEF Earlier
    <3>4. /\ \A i \in 1..Len(e) : e[i] \in Nat
          /\ \A i \in 1..Len(e) : f[i] \in Nat
          /\ \A i \in 1..Len(e) : g[i] \in Nat
      <4>1. /\ \A i \in 1..Len(e) : e[i] \in Nat
            /\ \A i \in 1..Len(f) : f[i] \in Nat
            /\ \A i \in 1..Len(g) : g[i] \in Nat
        BY Members
      <4>2. QED
        BY <3>1, <4>1
    <3>5. CASE j <= k
      <4>1. e[j] < g[j]
        <5>1. CASE j = k
          <6>1. e[j] < f[j] /\ f[j] < g[j]
            BY <3>2, <3>3, <5>1
          <6>2. e[j] \in Nat /\ f[j] \in Nat /\ g[j] \in Nat
            BY <3>2, <3>4
          <6>3. QED
            BY SMTT(30), <6>1, <6>2
        <5>2. CASE j < k
          BY <3>2, <3>3, <5>2
        <5>3. QED
          BY <3>2, <3>3, <3>5, <5>1, <5>2
      <4>3. \A i \in 1..(j - 1) : e[i] = g[i]
        BY <3>2, <3>3, <3>5
      <4>2. QED
        BY <3>1, <4>1, <4>3 DEF Earlier
    <3>6. CASE j > k
      <4>1. e[k] < g[k]
        BY SMTT(30), <3>1, <3>2, <3>3, <3>4, <3>6
      <4>3. \A i \in 1..(k - 1) : e[i] = g[i]
        BY SMTT(30), <3>1, <3>2, <3>3, <3>4, <3>6
      <4>2. QED
        BY <3>1, <4>1, <4>3 DEF Earlier
    <3>7. QED
      BY <3>1, <3>5, <3>6
  <2>3. QED
    BY <2>1, <2>2 DEF UpTo
<1>2. ASSUME e = g PROVE FALSE
  <2>1. PICK k \in 1..Len(e) : e[k] < g[k]
    BY <1>1 DEF Earlier
  <2>2. e[k] \in Nat
    BY Members
  <2>3. QED
    BY <1>2, <2>1, <2>2
<1>3. QED
  BY <1>1, <1>2

LEMMA Fronts ==
  ASSUME NEW e \in Seq(Nat), e # <<>>
  PROVE  /\ Front(e) \in Seq(Nat) /\ Len(Front(e)) = Len(e) - 1 /\ Len(e) \in Nat \ {0}
         /\ \A i \in 1..(Len(e) - 1) : Front(e)[i] = e[i]
         /\ Last(e) \in Nat /\ Last(e) = e[Len(e)]
<1>1. Len(e) \in Nat \ {0} /\ \A i \in 1..Len(e) : e[i] \in Nat
  OBVIOUS
<1>2. Front(e) = SubSeq(e, 1, Len(e) - 1) /\ Last(e) = e[Len(e)]
  BY DEF Front, Last
<1>3. /\ SubSeq(e, 1, Len(e) - 1) \in Seq(Nat) /\ Len(SubSeq(e, 1, Len(e) - 1)) = Len(e) - 1
      /\ \A i \in 1..(Len(e) - 1) : SubSeq(e, 1, Len(e) - 1)[i] = e[i]
  <2>1. \A m \in Nat : m <= Len(e) =>
          /\ Len(SubSeq(e, 1, m)) = m
          /\ \A i \in 1..m : SubSeq(e, 1, m)[i] = e[i]
    OBVIOUS
  <2>2. \A m \in Nat : m <= Len(e) => SubSeq(e, 1, m) \in Seq(Nat)
    OBVIOUS
  <2>3. Len(e) - 1 \in Nat /\ Len(e) - 1 <= Len(e)
    BY <1>1
  <2>4. QED
    BY <2>1, <2>2, <2>3
<1>4. Len(e) \in 1..Len(e) /\ e[Len(e)] \in Nat
  BY <1>1
<1>5. Front(e) \in Seq(Nat) /\ Len(Front(e)) = Len(e) - 1
  BY <1>2, <1>3
<1>6. \A i \in 1..(Len(e) - 1) : Front(e)[i] = e[i]
  BY <1>2, <1>3
<1>7. QED
  BY <1>1, <1>2, <1>4, <1>5, <1>6

LEMMA FrontOfAppend ==
  ASSUME NEW p \in Seq(Nat), NEW n \in Nat
  PROVE  /\ Append(p, n) \in Seq(Nat) /\ Append(p, n) # <<>> /\ Len(Append(p, n)) = Len(p) + 1
         /\ Front(Append(p, n)) = p
         /\ \A i \in 1..Len(p) : Append(p, n)[i] = p[i]
         /\ Append(p, n)[Len(p) + 1] = n
<1>1. /\ Append(p, n) \in Seq(Nat) /\ Len(Append(p, n)) = Len(p) + 1 /\ Len(p) \in Nat
      /\ \A i \in 1..Len(p) : Append(p, n)[i] = p[i]
      /\ Append(p, n)[Len(p) + 1] = n
  OBVIOUS
<1>2. SubSeq(Append(p, n), 1, Len(p)) = p
  BY <1>1
<1>3. QED
  BY <1>1, <1>2 DEF Front

(* A workflow started later, and an attempt after another, have later epochs.    *)
LEMMA EarlierChild ==
  ASSUME NEW e \in Seq(Nat), e # <<>>, NEW p \in Seq(Nat), Earlier(Front(e), p), NEW n \in Nat
  PROVE  Earlier(e, Append(p, n))
<1>0. Len(Front(e)) = Len(e) - 1 /\ Len(e) \in Nat \ {0} /\ \A i \in 1..(Len(e) - 1) : Front(e)[i] = e[i]
  BY Fronts
<1>7. Len(Append(p, n)) = Len(p) + 1 /\ Len(p) \in Nat /\ \A i \in 1..Len(p) : Append(p, n)[i] = p[i]
  BY FrontOfAppend, Members
<1>10. Len(Front(e)) = Len(p)
  BY DEF Earlier
<1>1. Len(Front(e)) = Len(p) /\ Len(e) = Len(p) + 1 /\ Len(p) \in Nat /\ Len(Append(p, n)) = Len(p) + 1
  BY <1>0, <1>7, <1>10
<1>2. PICK k \in 1..Len(p) : Front(e)[k] < p[k] /\ \A i \in 1..(k - 1) : Front(e)[i] = p[i]
  BY <1>1 DEF Earlier
<1>3. \A i \in 1..Len(p) : Front(e)[i] = e[i] /\ Append(p, n)[i] = p[i]
  BY <1>0, <1>1, <1>7
<1>8. \A i \in 1..(k - 1) : i \in 1..Len(p)
  BY <1>1, <1>2
<1>9. \A i \in 1..(k - 1) : e[i] = Append(p, n)[i]
  BY <1>2, <1>3, <1>8
<1>4. e[k] < Append(p, n)[k] /\ \A i \in 1..(k - 1) : e[i] = Append(p, n)[i]
  BY <1>2, <1>3, <1>9
<1>5. k \in 1..Len(e)
  BY <1>1, <1>2
<1>6. QED
  BY <1>1, <1>4, <1>5 DEF Earlier

LEMMA EarlierAttempt ==
  ASSUME NEW e \in Seq(Nat), e # <<>>
  PROVE  Earlier(e, Append(Front(e), Last(e) + 1)) /\ Front(Append(Front(e), Last(e) + 1)) = Front(e)
         /\ Append(Front(e), Last(e) + 1) \in Seq(Nat)
<1> DEFINE p == Front(e)
           f == Append(p, Last(e) + 1)
<1>1. p \in Seq(Nat) /\ Len(p) = Len(e) - 1 /\ Len(e) \in Nat \ {0} /\ Last(e) \in Nat /\ Last(e) = e[Len(e)]
      /\ \A i \in 1..(Len(e) - 1) : p[i] = e[i]
  BY Fronts
<1> HIDE DEF p
<1>2. f \in Seq(Nat) /\ Len(f) = Len(e) /\ Front(f) = p /\ f[Len(e)] = Last(e) + 1
      /\ \A i \in 1..(Len(e) - 1) : f[i] = p[i]
  BY <1>1, FrontOfAppend
<1> HIDE DEF f
<1>3. Len(e) \in 1..Len(e) /\ e[Len(e)] < f[Len(e)] /\ \A i \in 1..(Len(e) - 1) : e[i] = f[i]
  BY <1>1, <1>2
<1>4. Earlier(e, f)
  BY <1>2, <1>3 DEF Earlier
<1>5. QED
  BY <1>2, <1>4 DEF f, p

LEMMA NotEarlier ==
  ASSUME NEW e \in Seq(Nat)
  PROVE  ~Earlier(e, e)
BY DEF Earlier

-------------------------------------------------------------------------------
(* The invariant: whatever a workflow started has an epoch that is not later      *)
(* than that of the workflow, and what is of its present epoch is waited for.     *)
Begun(d) == d = Main \/ exec[Id[d]].status # "absent"
Current(d) == IF d = Main THEN status \in {"running", "completed"}
              ELSE exec[Id[d]].status \in {"running", "completed"}
Timed ==
  /\ \A x \in Children : Begun(x) => Begun(Dom[x]) /\ UpTo(Front(exec[Id[x]].epoch), Epoch(Dom[x]))
  /\ \A t \in tasks : /\ t = [act |-> t.act, epoch |-> t.epoch] /\ t.epoch \in Seq(Nat)
                      /\ Begun(Dom[t.act]) /\ UpTo(t.epoch, Epoch(Dom[t.act]))
Awaits ==
  /\ \A x \in Children :
       Begun(x) /\ ~Current(x) /\ Current(Dom[x]) /\ Front(exec[Id[x]].epoch) = Epoch(Dom[x]) => Busy(x)
  /\ \A t \in tasks : Current(Dom[t.act]) /\ t.epoch = Epoch(Dom[t.act]) => Busy(t.act)

(* What a step does to a workflow d, to an execution x and to what is waited for *)
(* in d.                                                                         *)
Onward(d) == Begun(d) => Begun(d)' /\ (Epoch(d)' = Epoch(d) \/ Earlier(Epoch(d), Epoch(d)'))
Dated(x) ==
  Begun(x)' => \/ Begun(x) /\ Front(exec'[Id[x]].epoch) = Front(exec[Id[x]].epoch)
               \/ /\ Begun(Dom[x]) /\ Front(exec'[Id[x]].epoch) = Epoch(Dom[x])
                  /\ exec'[Id[x]].status = "running"
Tasked ==
  \A t \in tasks' : t \in tasks \/ /\ t = [act |-> t.act, epoch |-> t.epoch] /\ t.act \in Act
                                   /\ Begun(Dom[t.act]) /\ t.epoch = Epoch(Dom[t.act])
                                   /\ Epoch(Dom[t.act])' = Epoch(Dom[t.act]) /\ frame'[t.act].st = "busy"
Lasting(d) ==
  Begun(d) /\ Current(d)' /\ Epoch(d)' = Epoch(d) =>
    /\ Current(d)
    /\ \A x \in Children : Dom[x] = d /\ Begun(x)' /\ ~Current(x)' /\ Busy(x) => frame'[x].st = "busy"
    /\ \A x \in Children : Dom[x] = d /\ Begun(x)' /\ ~Current(x)' /\ (Begun(x) => Current(x)) => frame'[x].st = "busy"
    /\ \A t \in tasks \cap tasks' :
         Dom[t.act] = d /\ t.epoch = Epoch(d) /\ Busy(t.act) => frame'[t.act].st = "busy"

LEMMA EpochSeq ==
  ASSUME Execs, run \in Nat, NEW d \in Children \cup {Main}, Begun(d)
  PROVE  Epoch(d) \in Seq(Nat) /\ (d # Main => Epoch(d) = exec[Id[d]].epoch /\ Epoch(d) # <<>>)
<1>1. CASE d = Main
  BY <1>1 DEF Epoch
<1>2. CASE d # Main
  BY <1>2 DEF Epoch, Begun, Execs, ChildIds
<1>3. QED
  BY <1>1, <1>2

LEMMA TimeKept ==
  ASSUME Shape, Execs', run' \in Nat, Timed, Awaits, Tasked,
         \A d \in Children \cup {Main} : Onward(d) /\ Lasting(d),
         \A x \in Children : Dated(x)
  PROVE  Timed' /\ Awaits'
<1>1. Execs /\ run \in Nat /\ \A t \in tasks : t.act \in Act
  BY DEF Shape, Tasks
<1>2. \A a \in Act : Dom[a] \in Children \cup {Main}
  BY DomFacts
<1>3. \A x \in Children : x \in Act /\ x # Main
  BY NotMain DEF Children
<1>4. \A d \in Children \cup {Main} : Begun(d) => Epoch(d) \in Seq(Nat)
  BY <1>1, EpochSeq
<1>5. ASSUME NEW d \in Children \cup {Main}, Begun(d)' PROVE Epoch(d)' \in Seq(Nat)
  <2>1. CASE d = Main
    BY <2>1 DEF Epoch
  <2>2. CASE d # Main
    BY <1>5, <2>2 DEF Epoch, Begun, Execs, ChildIds
  <2>3. QED
    BY <2>1, <2>2
<1>6. ASSUME NEW d \in Children \cup {Main}, NEW e \in Seq(Nat), Begun(d), UpTo(e, Epoch(d))
      PROVE  /\ UpTo(e, Epoch(d)')
             /\ e = Epoch(d)' => Epoch(d)' = Epoch(d)
  <2>1. Begun(d)' /\ (Epoch(d)' = Epoch(d) \/ Earlier(Epoch(d), Epoch(d)'))
    BY <1>6 DEF Onward
  <2>2. PICK p \in Seq(Nat), q \in Seq(Nat) : p = Epoch(d) /\ q = Epoch(d)'
    BY <1>4, <1>5, <1>6, <2>1
  <2>3. CASE p = q
    BY <1>6, <2>2, <2>3
  <2>4. CASE Earlier(p, q)
    <3>1. Earlier(e, q) /\ e # q
      BY <1>6, <2>2, <2>4, EarlierTrans
    <3>2. QED
      BY <2>2, <3>1 DEF UpTo
  <2>5. QED
    BY <2>1, <2>2, <2>3, <2>4
<1>7. ASSUME NEW x \in Children, Begun(x)'
      PROVE  /\ Begun(Dom[x])' /\ UpTo(Front(exec'[Id[x]].epoch), Epoch(Dom[x])')
             /\ ~Current(x)' /\ Current(Dom[x])' /\ Front(exec'[Id[x]].epoch) = Epoch(Dom[x])' => frame'[x].st = "busy"
  <2> DEFINE d == Dom[x]
  <2>1. d \in Children \cup {Main}
    BY <1>2, <1>3
  <2>2. CASE Begun(x) /\ Front(exec'[Id[x]].epoch) = Front(exec[Id[x]].epoch)
    <3>1. exec[Id[x]].epoch \in Seq(Nat) /\ exec[Id[x]].epoch # <<>>
      BY <1>1, <1>3, <2>2 DEF Execs, Begun, ChildIds
    <3>2. PICK e \in Seq(Nat) : e = Front(exec[Id[x]].epoch)
      BY <3>1, Fronts
    <3>3. Begun(d) /\ UpTo(e, Epoch(d))
      BY <2>2, <3>2 DEF Timed
    <3>4. UpTo(e, Epoch(d)') /\ (e = Epoch(d)' => Epoch(d)' = Epoch(d))
      BY <1>6, <2>1, <3>3
    <3>5. Begun(d)'
      BY <2>1, <3>3 DEF Onward
    <3>6. ASSUME ~Current(x)', Current(d)', e = Epoch(d)' PROVE frame'[x].st = "busy"
      <4>1. Current(d) /\ Epoch(d)' = Epoch(d)
        BY <2>1, <3>3, <3>4, <3>6 DEF Lasting
      <4>2. CASE Current(x)
        BY <1>7, <2>1, <3>3, <3>6, <4>1, <4>2 DEF Lasting
      <4>3. CASE ~Current(x)
        <5>1. Busy(x)
          BY <2>2, <3>2, <3>6, <4>1, <4>3 DEF Awaits
        <5>2. QED
          BY <1>7, <2>1, <3>3, <3>6, <4>1, <5>1 DEF Lasting
      <4>4. QED
        BY <4>2, <4>3
    <3>7. QED
      BY <2>2, <3>2, <3>4, <3>5, <3>6
  <2>3. CASE Begun(d) /\ Front(exec'[Id[x]].epoch) = Epoch(d) /\ exec'[Id[x]].status = "running"
    <3>1. Current(x)'
      BY <1>3, <2>3 DEF Current
    <3>2. PICK e \in Seq(Nat) : e = Epoch(d)
      BY <1>4, <2>1, <2>3
    <3>3. UpTo(e, Epoch(d)')
      BY <1>6, <2>1, <2>3, <3>2 DEF UpTo
    <3>4. QED
      BY <2>1, <2>3, <3>1, <3>2, <3>3 DEF Onward
  <2>4. QED
    BY <1>7, <2>2, <2>3 DEF Dated
<1>8. ASSUME NEW t \in tasks'
      PROVE  /\ t = [act |-> t.act, epoch |-> t.epoch] /\ t.epoch \in Seq(Nat)
             /\ Begun(Dom[t.act])' /\ UpTo(t.epoch, Epoch(Dom[t.act])')
             /\ Current(Dom[t.act])' /\ t.epoch = Epoch(Dom[t.act])' => frame'[t.act].st = "busy"
  <2> DEFINE d == Dom[t.act]
  <2>1. t.act \in Act /\ d \in Children \cup {Main}
    BY <1>1, <1>2 DEF Tasked
  <2>2. CASE t \in tasks
    <3>1. t = [act |-> t.act, epoch |-> t.epoch] /\ t.epoch \in Seq(Nat) /\ Begun(d) /\ UpTo(t.epoch, Epoch(d))
      BY <2>2 DEF Timed
    <3>2. UpTo(t.epoch, Epoch(d)') /\ (t.epoch = Epoch(d)' => Epoch(d)' = Epoch(d)) /\ Begun(d)'
      BY <1>6, <2>1, <3>1 DEF Onward
    <3>3. ASSUME Current(d)', t.epoch = Epoch(d)' PROVE frame'[t.act].st = "busy"
      <4>1. Current(d) /\ t.epoch = Epoch(d) /\ Epoch(d)' = Epoch(d)
        BY <2>1, <3>1, <3>2, <3>3 DEF Lasting
      <4>2. Busy(t.act)
        BY <2>2, <4>1 DEF Awaits
      <4>3. QED
        BY <1>8, <2>1, <2>2, <3>1, <3>3, <4>1, <4>2 DEF Lasting
    <3>4. QED
      BY <3>1, <3>2, <3>3
  <2>3. CASE t \notin tasks
    <3>1. /\ t = [act |-> t.act, epoch |-> t.epoch] /\ Begun(d) /\ t.epoch = Epoch(d)
          /\ Epoch(d)' = Epoch(d) /\ frame'[t.act].st = "busy"
      BY <1>8, <2>3 DEF Tasked
    <3>2. t.epoch \in Seq(Nat) /\ Begun(d)'
      BY <1>4, <2>1, <3>1 DEF Onward
    <3>3. QED
      BY <3>1, <3>2 DEF UpTo
  <2>4. QED
    BY <2>2, <2>3
<1>9. Timed'
  BY <1>7, <1>8 DEF Timed
<1>10. Awaits'
  BY <1>7, <1>8 DEF Awaits, Busy
<1>11. QED
  BY <1>9, <1>10

(* Where a child is.                                                             *)
LEMMA ChildPlace ==
  ASSUME NEW x \in Children
  PROVE  /\ x \in Act /\ x # Main /\ Mode(x[1]) = "workflow" /\ Leaf(x[1])
         /\ Dom[x] \in Children \cup {Main} /\ Dom[x] # x
         /\ Dom[x] # Main => AtOrBelow(x, Dom[x])
<1>1. x \in Act /\ Mode(x[1]) = "workflow"
  BY DEF Children
<1>2. x # Main
  BY <1>1, NotMain
<1>3. CASE Dom[x] = Main
  BY <1>1, <1>2, <1>3 DEF Leaf
<1>4. CASE Dom[x] # Main
  BY <1>1, <1>2, <1>4, DomFacts DEF Leaf
<1>5. QED
  BY <1>3, <1>4

(* A workflow that did not fail waits for the child that runs.                   *)
LEMMA CurrentWaits ==
  ASSUME SafeTree, Execs, Waiting, Settled, Whole, NEW x \in Children, Runs(x), Current(Dom[x])
  PROVE  Busy(x)
<1>1. /\ x \in Act /\ AtOrBelow(x, x) /\ Leaf(x[1]) /\ Dom[x] \in Children \cup {Main} /\ Dom[x] # x
      /\ Dom[x] # Main => AtOrBelow(x, Dom[x])
  BY ChildPlace, BelowSelf
<1>2. CASE Alive(Dom[x])
  BY <1>1, <1>2 DEF Waiting
<1>3. CASE ~Alive(Dom[x])
  <2>1. CASE Dom[x] = Main
    <3>1. Finished(Root)
      BY <1>3, <2>1 DEF Current, Alive, Whole
    <3>2. QED
      BY <1>1, <3>1, AllBelowRoot DEF Finished, Runs
  <2>2. CASE Dom[x] # Main
    <3>1. Dom[x] \in Children /\ ~Runs(Dom[x])
      BY <1>1, <1>3, <2>2, AliveIs
    <3>2. exec[Id[Dom[x]]].status = "completed"
      BY <2>2, <3>1 DEF Current, Runs
    <3>3. QED
      BY <1>1, <2>2, <3>1, <3>2 DEF Settled, NothingBelow
  <2>3. QED
    BY <2>1, <2>2
<1>4. QED
  BY <1>2, <1>3

(* Nothing is begun, and no epoch changes, where no execution does.              *)
LEMMA Undated ==
  ASSUME UNCHANGED exec, run' = run
  PROVE  /\ \A d \in Children \cup {Main} : Onward(d) /\ Epoch(d)' = Epoch(d) /\ Begun(d)' = Begun(d)
         /\ \A x \in Children : Dated(x)
<1>1. ASSUME NEW d \in Children \cup {Main}
      PROVE  Epoch(d)' = Epoch(d) /\ Begun(d)' = Begun(d)
  BY DEF Epoch, Begun
<1>2. QED
  BY <1>1 DEF Onward, Dated, Begun

(* A step of a phase takes nothing out of its wait but what it waited for.       *)
LEMMA EffectTime ==
  ASSUME Shape, Execs', Stack, Timed, Awaits, NEW a \in Act, Effect(a), run' = run, Tasked,
         \A t \in tasks \cap tasks' :
           t.act = a /\ t.epoch = Epoch(Dom[a]) /\ Busy(a) => frame'[a].st = "busy"
  PROVE  Timed' /\ Awaits'
<1>1. UNCHANGED <<status, exec>>
  BY DEF Effect, Steady
<1>2. \A d : Current(d)' = Current(d)
  BY <1>1 DEF Current
<1>3. ASSUME NEW b \in Act, Busy(b), frame'[b].st # "busy"
      PROVE  b = a /\ (b \in Children => exec[Id[b]].status = "completed")
  <2>1. b \in Active
    BY <1>3 DEF Busy, Active
  <2>2. ASSUME NEW S, Others(S) PROVE b \in S
    BY <1>3, <2>2 DEF Others, Same, Released, Busy
  <2>3. CASE Returned(a)
    BY <2>2, <2>3 DEF Returned, Children
  <2>4. ASSUME NEW C, CallsNow(a, C) PROVE FALSE
    <3>1. b \in C \cup {a} /\ C \subseteq Calls(a) /\ Calls(a) \cap Active = {} /\ frame'[a].st = "busy"
      BY <2>2, <2>4 DEF CallsNow
    <3>2. QED
      BY <1>3, <2>1, <3>1
  <2>5. CASE Quiet
    BY <2>2, <2>5 DEF Quiet
  <2>6. QED
    BY <2>3, <2>4, <2>5 DEF Effect
<1>4. /\ \A d \in Children \cup {Main} : Onward(d) /\ Epoch(d)' = Epoch(d) /\ Begun(d)' = Begun(d)
      /\ \A x \in Children : Dated(x)
  BY <1>1, Undated
<1>5. ASSUME NEW d \in Children \cup {Main} PROVE Lasting(d)
  <2>1. \A x \in Children : (Begun(x)' <=> Begun(x)) /\ (Current(x)' <=> Current(x)) /\ x \in Act
    BY <1>2, <1>4, ChildPlace
  <2>2. ASSUME NEW x \in Children, Begun(x), ~Current(x), Busy(x) PROVE frame'[x].st = "busy"
    <3>1. exec[Id[x]].status # "completed"
      BY <2>2, ChildPlace DEF Current
    <3>2. QED
      BY <1>3, <2>1, <2>2, <3>1
  <2>3. ASSUME NEW t \in tasks \cap tasks', Dom[t.act] = d, t.epoch = Epoch(d), Busy(t.act)
        PROVE  frame'[t.act].st = "busy"
    <3>1. t.act \in Act
      BY DEF Shape, Tasks
    <3>2. CASE t.act = a
      BY <2>3, <3>2
    <3>3. CASE t.act # a
      BY <1>3, <2>3, <3>1, <3>3
    <3>4. QED
      BY <3>2, <3>3
  <2>4. QED
    BY <1>2, <2>1, <2>2, <2>3 DEF Lasting
<1>6. QED
  BY <1>4, <1>5, TimeKept DEF Shape

(* The epoch of a child is of its workflow.                                      *)
LEMMA ChildEpoch ==
  ASSUME Execs, Timed, NEW x \in Children, Begun(x)
  PROVE  /\ exec[Id[x]].epoch \in Seq(Nat) /\ exec[Id[x]].epoch # <<>>
         /\ Begun(Dom[x]) /\ UpTo(Front(exec[Id[x]].epoch), Epoch(Dom[x]))
BY ChildPlace DEF Execs, Begun, ChildIds, Timed

(* A child that is started again has a later epoch.                              *)
LEMMA StartedTime ==
  ASSUME SafeTree, Shape, Execs', Timed, Awaits, NEW a \in Active, Started(a), run' = run, tasks' \subseteq tasks
  PROVE  Timed' /\ Awaits'
<1>1. /\ a \in Children /\ a \in Act /\ a # Main /\ Dom[a] \in Children \cup {Main} /\ Dom[a] # a
      /\ Mode(a[1]) = "workflow" /\ Execs /\ run \in Nat
  BY ChildPlace DEF Started, Shape
<1>2. /\ ~Busy(a) /\ Alive(Dom[a]) /\ exec[Id[a]].status \notin {"running", "completed"}
      /\ exec'[Id[a]].status = "running" /\ exec'[Id[a]].epoch = Append(Epoch(Dom[a]), 1) /\ Elsewhere(a)
      /\ frame'[a].st = "busy" /\ Others(Calls(a) \cup {a}) /\ UNCHANGED status
  BY DEF Started
<1>3. Begun(Dom[a]) /\ Current(Dom[a])
  BY <1>1, <1>2, AliveIs DEF Begun, Current, Runs
<1>4. PICK p \in Seq(Nat) : p = Epoch(Dom[a])
  BY <1>1, <1>3, EpochSeq
<1>5. Append(p, 1) \in Seq(Nat) /\ Front(Append(p, 1)) = p
  BY FrontOfAppend
<1>6. Epoch(a)' = Append(p, 1) /\ Epoch(a) = exec[Id[a]].epoch
  BY <1>1, <1>2, <1>4 DEF Epoch
<1>7. ASSUME Begun(a) PROVE Earlier(Epoch(a), Epoch(a)') /\ Epoch(a)' # Epoch(a)
  <2>1. PICK e \in Seq(Nat) : e = exec[Id[a]].epoch
    BY <1>1, <1>7, ChildEpoch
  <2>2. e # <<>> /\ UpTo(Front(e), p)
    BY <1>1, <1>4, <1>7, <2>1, ChildEpoch
  <2>3. Front(e) # p
    <3>1. ~Current(a)
      BY <1>1, <1>2 DEF Current
    <3>2. QED
      BY <1>1, <1>2, <1>3, <1>4, <1>7, <2>1, <3>1 DEF Awaits
  <2>4. Earlier(e, Append(p, 1))
    BY <2>2, <2>3, EarlierChild DEF UpTo
  <2>5. e # Append(p, 1)
    BY <2>4, NotEarlier
  <2>6. QED
    BY <1>6, <2>1, <2>4, <2>5
<1>8. ASSUME NEW d \in Children \cup {Main}, d # a
      PROVE  Begun(d)' = Begun(d) /\ Epoch(d)' = Epoch(d) /\ Current(d)' = Current(d)
  BY <1>2, <1>8 DEF Begun, Epoch, Current, Elsewhere
<1>9. Begun(a)' /\ Current(a)'
  BY <1>1, <1>2 DEF Begun, Current
<1>10. ASSUME NEW d \in Children \cup {Main} PROVE Onward(d)
  BY <1>7, <1>8, <1>9 DEF Onward
<1>11. ASSUME NEW x \in Children PROVE Dated(x)
  <2>1. CASE x = a
    BY <1>2, <1>3, <1>4, <1>5, <2>1 DEF Dated
  <2>2. CASE x # a
    BY <1>2, <1>8, <2>2 DEF Dated, Elsewhere
  <2>3. QED
    BY <2>1, <2>2
<1>12. ASSUME NEW b \in Act, Dom[b] # a, Busy(b) PROVE frame'[b].st = "busy"
  <2>1. b \notin Calls(a)
    BY <1>1, <1>12, FlowCalls
  <2>2. QED
    BY <1>2, <1>12, <2>1 DEF Others, Same, Released, Busy
<1>13. ASSUME NEW d \in Children \cup {Main} PROVE Lasting(d)
  <2>1. CASE d = a
    BY <1>7, <2>1 DEF Lasting
  <2>2. CASE d # a
    <3>1. \A x \in Children : x \in Act /\ (x = a \/ (Begun(x)' = Begun(x) /\ Current(x)' = Current(x)))
      BY <1>8, ChildPlace
    <3>2. \A t \in tasks : t.act \in Act
      BY DEF Shape, Tasks
    <3>3. QED
      BY <1>8, <1>9, <1>12, <2>2, <3>1, <3>2 DEF Lasting
  <2>3. QED
    BY <2>1, <2>2
<1>14. QED
  BY <1>1, <1>10, <1>11, <1>13, TimeKept DEF Tasked

(* The job fails or completes.                                                   *)
LEMMA MainTime ==
  ASSUME Shape, Execs', Timed, Awaits, MainFails \/ Completes, run' = run, tasks' \subseteq tasks
  PROVE  Timed' /\ Awaits'
<1>1. UNCHANGED exec /\ status = "running" /\ (status' = "failed" \/ Completes)
  BY DEF MainFails, Completes
<1>2. /\ \A d \in Children \cup {Main} : Onward(d) /\ Epoch(d)' = Epoch(d) /\ Begun(d)' = Begun(d)
      /\ \A x \in Children : Dated(x)
  BY <1>1, Undated
<1>3. \A x \in Children : x # Main /\ x \in Act
  BY ChildPlace
<1>4. \A x \in Children : Current(x)' = Current(x)
  BY <1>1, <1>3 DEF Current
<1>5. Current(Main) /\ (Current(Main)' => Completes)
  BY <1>1 DEF Current
<1>6. ASSUME NEW b \in Act, Busy(b), Current(Dom[b])' PROVE frame'[b].st = "busy"
  <2>1. CASE Completes
    BY <1>6, <2>1 DEF Completes, Same, Busy
  <2>2. CASE ~Completes
    <3>1. MainFails /\ Dom[b] # Main
      BY <1>5, <1>6, <2>2
    <3>2. QED
      BY <1>6, <3>1 DEF MainFails, Vacated, Same, Busy
  <2>3. QED
    BY <2>1, <2>2
<1>7. ASSUME NEW d \in Children \cup {Main} PROVE Lasting(d)
  <2>1. Current(d)' => Current(d)
    BY <1>4, <1>5
  <2>2. \A t \in tasks : t.act \in Act
    BY DEF Shape, Tasks
  <2>3. QED
    BY <1>2, <1>3, <1>4, <1>6, <2>1, <2>2 DEF Lasting
<1>8. QED
  BY <1>2, <1>7, TimeKept DEF Shape, Tasked

(* The job is started again: a new run.                                          *)
LEMMA RerunTime ==
  ASSUME Shape, Execs', Timed, Awaits, Reruns, tasks' \subseteq tasks
  PROVE  Timed' /\ Awaits'
<1>1. UNCHANGED exec /\ run \in Nat /\ run' = run + 1 /\ \A b \in Act \ {Root} : Same(b)
  BY DEF Shape, Reruns
<1>2. \A x \in Children : x # Main /\ x \in Act
  BY ChildPlace
<1>3. \A x \in Children : Current(x)' = Current(x) /\ Begun(x)' = Begun(x) /\ Epoch(x)' = Epoch(x)
  BY <1>1, <1>2 DEF Current, Begun, Epoch
<1>4. Begun(Main)' /\ Earlier(Epoch(Main), Epoch(Main)') /\ Epoch(Main)' # Epoch(Main)
  <2>6. <<run>> \in Seq(Nat) /\ <<run + 1>> \in Seq(Nat)
    BY <1>1
  <2>1. PICK e \in Seq(Nat), f \in Seq(Nat) : e = <<run>> /\ f = <<run + 1>>
    BY <2>6
  <2>2. Len(e) = 1 /\ Len(f) = 1 /\ e[1] = run /\ f[1] = run + 1
    BY <2>1
  <2>3. Earlier(e, f)
    BY <1>1, <2>2 DEF Earlier
  <2>4. e # f
    BY <2>3, NotEarlier
  <2>5. QED
    BY <1>1, <2>1, <2>3, <2>4 DEF Begun, Epoch
<1>5. ASSUME NEW d \in Children \cup {Main} PROVE Onward(d)
  BY <1>3, <1>4 DEF Onward
<1>6. \A x \in Children : Dated(x)
  BY <1>1, <1>3 DEF Dated
<1>7. ASSUME NEW b \in Act, Dom[b] # Main, Busy(b) PROVE frame'[b].st = "busy"
  BY <1>1, <1>7, RootAct DEF Same, Busy
<1>8. ASSUME NEW d \in Children \cup {Main} PROVE Lasting(d)
  <2>1. CASE d = Main
    BY <1>4, <2>1 DEF Lasting
  <2>2. CASE d # Main
    <3>1. \A t \in tasks : t.act \in Act
      BY DEF Shape, Tasks
    <3>2. QED
      BY <1>2, <1>3, <1>7, <2>2, <3>1 DEF Lasting
  <2>3. QED
    BY <2>1, <2>2
<1>9. QED
  BY <1>1, <1>5, <1>6, <1>8, TimeKept DEF Tasked

(* A child ends, for its workflow to see.                                        *)
LEMMA EndTime ==
  ASSUME SafeTree, Shape, Execs', Waiting, Settled, Whole, Timed, Awaits, NEW d \in Children,
         FlowCloses(d) \/ ChildEnds(d), run' = run, tasks' \subseteq tasks
  PROVE  Timed' /\ Awaits'
<1>1. /\ Execs /\ Runs(d) /\ Elsewhere(d) /\ UNCHANGED status /\ exec'[Id[d]].epoch = exec[Id[d]].epoch
      /\ exec'[Id[d]].status \in {"completed", "failed", "terminated"}
      /\ \A b \in Act : Dom[b] # d => Same(b)
      /\ FlowCloses(d) => exec'[Id[d]].status # "completed"
      /\ ChildEnds(d) => \A b \in Act : Same(b)
  BY DEF Shape, FlowCloses, ChildEnds, Vacated
<1>2. \A x \in Children : x # Main /\ x \in Act /\ Dom[x] # x
  BY ChildPlace
<1>3. ASSUME NEW c \in Children \cup {Main}
      PROVE  /\ Begun(c)' = Begun(c) /\ Epoch(c)' = Epoch(c)
             /\ c # d => Current(c)' = Current(c)
  <2>1. CASE c = d
    <3>1. Begun(c) /\ Begun(c)'
      BY <1>1, <2>1 DEF Begun, Runs
    <3>2. QED
      BY <1>1, <1>2, <2>1, <3>1 DEF Epoch
  <2>2. CASE c # d
    BY <1>1, <2>2 DEF Begun, Epoch, Current, Elsewhere
  <2>3. QED
    BY <2>1, <2>2
<1>4. Current(d) /\ Begun(d)
  BY <1>1, <1>2 DEF Current, Begun, Runs
<1>5. ASSUME NEW c \in Children \cup {Main} PROVE Onward(c)
  BY <1>3 DEF Onward
<1>6. ASSUME NEW x \in Children PROVE Dated(x)
  <2>1. exec'[Id[x]].epoch = exec[Id[x]].epoch
    BY <1>1 DEF Elsewhere
  <2>2. QED
    BY <1>3, <2>1 DEF Dated
<1>7. ASSUME NEW b \in Act, Busy(b), Current(Dom[b])' PROVE frame'[b].st = "busy"
  <2>1. CASE Dom[b] # d
    BY <1>1, <1>7, <2>1 DEF Same, Busy
  <2>2. CASE Dom[b] = d
    <3>1. exec'[Id[d]].status = "completed"
      BY <1>1, <1>2, <1>7, <2>2 DEF Current
    <3>2. QED
      BY <1>1, <1>7, <3>1 DEF Same, Busy
  <2>3. QED
    BY <2>1, <2>2
<1>8. ASSUME NEW c \in Children \cup {Main} PROVE Lasting(c)
  <2>1. Current(c)' => Current(c)
    BY <1>3, <1>4
  <2>2. ASSUME NEW x \in Children, Dom[x] = c, Current(c)', Begun(x)', ~Current(x)', Begun(x) => Current(x)
        PROVE  frame'[x].st = "busy"
    <3>1. x = d
      <4>1. x # d => Begun(x) /\ Current(x)
        BY <1>3, <2>2
      <4>2. x # d => Current(x)' = Current(x)
        BY <1>3
      <4>3. QED
        BY <2>2, <4>1, <4>2
    <3>2. Current(Dom[x])
      BY <2>1, <2>2
    <3>3. Busy(x)
      BY <1>1, <3>1, <3>2, CurrentWaits
    <3>4. QED
      BY <1>2, <1>7, <2>2, <3>3
  <2>3. \A t \in tasks : t.act \in Act
    BY DEF Shape, Tasks
  <2>4. QED
    BY <1>2, <1>7, <2>1, <2>2, <2>3 DEF Lasting
<1>9. QED
  BY <1>5, <1>6, <1>8, TimeKept DEF Shape, Tasked

(* A flow is retried: a new attempt.                                             *)
LEMMA RestartTime ==
  ASSUME SafeTree, Shape, Execs', Timed, Awaits, NEW d \in Children, FlowRestarts(d),
         run' = run, tasks' \subseteq tasks
  PROVE  Timed' /\ Awaits'
<1>1. /\ Execs /\ Runs(d) /\ Elsewhere(d) /\ UNCHANGED status /\ exec'[Id[d]].status = "running"
      /\ exec'[Id[d]].epoch = Append(Front(exec[Id[d]].epoch), Last(exec[Id[d]].epoch) + 1)
      /\ Vacated(d, {Step(d, 1)}) /\ Flow(d[1])
  BY DEF Shape, FlowRestarts
<1>2. \A x \in Children : x # Main /\ x \in Act /\ Dom[x] # x /\ Mode(x[1]) = "workflow"
  BY ChildPlace
<1>3. ASSUME NEW c \in Children \cup {Main}, c # d
      PROVE  Begun(c)' = Begun(c) /\ Epoch(c)' = Epoch(c) /\ Current(c)' = Current(c)
  BY <1>1, <1>3 DEF Begun, Epoch, Current, Elsewhere
<1>4. Begun(d) /\ Begun(d)' /\ Current(d) /\ Current(d)'
  BY <1>1, <1>2 DEF Begun, Current, Runs
<1>5. /\ Earlier(Epoch(d), Epoch(d)') /\ Epoch(d)' # Epoch(d)
      /\ Front(exec'[Id[d]].epoch) = Front(exec[Id[d]].epoch)
  <2>1. PICK e \in Seq(Nat) : e = exec[Id[d]].epoch
    BY <1>1, <1>4, ChildEpoch
  <2>2. e # <<>>
    BY <1>1, <1>4, <2>1, ChildEpoch
  <2>3. /\ Earlier(e, Append(Front(e), Last(e) + 1))
        /\ Front(Append(Front(e), Last(e) + 1)) = Front(e)
    BY <2>2, EarlierAttempt
  <2>4. e # Append(Front(e), Last(e) + 1)
    BY <2>3, NotEarlier
  <2>5. Epoch(d) = e /\ Epoch(d)' = Append(Front(e), Last(e) + 1)
    BY <1>1, <1>2, <2>1 DEF Epoch
  <2>6. QED
    BY <1>1, <2>1, <2>3, <2>4, <2>5
<1>6. ASSUME NEW c \in Children \cup {Main} PROVE Onward(c)
  BY <1>3, <1>4, <1>5 DEF Onward
<1>7. ASSUME NEW x \in Children PROVE Dated(x)
  <2>1. CASE x = d
    BY <1>4, <1>5, <2>1 DEF Dated
  <2>2. CASE x # d
    BY <1>1, <1>3, <2>2 DEF Dated, Elsewhere
  <2>3. QED
    BY <2>1, <2>2
<1>8. ASSUME NEW b \in Act, Dom[b] # d, Busy(b) PROVE frame'[b].st = "busy"
  <2>1. b # Step(d, 1)
    BY <1>1, <1>2, <1>8, FlowCalls
  <2>2. QED
    BY <1>1, <1>8, <2>1 DEF Vacated, Same, Busy
<1>9. ASSUME NEW c \in Children \cup {Main} PROVE Lasting(c)
  <2>1. CASE c = d
    BY <1>5, <2>1 DEF Lasting
  <2>2. CASE c # d
    <3>1. \A x \in Children : x \in Act /\ (Current(x)' \/ (Begun(x)' = Begun(x) /\ Current(x)' = Current(x)))
      BY <1>2, <1>3, <1>4
    <3>2. \A t \in tasks : t.act \in Act
      BY DEF Shape, Tasks
    <3>3. QED
      BY <1>3, <1>8, <2>2, <3>1, <3>2 DEF Lasting
  <2>3. QED
    BY <2>1, <2>2
<1>10. QED
  BY <1>6, <1>7, <1>9, TimeKept DEF Shape, Tasked

(* Every step that closes or fails a workflow.                                   *)
LEMMA FailTime ==
  ASSUME SafeTree, Shape, Execs', Waiting, Settled, Whole, Timed, Awaits,
         MainFails \/ \E d \in Children : FlowCloses(d) \/ FlowRestarts(d),
         run' = run, tasks' \subseteq tasks
  PROVE  Timed' /\ Awaits'
<1>1. CASE MainFails
  BY <1>1, MainTime
<1>2. ASSUME NEW d \in Children, FlowCloses(d) PROVE Timed' /\ Awaits'
  BY <1>2, EndTime
<1>3. ASSUME NEW d \in Children, FlowRestarts(d) PROVE Timed' /\ Awaits'
  BY <1>3, RestartTime
<1>4. QED
  BY <1>1, <1>2, <1>3

(* An activity is scheduled in the epoch of its workflow.                        *)
LEMMA ScheduleTime ==
  ASSUME SafeTree, Shape, Execs', Stack, Timed, Awaits, NEW a \in Active, ScheduleActivity(a)
  PROVE  Timed' /\ Awaits'
<1>1. /\ a \in Act /\ Mode(a[1]) = "activity" /\ At(a, "called") /\ UNCHANGED <<run, status, exec>>
      /\ tasks' = tasks \cup {[act |-> a, epoch |-> Epoch(Dom[a])]}
      /\ frame' = [frame EXCEPT ![a].st = "busy"]
  BY DEF ScheduleActivity, Active
<1>2. Alive(Dom[a]) /\ DOMAIN frame = Act /\ DOMAIN frame[a] = Fields
  BY <1>1, Here
<1>3. frame'[a].st = "busy"
  BY <1>1, <1>2 DEF Fields
<1>4. Effect(a)
  BY ScheduleActivityIs
<1>5. Begun(Dom[a])
  BY <1>1, <1>2, AliveIs DEF Begun, Runs, Shape
<1>6. Epoch(Dom[a])' = Epoch(Dom[a])
  BY <1>1 DEF Epoch
<1>7. Tasked
  BY <1>1, <1>3, <1>5, <1>6 DEF Tasked
<1>8. \A t \in tasks \cap tasks' :
        t.act = a /\ t.epoch = Epoch(Dom[a]) /\ Busy(a) => frame'[a].st = "busy"
  BY <1>3
<1>9. QED
  BY <1>1, <1>4, <1>7, <1>8, EffectTime

(* A phase that is not an activity moves.                                        *)
LEMMA PhaseTime ==
  ASSUME Shape, Execs', Stack, Timed, Awaits, NEW a \in Act, Effect(a), Mode(a[1]) # "activity",
         run' = run, tasks' \subseteq tasks
  PROVE  Timed' /\ Awaits'
<1>1. \A t \in tasks : t.act # a
  BY DEF Shape, Tasks
<1>2. Tasked
  BY DEF Tasked
<1>3. \A t \in tasks \cap tasks' :
        t.act = a /\ t.epoch = Epoch(Dom[a]) /\ Busy(a) => frame'[a].st = "busy"
  BY <1>1
<1>4. QED
  BY <1>2, <1>3, EffectTime

(* An activity ends: of its epoch there was no other.                            *)
LEMMA ActivityTime ==
  ASSUME Shape, Execs', Stack, Timed, Awaits, NEW t \in tasks, ActivityCompletes(t)
  PROVE  Timed' /\ Awaits'
<1>1. t.act \in Act /\ Effect(t.act)
  BY ActivityCompletesIs
<1>2. run' = run /\ tasks' = tasks \ {t}
  BY DEF ActivityCompletes
<1>3. ASSUME NEW u \in tasks', u.act = t.act, u.epoch = Epoch(Dom[t.act]), Busy(t.act)
      PROVE  frame'[t.act].st = "busy"
  <2>1. CASE Awaited(t)
    <3>1. t.epoch = u.epoch /\ u \in tasks /\ u # t
      BY <1>2, <1>3, <2>1 DEF Awaited
    <3>2. t = [act |-> t.act, epoch |-> t.epoch] /\ u = [act |-> u.act, epoch |-> u.epoch]
      BY <3>1 DEF Timed
    <3>3. QED
      BY <1>3, <3>1, <3>2
  <2>2. CASE ~Awaited(t)
    BY <1>3, <2>2 DEF ActivityCompletes, Busy
  <2>3. QED
    BY <2>1, <2>2
<1>4. Tasked
  BY <1>2 DEF Tasked
<1>5. QED
  BY <1>1, <1>2, <1>3, <1>4, EffectTime

(* An activity that nobody waits for fails.                                      *)
LEMMA QuietTime ==
  ASSUME Shape, Execs', Stack, Timed, Awaits, Frames', Quiet, run' = run, tasks' \subseteq tasks
  PROVE  Timed' /\ Awaits'
<1>1. Root \in Act /\ Effect(Root)
  BY RootAct DEF Effect, Quiet
<1>2. Busy(Root) => frame'[Root].st = "busy"
  BY <1>1 DEF Quiet, Others, Same, Released, Busy
<1>3. Tasked
  BY DEF Tasked
<1>4. QED
  BY <1>1, <1>2, <1>3, EffectTime

(* Epochs are kept by every step.                                                *)
LEMMA StepTime ==
  ASSUME SafeTree, Careful, Sound, Timed, Awaits, [Next]_vars
  PROVE  Timed' /\ Awaits'
<1>1. Shape /\ Unskipped /\ Stack /\ Waiting /\ Settled /\ OneBranch /\ Whole
  BY DEF Sound
<1>2. Frames' /\ Execs'
  BY <1>1, NextMoves
<1>3. ASSUME NEW a \in Active, Run(a) \/ ExtractFails(a) PROVE Timed' /\ Awaits'
  <2>1. a \in Act
    BY DEF Active
  <2>2. CASE StartPipeline(a) \/ StepPipeline(a) \/ StartParallel(a) \/ \E b \in Subs(a) : JoinParallel(a, b)
    <3>1. Effect(a)
      BY <1>1, <2>1, <2>2, StartPipelineIs, StepPipelineIs, StartParallelIs, JoinParallelIs
    <3>2. Mode(a[1]) # "activity" /\ UNCHANGED <<run, tasks>>
      BY <2>2 DEF StartPipeline, StepPipeline, StepPipelineTo, StartParallel, JoinParallel, JoinThen
    <3>3. QED
      BY <1>1, <1>2, <2>1, <3>1, <3>2, PhaseTime
  <2>3. CASE StartShard(a) \/ Partitioned(a) \/ StepShard(a) \/ ChildReturns(a)
    <3>1. Effect(a)
      BY <1>1, <2>1, <2>3, StartShardIs, PartitionedIs, StepShardIs, ChildReturnsIs
    <3>2. Mode(a[1]) # "activity" /\ UNCHANGED <<run, tasks>>
      BY <2>3 DEF StartShard, Partitioned, StepShard, StepShardWith, IsShard, ChildReturns, Ended
    <3>3. QED
      BY <1>1, <1>2, <2>1, <3>1, <3>2, PhaseTime
  <2>4. CASE ScheduleActivity(a)
    BY <1>1, <1>2, <2>4, ScheduleTime
  <2>5. CASE StartChild(a)
    <3>1. Mode(a[1]) # "activity" /\ UNCHANGED <<run, tasks>>
      BY <2>5 DEF StartChild, StartChildUnder
    <3>2. CASE Effect(a)
      BY <1>1, <1>2, <2>1, <3>1, <3>2, PhaseTime
    <3>3. CASE Started(a)
      BY <1>1, <1>2, <3>1, <3>3, StartedTime
    <3>4. QED
      BY <1>1, <2>5, <3>2, <3>3, StartChildIs
  <2>6. CASE ChildErrs(a) \/ ExtractFails(a)
    <3>1. UNCHANGED <<run, tasks>>
      BY <2>6 DEF ChildErrs, ExtractFails
    <3>2. MainFails \/ \E d \in Children : FlowCloses(d) \/ FlowRestarts(d)
      BY <1>1, <2>6, ChildErrsIs, ExtractFailsIs
    <3>3. QED
      BY <1>1, <1>2, <3>1, <3>2, FailTime
  <2>7. QED
    BY <1>3, <2>2, <2>3, <2>4, <2>5, <2>6 DEF Run
<1>4. ASSUME NEW t \in tasks, ActivityCompletes(t) PROVE Timed' /\ Awaits'
  BY <1>1, <1>2, <1>4, ActivityTime
<1>5. ASSUME NEW t \in tasks, ActivityFails(t) PROVE Timed' /\ Awaits'
  <2>1. run' = run /\ tasks' \subseteq tasks
    BY <1>5 DEF ActivityFails, ActivityFailsWith
  <2>2. CASE Quiet
    BY <1>1, <1>2, <2>1, <2>2, QuietTime
  <2>3. CASE MainFails \/ \E d \in Children : FlowCloses(d) \/ FlowRestarts(d)
    BY <1>1, <1>2, <2>1, <2>3, FailTime
  <2>4. QED
    BY <1>1, <1>5, <2>2, <2>3, ActivityFailsIs
<1>6. ASSUME NEW id \in ChildIds, ChildCompletes(id) \/ ChildFails(id) \/ FlowCompletes(id) \/ Terminate(id)
      PROVE  Timed' /\ Awaits'
  <2>1. UNCHANGED <<run, tasks>>
    BY <1>6 DEF ChildCompletes, ChildFails, FlowCompletes, Terminate
  <2>2. \E d \in Children : FlowCloses(d) \/ ChildEnds(d)
    <3>1. CASE ChildCompletes(id) \/ ChildFails(id)
      BY <1>1, <3>1, HandWrittenEnds DEF Done
    <3>2. CASE FlowCompletes(id)
      BY <1>1, <3>2, FlowCompletesIs DEF Done
    <3>3. CASE Terminate(id)
      BY <1>1, <3>3, TerminateIs
    <3>4. QED
      BY <1>6, <3>1, <3>2, <3>3
  <2>3. QED
    BY <1>1, <1>2, <2>1, <2>2, EndTime
<1>7. CASE Complete \/ Abort \/ Rerun
  <2>1. tasks' = tasks /\ (Complete \/ Abort => run' = run)
    BY <1>7 DEF Complete, Abort, Rerun
  <2>2. CASE Rerun
    <3>1. status' # status
      BY <2>2 DEF Rerun
    <3>2. Reruns \/ MainFails \/ Completes
      BY <1>1, <1>7, MainIs
    <3>3. status = "failed"
      BY <2>2 DEF Rerun
    <3>4. Reruns
      BY <3>2, <3>3 DEF MainFails, Completes
    <3>5. QED
      BY <1>1, <1>2, <2>1, <3>4, RerunTime
  <2>3. CASE Complete \/ Abort
    <3>1. status = "running"
      BY <2>3, RootAct DEF Complete, Abort, At, Alive
    <3>2. MainFails \/ Completes
      BY <1>1, <2>3, <3>1, MainIs DEF Reruns
    <3>3. QED
      BY <1>1, <1>2, <2>1, <2>3, <3>2, MainTime
  <2>4. QED
    BY <1>7, <2>2, <2>3
<1>8. CASE UNCHANGED vars
  <2>1. UNCHANGED <<frame, status, exec, done, run, tasks>>
    BY <1>8 DEF vars
  <2>2. Quiet
    BY <2>1 DEF Steady, Quiet, Others, Same
  <2>3. QED
    BY <1>1, <1>2, <2>1, <2>2, QuietTime
<1>9. ASSUME NEW d \in Children, FlowTimesOut(d) PROVE Timed' /\ Awaits'
  <2>1. UNCHANGED <<run, tasks>>
    BY <1>9 DEF FlowTimesOut
  <2>2. \E c \in Children : FlowCloses(c) \/ FlowRestarts(c)
    BY <1>1, <1>9, FlowTimesOutIs
  <2>3. QED
    BY <1>1, <1>2, <2>1, <2>2, FailTime
<1>10. QED
  BY <1>3, <1>4, <1>5, <1>6, <1>7, <1>8, <1>9 DEF Next

(* They are kept from the start.                                                 *)
LEMMA TimesAlways == Spec => [](SafeTree /\ Careful => Sound /\ Timed /\ Awaits)
<1> DEFINE I == SafeTree /\ Careful => Sound /\ Timed /\ Awaits
<1>1. Init => I
  <2> SUFFICES ASSUME Init PROVE Sound /\ Timed /\ Awaits
    OBVIOUS
  <2>1. tasks = {} /\ \A x \in Children : ~Begun(x)
    BY ChildPlace DEF Init, Begun, Absent, ChildIds
  <2>2. QED
    BY <2>1, InitSound DEF Timed, Awaits
<1>2. I /\ [Next]_vars => I'
  <2> SUFFICES ASSUME I, [Next]_vars, (SafeTree /\ Careful)' PROVE (Sound /\ Timed /\ Awaits)'
    OBVIOUS
  <2>1. SafeTree /\ Careful
    BY DEF SafeTree
  <2>2. QED
    BY <2>1, StepSound, StepTime
<1>3. QED
  BY <1>1, <1>2, PTL DEF Spec

(* A run completes only after everything it started, and what is still running   *)
(* when the job is successful is of a run, or an attempt, that failed or was out  *)
(* of time: nothing is forgotten by a parallel that returned or a shard that     *)
(* went on (phase.go 383-470, 524-575).                                          *)
THEOREM NothingForgotten == Spec => [](SafeTree /\ Careful => Quiescent)
<1>1. (SafeTree /\ Careful => Sound /\ Timed /\ Awaits) => (SafeTree /\ Careful => Quiescent)
  <2> SUFFICES ASSUME SafeTree, Sound, Timed, Awaits, status = "completed" PROVE Quiescent
    BY DEF Quiescent
  <2>1. Finished(Root) /\ Root \in Act
    BY RootAct DEF Sound, Whole
  <2>2. \A x \in Children : exec[Id[x]].status = "completed"
    BY <2>1, ChildPlace, AllBelowRoot DEF Finished
  <2>3. ASSUME NEW t \in tasks, t.epoch = Epoch(Dom[t.act]) PROVE FALSE
    <3>1. t.act \in Act
      BY DEF Sound, Shape, Tasks
    <3>2. Dom[t.act] = Main \/ Dom[t.act] \in Children
      BY <3>1, DomFacts
    <3>3. Current(Dom[t.act])
      BY <2>2, <3>2 DEF Current
    <3>4. Busy(t.act)
      BY <2>3, <3>3 DEF Awaits
    <3>5. Alive(Dom[t.act])
      BY <3>1, <3>4 DEF Sound, Stack, DeadIdle, Busy, Active
    <3>6. QED
      BY <2>2, <3>1, <3>2, <3>5, AliveIs DEF Sound, Shape, Runs
  <2>4. ASSUME NEW id \in ChildIds PROVE exec[id].status # "running"
    BY <2>2 DEF ChildIds
  <2>5. QED
    BY <2>3, <2>4 DEF Quiescent
<1>2. QED
  BY <1>1, TimesAlways, PTL
===============================================================================
