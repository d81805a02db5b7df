------------------------------ MODULE PhaseTree ------------------------------
(* A job: the main workflow executes a tree of phases (Compile and Phase.run,    *)
(* batch/phase.go) over activities and child workflows, and a run that failed is *)
(* started again under the same workflow ID (Job.Start).  Children that          *)
(* completed are recognised by their IDs and skipped; a run that closes leaves   *)
(* its activities running and its children to be terminated.                     *)
EXTENDS Integers, FiniteSets, SequencesExt

CONSTANTS
  Tree,          \* the phases; 1 is the root, a phase comes before those it holds
  FlowAttempts,  \* WithWorkflowMaxAttempts of the flows
  FlowTimeout,   \* the flows have a WithWorkflowStartToCloseTimeout
  MaxRuns,       \* bound: runs of the main workflow
  MaxFaults,     \* bound: what fails: activities, children, partition lists; timeouts, aborted runs
  Careful        \* the client starts the job again only when no child is running

Node == 1..Len(Tree)
Modes == {"activity", "workflow", "pipeline", "parallel", "shard"}
Kids(n) == ToSet(Tree[n].steps)

(* Tree[n].name: the words of the name, joined by "-".  Tree[n].steps: the steps *)
(* of a pipeline or parallel; <<partitioner, handler>> of a shard; <<root>> of a *)
(* flow; nothing for a leaf.  Tree[n].parts: the names of the partitions the     *)
(* partitioner of a shard returns.                                               *)
ASSUME PhaseTreeAssumption ==
  /\ Tree \in Seq([mode : Modes, name : Seq(STRING), steps : Seq(Nat), parts : Seq(Seq(STRING))])
  /\ Len(Tree) > 0
  /\ \A n \in Node : \A c \in Kids(n) : c \in Node /\ c > n
  /\ \A n \in Node : IsInjective(Tree[n].steps)
  /\ \A n \in Node \ {1} : \E m \in Node : /\ n \in Kids(m)
                                           /\ \A k \in Node : n \in Kids(k) => k = m
  /\ \A n \in Node : CASE Tree[n].mode = "activity" -> Len(Tree[n].steps) = 0
                       [] Tree[n].mode = "workflow" -> Len(Tree[n].steps) <= 1
                       [] Tree[n].mode = "shard" -> Len(Tree[n].steps) = 2
                       [] OTHER -> TRUE
  /\ FlowAttempts \in Nat \ {0} /\ FlowTimeout \in BOOLEAN
  /\ MaxRuns \in Nat \ {0}
  /\ MaxFaults \in Nat
  /\ Careful \in BOOLEAN

Mode(n) == Tree[n].mode
Name(n) == Tree[n].name
Leaf(n) == Mode(n) \in {"activity", "workflow"}
Flow(n) == Mode(n) = "workflow" /\ Tree[n].steps # <<>>
(* A constant function f, in a form TLC computes once: comparing it with itself. *)
Table(f) == CHOOSE g \in {f} : g = g
Parent == Table([n \in Node \ {1} |-> CHOOSE m \in Node : n \in Kids(m)])
IsShardPart(n, j) == n # 1 /\ Mode(Parent[n]) = "shard" /\ n = Tree[Parent[n]].steps[j]
Partitioner(n) == IsShardPart(n, 1)
Handler(n) == IsShardPart(n, 2)
Desc[n \in Node] == {n} \cup UNION {Desc[c] : c \in Kids(n)}

(* A composite partitioner is never run: the code takes no output from it.      *)
ASSUME PartitionersAreLeaves == \A n \in Node : Partitioner(n) => Leaf(n)

(* An activation <<n, p>>: phase n, under partitions p of the handlers around it.*)
Within(n, parts) ==
  IF Handler(n) THEN {Append(p, i) : p \in parts, i \in DOMAIN Tree[Parent[n]].parts} ELSE parts
Parts[n \in Node] == IF n = 1 THEN {<<>>} ELSE Within(n, Parts[Parent[n]])
Act == UNION {{n} \X Parts[n] : n \in Node}
Depth[n \in Node] == IF n = 1 THEN 0 ELSE Depth[Parent[n]] + (IF Handler(n) THEN 1 ELSE 0)
Up(a, n) == <<n, SubSeq(a[2], 1, Depth[n])>>
Sub(a, n) == <<n, a[2]>>
Subs(a) == {Sub(a, n) : n \in Kids(a[1])}
Step(a, j) == Sub(a, Tree[a[1]].steps[j])

(* The workflow execution that runs an activation: the main one, or a flow.      *)
Main == <<0, <<>>>>
DomNode[n \in Node] ==
  IF n = 1 THEN 0 ELSE IF Flow(Parent[n]) THEN Parent[n] ELSE DomNode[Parent[n]]
Dom == Table([a \in Act |-> IF DomNode[a[1]] = 0 THEN Main ELSE Up(a, DomNode[a[1]])])

(* Mutant: no clone for a branch of a parallel.                                  *)
CloneNoBranch(n) == n = 1 \/ Handler(n) \/ Flow(Parent[n])

(* A branch of a parallel and a handler run with a clone of the FlowCtx, a flow  *)
(* with its own copy; any other phase shares the FlowCtx of its parent.          *)
Clone(n) == n = 1 \/ Handler(n) \/ Mode(Parent[n]) = "parallel" \/ Flow(Parent[n])
OwnNode[n \in Node] == IF Clone(n) THEN n ELSE OwnNode[Parent[n]]
Own == Table([a \in Act |-> Up(a, OwnNode[a[1]])])

(* A partition without a name gets {shard}-{index}.                              *)
PartName(s, i) ==
  IF Tree[s].parts[i] = <<>> THEN Append(Name(s), ToString(i - 1)) ELSE Tree[s].parts[i]

(* Workflow IDs, the main one left out: {mainID}-{name} and                      *)
(* {mainID}-shard-{partition}.                                                   *)
Id0[a \in Act \cup {Main}] ==
  IF a = Main THEN <<>>
  ELSE Id0[Dom[a]] \o (IF Handler(a[1]) THEN <<"shard">> \o PartName(Parent[a[1]], Last(a[2]))
                      ELSE Name(a[1]))

Id == Table(Id0)

(* The units of work: leaves that do something themselves, once per partition.   *)
Work == {a \in Act : Leaf(a[1]) /\ ~Flow(a[1])}
Children == {a \in Act : Mode(a[1]) = "workflow"}
ChildIds == {Id[a] : a \in Children}
Names == {Name(n) : n \in Node}

(* What a leaf or a shard leaves in the FlowCtx: n stands for its "processed",   *)
(* skips for "skipped_shards".  "mark" is the map a skipped leaf leaves, "map"   *)
(* that of all outputs a flow over several phases returns; None and Skipped are  *)
(* no outputs.                                                                   *)
Vals == [tag : {"out", "map", "agg", "mark", "none", "skipped"}, n : Nat, skips : Nat]
Val(tag) == [tag |-> tag, n |-> 0, skips |-> 0]
Out == [Val("out") EXCEPT !.n = 1]
None == Val("none")
Skipped == Val("skipped")

(* The outputs in a FlowCtx, by name.                                            *)
NoOuts == <<>>
IsCtx(fc) == DOMAIN fc \subseteq Names /\ ToSet(fc) \subseteq Vals \ {None, Skipped}
Over(fc, sub) == [x \in DOMAIN fc \cup DOMAIN sub |-> IF x \in DOMAIN sub THEN sub[x] ELSE fc[x]]
Put(fc, n, v) == Over(fc, [x \in {Name(n)} |-> v])

(* The frame of an activation: called, busy (waiting for a step or a future),    *)
(* returned without error; the step or partition it is at; the output its caller *)
(* takes; the aggregate of a shard; its FlowCtx, when it has one of its own.     *)
IsFrame(f) ==
  /\ f.st \in {"idle", "called", "busy", "ok"} /\ f.at \in Nat /\ f.val \in Vals
  /\ f.sum \in Nat /\ f.skips \in Nat /\ IsCtx(f.fc)
Idle == [st |-> "idle", at |-> 0, val |-> None, sum |-> 0, skips |-> 0, fc |-> NoOuts]
Called == [Idle EXCEPT !.st = "called"]
CalledWith(ctx) == [Called EXCEPT !.fc = ctx]

VARIABLES
  run, status,  \* the current run of the main workflow
  frame,        \* frame[a]: the frame of activation a
  exec,         \* exec[id]: the last execution of child workflow id
  tasks,        \* activities scheduled or running, also those of closed runs
  done,         \* units of work that were carried out successfully
  faults

vars == <<run, status, frame, exec, tasks, done, faults>>

(* The epoch of a workflow: its run or attempt, after the epoch of its parent;   *)
(* in: the FlowCtx it was started with.                                          *)
Absent == [status |-> "absent", epoch |-> <<>>, act |-> Main, in |-> NoOuts]
IsExec(e) ==
  /\ e.status \in {"absent", "running", "completed", "failed", "terminated"}
  /\ e.epoch \in Seq(Nat) /\ e.act \in Children \cup {Main} /\ IsCtx(e.in)

TypeOK ==
  /\ run \in 1..MaxRuns
  /\ status \in {"running", "completed", "failed"}
  /\ DOMAIN frame = Act /\ \A a \in Act : IsFrame(frame[a])
  /\ DOMAIN exec = ChildIds /\ \A id \in ChildIds : IsExec(exec[id])
  /\ tasks \subseteq [act : Work, epoch : Seq(Nat)]
  /\ done \subseteq Work
  /\ faults \in 0..MaxFaults

Root == <<1, <<>>>>

Init ==
  /\ run = 1 /\ status = "running"
  /\ frame = [a \in Act |-> IF a = Root THEN Called ELSE Idle]
  /\ exec = [id \in ChildIds |-> Absent]
  /\ tasks = {} /\ done = {} /\ faults = 0

Fault == faults < MaxFaults /\ faults' = faults + 1
Ctx(a) == frame[Own[a]].fc
Running(d) == exec[Id[d]].status = "running" /\ exec[Id[d]].act = d
Alive(d) == IF d = Main THEN status = "running" ELSE Running(d)
Epoch(d) == IF d = Main THEN <<run>> ELSE exec[Id[d]].epoch
At(a, st) == frame[a].st = st /\ Alive(Dom[a])

(* The result of an activity is still awaited by the run that scheduled it.      *)
Awaited(t) == At(t.act, "busy") /\ Epoch(Dom[t.act]) = t.epoch

(* A leaf has its output: a shard takes it from the call, for any other caller   *)
(* it is put into the FlowCtx, or the mark that there is none.                   *)
Returns(a, v) ==
  frame' = IF Handler(a[1]) \/ Partitioner(a[1])
             THEN [frame EXCEPT ![a].st = "ok", ![a].val = v]
             ELSE [frame EXCEPT ![a].st = "ok",
                     ![Own[a]].fc = Put(@, a[1], IF v = Skipped THEN Val("mark") ELSE v)]

(* Mutant: no recover at the top, the workflow task fails again and again.       *)
FailsStuck(d) ==
  /\ status' = IF d = Main THEN "stuck" ELSE status
  /\ UNCHANGED <<frame, exec>>

(* A flow that failed or ran out of time has attempts left.                      *)
Again(e) == Last(e.epoch) < FlowAttempts

(* An error is caught nowhere below Compile: the execution closes, its frames    *)
(* are gone; a flow with attempts left starts over with the same input.  What    *)
(* the execution has started goes on.                                            *)
Closed(d) == [a \in Act |-> IF Dom[a] = d THEN Idle ELSE frame[a]]
Fails(d) ==
  IF d = Main THEN /\ status' = "failed"
                   /\ frame' = Closed(d)
                   /\ UNCHANGED exec
  ELSE LET e == exec[Id[d]]
       IN  /\ exec' = [exec EXCEPT ![Id[d]] =
                         IF Again(e) THEN [e EXCEPT !.epoch = Append(Front(@), Last(@) + 1)]
                         ELSE [e EXCEPT !.status = "failed"]]
           /\ frame' = IF Again(e) THEN [Closed(d) EXCEPT ![Step(d, 1)] = CalledWith(e.in)]
                       ELSE Closed(d)
           /\ UNCHANGED status

-------------------------------------------------------------------------------
(* Phase.run.                                                                    *)

StartPipeline(a) ==
  /\ Mode(a[1]) = "pipeline" /\ At(a, "called")
  /\ frame' = IF Kids(a[1]) = {} THEN [frame EXCEPT ![a].st = "ok"]
              ELSE [frame EXCEPT ![a].st = "busy", ![a].at = 1, ![Step(a, 1)] = Called]
  /\ UNCHANGED <<run, status, exec, tasks, done, faults>>

StepPipelineTo(a, next) ==
  /\ Mode(a[1]) = "pipeline" /\ At(a, "busy")
  /\ frame[Step(a, frame[a].at)].st = "ok"
  /\ frame' = IF next > Len(Tree[a[1]].steps) THEN [frame EXCEPT ![a].st = "ok"]
              ELSE [frame EXCEPT ![a].at = next, ![Step(a, next)] = Called]
  /\ UNCHANGED <<run, status, exec, tasks, done, faults>>

(* Mutant: the step is called again instead of the next one.                     *)
StepPipelineStuck(a) == StepPipelineTo(a, frame[a].at)
StepPipeline(a) == StepPipelineTo(a, frame[a].at + 1)

(* One goroutine per branch, each with a clone of the FlowCtx.                   *)
StartParallel(a) ==
  /\ Mode(a[1]) = "parallel" /\ At(a, "called")
  /\ frame' = [b \in Act |-> IF b \in Subs(a) THEN CalledWith(Ctx(a))
                             ELSE IF b # a THEN frame[b]
                             ELSE [frame[a] EXCEPT !.st = IF Subs(a) = {} THEN "ok" ELSE "busy"]]
  /\ UNCHANGED <<run, status, exec, tasks, done, faults>>

(* Mutant: the results of a branch are dropped.                                  *)
MergeNothing(outs, sub) == outs
Merge(outs, sub) == Over(outs, sub)

JoinThen(a, b, rest) ==
  /\ Mode(a[1]) = "parallel" /\ At(a, "busy") /\ frame[b].st = "ok"
  /\ frame' = [frame EXCEPT ![Own[a]].fc = Merge(@, frame[b].fc),
                            ![b] = Idle,
                            ![a].st = IF \A c \in rest : frame[c].st = "idle" THEN "ok" ELSE "busy"]
  /\ UNCHANGED <<run, status, exec, tasks, done, faults>>

(* Mutant: the first branch ends them all.                                       *)
JoinFirst(a, b) == JoinThen(a, b, {})

(* The result of branch b is received and its FlowCtx merged.                    *)
JoinParallel(a, b) == JoinThen(a, b, Subs(a) \ {b})

-------------------------------------------------------------------------------
(* runShard.                                                                     *)

IsShard(a, st) == Mode(a[1]) = "shard" /\ At(a, st)
Partitions(a) == Len(Tree[a[1]].parts)
HandlerOf(a, i) == <<Tree[a[1]].steps[2], Append(a[2], i)>>

StartShard(a) ==
  /\ IsShard(a, "called")
  /\ frame' = [frame EXCEPT ![a].st = "busy", ![a].at = 0, ![Step(a, 1)] = Called]
  /\ UNCHANGED <<run, status, exec, tasks, done, faults>>

PutAgg(a, k, s) ==
  frame' = [frame EXCEPT ![a].st = "ok",
                         ![Own[a]].fc = Put(@, a[1], [tag |-> "agg", n |-> k, skips |-> s])]

(* A skipped partitioner or an empty list of partitions ends the shard.          *)
Partitioned(a) ==
  /\ IsShard(a, "busy") /\ frame[a].at = 0 /\ frame[Step(a, 1)].st = "ok"
  /\ frame[Step(a, 1)].val \in {Skipped, Out}
  /\ IF frame[Step(a, 1)].val = Skipped \/ Partitions(a) = 0 THEN PutAgg(a, 0, 0)
     ELSE frame' = [frame EXCEPT ![a].at = 1, ![HandlerOf(a, 1)] = CalledWith(Ctx(a))]
  /\ UNCHANGED <<run, status, exec, tasks, done, faults>>

(* The output has no list of partitions (extractPartitions): a hand-written      *)
(* partitioner's may be wrong, a flow over several phases returns none.          *)
ExtractFails(a) ==
  /\ IsShard(a, "busy") /\ frame[a].at = 0 /\ frame[Step(a, 1)].st = "ok"
  /\ CASE frame[Step(a, 1)].val = Skipped -> FALSE
       [] frame[Step(a, 1)].val = Out -> Fault
       [] OTHER -> UNCHANGED faults
  /\ Fails(Dom[a])
  /\ UNCHANGED <<run, tasks, done>>

(* What handler h adds to the aggregate: a leaf its output, any other every      *)
(* output in the FlowCtx it ran with.                                            *)
Gain(h) ==
  IF Leaf(h[1]) THEN frame[h].val.n
  ELSE MapThenSumSet(LAMBDA x : frame[h].fc[x].n, DOMAIN frame[h].fc)

(* Mutant: skipped partitions are not counted.                                   *)
SkipGainNone(h) == 0
SkipGain(h) == IF frame[h].val = Skipped THEN 1 ELSE 0

(* A partition is done: the next one, called from FlowCtx ctx, or the aggregate. *)
StepShardWith(a, last, ctx) ==
  /\ IsShard(a, "busy") /\ frame[a].at > 0
  /\ LET i == frame[a].at
         h == HandlerOf(a, i)
         sum == frame[a].sum + Gain(h)
         skips == frame[a].skips + SkipGain(h)
     IN  /\ frame[h].st = "ok"
         /\ IF i = last THEN PutAgg(a, sum, skips)
            ELSE frame' = [frame EXCEPT ![a].at = i + 1, ![a].sum = sum, ![a].skips = skips,
                                        ![Own[a]].fc = ctx, ![h] = Idle,
                                        ![HandlerOf(a, i + 1)] = CalledWith(ctx)]
  /\ UNCHANGED <<run, status, exec, tasks, done, faults>>

(* Mutants: the clone of a handler is merged like that of a branch; the first    *)
(* partition ends the shard.                                                     *)
StepShardMerging(a) ==
  StepShardWith(a, Partitions(a), Merge(Ctx(a), frame[HandlerOf(a, frame[a].at)].fc))
StepShardShort(a) == StepShardWith(a, 1, Ctx(a))
StepShard(a) == StepShardWith(a, Partitions(a), Ctx(a))

-------------------------------------------------------------------------------
(* schedule: activities.                                                         *)

ScheduleActivity(a) ==
  /\ Mode(a[1]) = "activity" /\ At(a, "called")
  /\ tasks' = tasks \cup {[act |-> a, epoch |-> Epoch(Dom[a])]}
  /\ frame' = [frame EXCEPT ![a].st = "busy"]
  /\ UNCHANGED <<run, status, exec, done, faults>>

(* An activity completes, whether its result is still awaited or not ...         *)
ActivityCompletes(t) ==
  /\ t \in tasks
  /\ tasks' = tasks \ {t}
  /\ done' = done \cup {t.act}
  /\ IF Awaited(t) THEN Returns(t.act, Out) ELSE UNCHANGED frame
  /\ UNCHANGED <<run, status, exec, faults>>

(* ... or fails for good, its retries exhausted.                                 *)
ActivityFailsWith(t, Err) ==
  /\ t \in tasks /\ Fault
  /\ tasks' = tasks \ {t}
  /\ IF Awaited(t) THEN Err ELSE UNCHANGED <<frame, status, exec>>
  /\ UNCHANGED <<run, done>>

(* Mutant: the error of the future is dropped.                                   *)
ActivityErrDropped(t) == ActivityFailsWith(t, Returns(t.act, Out) /\ UNCHANGED <<status, exec>>)
ActivityFails(t) == ActivityFailsWith(t, Fails(Dom[t.act]))

-------------------------------------------------------------------------------
(* schedule and runShard: child workflows.                                       *)

(* A child is started unless the last execution under its ID is in one of the    *)
(* states the reuse policy refuses.                                              *)
StartChildUnder(a, refused, Refusal) ==
  /\ Mode(a[1]) = "workflow" /\ At(a, "called")
  /\ IF exec[Id[a]].status \in refused THEN Refusal
     ELSE /\ exec' = [exec EXCEPT ![Id[a]] = [status |-> "running", act |-> a, in |-> Ctx(a),
                                              epoch |-> Append(Epoch(Dom[a]), 1)]]
          /\ frame' = [b \in Act |-> IF b = a THEN [frame[a] EXCEPT !.st = "busy"]
                                     ELSE IF b \in Subs(a) THEN CalledWith(Ctx(a))
                                     ELSE frame[b]]
          /\ UNCHANGED status
  /\ UNCHANGED <<run, tasks, done, faults>>

(* AlreadyStarted is taken for completed.                                        *)
SkipChild(a) == Returns(a, Skipped) /\ UNCHANGED <<status, exec>>

(* Mutants: REJECT_DUPLICATE; ALLOW_DUPLICATE; AlreadyStarted is an error.       *)
StartChildRejecting(a) ==
  StartChildUnder(a, {"running", "completed", "failed", "terminated"}, SkipChild(a))
StartChildAgain(a) == StartChildUnder(a, {"running"}, SkipChild(a))
StartChildErrs(a) == StartChildUnder(a, {"running", "completed"}, Fails(Dom[a]))

(* ALLOW_DUPLICATE_FAILED_ONLY.                                                  *)
StartChild(a) == StartChildUnder(a, {"running", "completed"}, SkipChild(a))

(* A hand-written child completes or fails, its retries exhausted ...            *)
HandWritten(id) == exec[id].status = "running" /\ ~Flow(exec[id].act[1])

ChildCompletes(id) ==
  /\ HandWritten(id)
  /\ exec' = [exec EXCEPT ![id].status = "completed"]
  /\ done' = done \cup {exec[id].act}
  /\ UNCHANGED <<run, status, frame, tasks, faults>>

ChildFails(id) ==
  /\ HandWritten(id) /\ Fault
  /\ exec' = [exec EXCEPT ![id].status = "failed"]
  /\ UNCHANGED <<run, status, frame, tasks, done>>

(* ... and a flow completes when its tree has run (compileFlow).                 *)
FlowCompletes(id) ==
  /\ exec[id].status = "running" /\ Flow(exec[id].act[1])
  /\ frame[Step(exec[id].act, 1)].st = "ok"
  /\ exec' = [exec EXCEPT ![id].status = "completed"]
  /\ UNCHANGED <<run, status, frame, tasks, done, faults>>

(* A flow is out of time (its WorkflowRunTimeout), whatever it waits for.        *)
FlowTimesOut(d) ==
  /\ FlowTimeout /\ Fault
  /\ Flow(d[1]) /\ Running(d)
  /\ Fails(d)
  /\ UNCHANGED <<run, tasks, done>>

(* A flow over a single leaf returns the output of the leaf, any other the map   *)
(* of all that is in its FlowCtx, which has no "processed" of its own.           *)
ChildOut(a) ==
  IF ~Flow(a[1]) THEN Out
  ELSE LET r == Step(a, 1) IN IF Leaf(r[1]) THEN frame[r].fc[Name(r[1])] ELSE Val("map")

Ended(a, st) ==
  /\ Mode(a[1]) = "workflow" /\ At(a, "busy")
  /\ exec[Id[a]].act = a /\ exec[Id[a]].status = st

ChildReturns(a) ==
  /\ Ended(a, "completed")
  /\ Returns(a, ChildOut(a))
  /\ UNCHANGED <<run, status, exec, tasks, done, faults>>

ChildErrs(a) ==
  /\ Ended(a, "failed")
  /\ Fails(Dom[a])
  /\ UNCHANGED <<run, tasks, done, faults>>

(* The parent close policy: a child whose parent closed is terminated, in time.  *)
Orphan(id) ==
  /\ exec[id].status = "running"
  /\ LET d == Dom[exec[id].act] IN ~Alive(d) \/ Epoch(d) # Front(exec[id].epoch)

Terminate(id) ==
  /\ Orphan(id)
  /\ exec' = [exec EXCEPT ![id].status = "terminated"]
  /\ frame' = Closed(exec[id].act)
  /\ UNCHANGED <<run, status, tasks, done, faults>>

-------------------------------------------------------------------------------
(* The main workflow.                                                            *)

Complete ==
  /\ At(Root, "ok")
  /\ status' = "completed"
  /\ UNCHANGED <<run, frame, exec, tasks, done, faults>>

(* Cancelled, terminated or out of time.                                         *)
Abort ==
  /\ status = "running" /\ Fault
  /\ Fails(Main)
  /\ UNCHANGED <<run, tasks, done>>

(* Job.Start with the same parameters: refused unless the last run failed.       *)
Rerun ==
  /\ status = "failed" /\ run < MaxRuns
  /\ Careful => \A id \in ChildIds : exec[id].status # "running"
  /\ run' = run + 1 /\ status' = "running"
  /\ frame' = [frame EXCEPT ![Root] = Called]
  /\ UNCHANGED <<exec, tasks, done, faults>>

Run(a) ==
  \/ StartPipeline(a) \/ StepPipeline(a)
  \/ StartParallel(a) \/ \E b \in Subs(a) : JoinParallel(a, b)
  \/ StartShard(a) \/ Partitioned(a) \/ StepShard(a)
  \/ ScheduleActivity(a) \/ StartChild(a) \/ ChildReturns(a) \/ ChildErrs(a)

Active == {a \in Act : frame[a].st \in {"called", "busy"}}

Next ==
  \/ \E a \in Active : Run(a) \/ ExtractFails(a)
  \/ \E t \in tasks : ActivityCompletes(t) \/ ActivityFails(t)
  \/ \E id \in ChildIds : ChildCompletes(id) \/ ChildFails(id) \/ FlowCompletes(id) \/ Terminate(id)
  \/ \E d \in Children : FlowTimesOut(d)
  \/ Complete \/ Abort \/ Rerun

Spec == Init /\ [][Next]_vars

(* Some workflow task runs, some activity or child ends or orphan is terminated,  *)
(* while there is one that can.                                                  *)
Fairness ==
  /\ WF_vars(\E a \in Active : Run(a) \/ (ExtractFails(a) /\ faults' = faults))
  /\ WF_vars(\E id \in ChildIds : FlowCompletes(id))
  /\ WF_vars(\E t \in tasks : ActivityCompletes(t))
  /\ WF_vars(\E id \in ChildIds : ChildCompletes(id) \/ Terminate(id))
  /\ WF_vars(Complete)

(* The client starts a job that failed again.                                    *)
FairSpec == Spec /\ Fairness /\ WF_vars(Rerun)

-------------------------------------------------------------------------------
(* Properties.                                                                   *)

(* The names under which phase n, run by a caller, leaves output in its FlowCtx. *)
PutNames[n \in Node] ==
  IF Mode(n) \in {"pipeline", "parallel"} THEN UNION {PutNames[c] : c \in Kids(n)} ELSE {Name(n)}

WorkUnder(a) == {w \in Work : w[1] \in Desc[a[1]] /\ SubSeq(w[2], 1, Len(a[2])) = a[2]}

(* The trees the resume protocol is sound for: every child has an ID of its own, *)
(* no partitioner is a child, every phase that puts has its own name, and a flow *)
(* that is retried at once leaves no child of its failed attempt running: it     *)
(* has none beside what may fail, and none at all if it may run out of time.     *)
SafeTree ==
  /\ \A a, b \in Children : Id[a] = Id[b] => a = b
  /\ \A n \in Node \ {1} : Partitioner(n) => Mode(n) = "activity"
  /\ \A n, m \in Node : Mode(n) \notin {"pipeline", "parallel"} /\ n # m => Name(n) # Name(m)
  /\ FlowAttempts > 1 =>
       \A n \in Node : DomNode[n] # 0 /\ (FlowTimeout \/ Mode(n) = "parallel") =>
         \A m \in Desc[n] : Mode(m) # "workflow"

(* A job reported successful has had every unit of work of its tree carried out, *)
(* over however many runs, whatever was skipped, terminated or left behind ...   *)
NothingLost == status = "completed" => Work \subseteq done

(* ... for a tree the protocol is sound for and a client that waits.             *)
AllWorkDone == SafeTree /\ Careful => NothingLost

(* A step of a pipeline begins only over the finished work of the steps before.  *)
PipelineOrder ==
  SafeTree /\ Careful =>
    \A a \in Act : Mode(a[1]) = "pipeline" /\ At(a, "busy") =>
      \A j \in 1..(frame[a].at - 1) : WorkUnder(Step(a, j)) \subseteq done

(* ... and finds the output of each of them (or the mark that it was skipped) in *)
(* the FlowCtx, through every clone and merge in between.                        *)
UpstreamVisible ==
  \A a \in Act : Mode(a[1]) = "pipeline" /\ At(a, "busy") =>
    \A j \in 1..(frame[a].at - 1) : PutNames[Tree[a[1]].steps[j]] \subseteq DOMAIN Ctx(a)

(* A branch of a parallel does not see what its siblings put, nor the caller of  *)
(* a shard what a handler puts, whatever they have finished (flowctx.go 155).    *)
Isolation ==
  SafeTree =>
    \A a \in Act :
      /\ Mode(a[1]) = "parallel" /\ At(a, "busy") =>
           \A b, c \in Subs(a) : b # c /\ frame[b].st # "idle" =>
             PutNames[c[1]] \cap DOMAIN Ctx(b) = {}
      /\ IsShard(a, "busy") =>
           PutNames[Tree[a[1]].steps[2]] \cap DOMAIN Ctx(a) = {}

(* Every partition is counted, in the aggregate or as skipped, if the handler is *)
(* a leaf that does the work itself or a flow over one activity: so says every   *)
(* FlowCtx that the aggregate gets into.                                         *)
Counted(h) == Leaf(h) /\ (Flow(h) => Mode(Tree[h].steps[1]) = "activity")
CountedShards == {s \in Node : Mode(s) = "shard" /\ Counted(Tree[s].steps[2])}
ShardAccounts ==
  SafeTree =>
    \A a \in Act : \A s \in CountedShards :
      Name(s) \in DOMAIN frame[a].fc =>
        LET agg == frame[a].fc[Name(s)] IN agg.n + agg.skips = Len(Tree[s].parts)

(* A run completes only after everything it started: an activity still running   *)
(* when the job is successful was started by a run, or an attempt, that failed,  *)
(* a child by a run that failed.                                                 *)
Quiescent ==
  SafeTree /\ status = "completed" =>
    /\ \A t \in tasks : t.epoch # Epoch(Dom[t.act])
    /\ \A id \in ChildIds : exec[id].status = "running" => exec[id].epoch[1] < run

(* A child that completed is never run again, over all runs of the job.          *)
CompletedKept ==
  [][\A id \in ChildIds : exec[id].status = "completed" => exec'[id] = exec[id]]_vars

(* Every run of the job ends: whatever order the branches of a parallel, the      *)
(* partitions of a shard and the flows finish in, and whichever of them fails.   *)
RunEnds == [](status = "running" => <>(status # "running"))

(* With more runs than faults a job that is started again whenever it failed     *)
(* completes.                                                                    *)
JobCompletes == MaxFaults < MaxRuns => <>(status = "completed")
===============================================================================
