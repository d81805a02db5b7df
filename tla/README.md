# agtemporal: a TLA+ model of the batch framework

agtemporal runs batch jobs on Temporal. A **job** is a tree of **phases** compiled into one
workflow; its leaves are activities (a tasklet, or the chunk engine: read, process, write in
chunks, with heartbeats as checkpoints) and child workflows. A job that failed is started again
under the same workflow ID, and what completed is skipped.

The model follows the code under `batch/`, `core/` and `adapter/`. The Temporal server and the Go
SDK are modelled from how that code uses them and are marked external in `PROJECT.json`.

## Inventory

| Part | State it keeps | Operations | What is hard about it | What makes it correct |
|---|---|---|---|---|
| Chunk engine (`batch/engine.go`, `NewChunkPhase` in `batch/phase.go`) | counts, chunk, buffered items, reader position; heartbeat details at the server | resume, read, process / skip / filter, write, heartbeat, close, return | attempts that overlap, lost and late heartbeats, crashes between write and heartbeat, cancellation at any point | nothing accepted is lost; counts are exact; checkpoints never run ahead of the data; stops promptly; terminates |
| Execution instances (`resolveReader` ... `closeExecInstances`) | reader, processor and writer of a call; those shared by all calls | resolve, use, Close | calls that overlap on one worker; failures between opening and closing | nothing in use is closed, nothing is left open, no error is lost |
| Phase tree (`run`, `runShard`, `schedule`, `compileFlow`, `Compile`) | call stack of each workflow, FlowCtx per branch, child workflow executions by ID | the five modes of a phase; scheduling an activity; starting, skipping, awaiting a child | goroutines of a parallel, activities and children that outlive a failed run, reruns and retries, derived IDs | a completed job has done all its work; order of a pipeline; isolation of branches; no completed child runs again; every run ends |
| FlowCtx (`batch/flowctx.go`) | input and outputs by phase name, Go maps | clone, merge, Put, All, path lookup, JSON; aggregation of a shard | maps written in place; numbers that change their Go type on the way | every FlowCtx is a value of its own; a path reads what was put there |
| Job (`batch/job.go`), client facade (`core/facade.go`) | the definitions of the tree | Start, RegisterTo; StartWorkflow, CancelWorkflow, Close | starts that race or are repeated; names used twice | one run per identity; callers are told the truth |
| IDSpec (`core/id.go`) | none | derive the workflow ID from identity parameters | maps without order; serialization without escaping | equal parameters give equal IDs, different ones different IDs |
| Worker manager (`core/worker.go`, `core/def.go`), fx adapter (`adapter/fx`) | registrations, the SDK worker, lifecycle hooks | register, start, stop | start in a goroutine, stop before start, crash | everything a tree schedules is registered to its own code; the client outlives the worker |
| Options, configuration, logging, errors | values | none | nothing | nothing |

How they interact: the fx module builds the client and the worker; each job registers the
definitions of its tree with it, and the worker polls. `Job.Start` derives the ID and starts the
compiled workflow with `WithDefaultResumePolicy`. The workflow calls `Phase.run` recursively;
leaves call the SDK, which schedules activities on the worker and starts child workflows. A chunk
phase is one activity execution; each attempt resolves its instances, runs the engine and closes
them. What it returns is put into the FlowCtx under the phase's name, and later phases get a
snapshot of the FlowCtx as their input.

## Modules

| Module | Role |
|---|---|
| `ChunkContract` | what a chunk phase promises to the tree above it |
| `ChunkEngine` | the chunk engine as one activity execution with several attempts; implements `ChunkContract` |
| `ExecInstances` | the instances of a chunk phase over calls that overlap |
| `PhaseTree` | a job over any tree of phases, with reruns, and retries and timeouts of flows |
| `FlowCtxValues` | what a FlowCtx promises: value semantics |
| `FlowCtx` | FlowCtxs as references to Go maps; implements `FlowCtxValues` |
| `IDSpec` | derivation of workflow IDs; operators only |
| `JobService` | a process that registers jobs and polls, clients that start them; composes `IDSpec` |
| `MCChunkEngine`, `MCPhaseTree`, `MCFlowCtx`, `MCJobService` | values for model checking |
| `ChunkEngineProof` | proofs: types, the inductive invariant and the safety theorems of the chunk engine; that it implements its contract; what attempts hand over to each other |
| `ExecInstancesProof` | proofs about `ExecInstances` |
| `Induction` | induction over numbers as a fact about sets; functions down and up a tree |
| `PhaseTreeNodes` | lemmas about any tree: what lies below, which workflow and FlowCtx a phase belongs to |
| `PhaseTreeProof` | proofs about `PhaseTree`: what a run does, and what a later one takes up |
| `PhaseTreeContexts` | proofs about `PhaseTree`: what a FlowCtx holds at each place of a tree, what shards count, types |
| `FlowCtxProof` | proofs about `FlowCtx`, with lemmas about sequences, maps and sums |
| `JobServiceProof` | proofs about `JobService` and `IDSpec` |

The definitions that begin "Mutant" in a comment are faulty variants of a definition after them.
No specification uses them; each shows that some property depends on the detail it changes.

### ChunkEngine

State. Per attempt the loop's locals (`items`, `chunk`, `processed`, `filtered`, `skipped`) and a
control point `pc`; per reader instance its position `pos`; the persisted items `sink`; the
server's record (`status`, `attempt`, `details`, `cancelReq`, `result`) and the SDK's heartbeat
buffer `hbBuf` and context `ctxDone` of each attempt. `given` is what `GetHeartbeatDetails`
returns. `late` is a history variable.

Steps of the loop are one action each, cut where the code calls out or looks at its context:
`Resume` (engine.go 31-53), `CheckAlive` (layer 1), `Read`, `EndOfData`, `Keep` / `Filter` /
`Skip` / `Reject` (one item), `Write` / `WriteFails`, `RecordHeartbeat`, `CheckHeartbeat`
(layer 2), `Close`, and `Fail` for every transient error. Between any two of them the server and
the SDK may act, and so may another attempt: an attempt whose heartbeats are missed is replaced
(`FalseTimeout`) and goes on as a zombie until it notices.

Data. An item is its position in the source; `kind` says what the processor makes of it and is
chosen in the initial state, so the runs cover all data. The writer is idempotent, as its
interface demands (types.go 26): `sink` is a set. Without a transaction a failing write persists
any part of its chunk. A skip policy skips up to `SkipLimit` bad items. A processor's `Result`
is represented by the number of items it has seen. It is kept beside the counts: `toMap` would let
an output named `processed`, `skipped` or `filtered` replace the count of that name (types.go
146-150), and the model assumes there is none.

Abstractions that add behaviour: the SDK flushes or drops the buffered heartbeat when an attempt
ends; the model delivers it, or not, until then. Unreadable heartbeat details, `RestoreState`
errors and factory errors are one action, `Fail`. A worker stop, a deadline and a failed
heartbeat are one action, `ContextLost`.

`SafeConfig` names the readers the resume protocol is sound for: no instance shared by attempts,
and a restartable reader returns one item per `Read`. The properties presuppose it; the run
`multiread` shows what happens otherwise.

### ExecInstances

A call of the closure of `NewChunkPhase` goes through `resolve` (one role at a time), `loop`,
`close` (one role at a time, in the code's order: reader, processor, writer) and `done`. Calls
are attempts, zombies, partitions and jobs of one worker: any number may be under way. `factory`
and `closer`, the roles given as factories and those that implement `io.Closer`, are chosen in
the initial state. `closes[x]` counts the calls of Close on instance `x`; `bad[c]` is a history of
what went wrong in call `c`, whether or not it is returned. A failing factory (phase.go 135-146), a
failing loop, a panic (recovered by the SDK, above the closure) and a failing Close are actions.

### PhaseTree

The tree is a constant. An **activation** `<<n, p>>` is phase `n` under partitions `p` of the
handlers around it, so shards may nest, in each other and in flows, and handlers and partitioners
may be flows. `frame[a]` is the activation's frame: called, busy at some step or
partition, or returned. The FlowCtx is kept where the code makes a copy (`Clone`): at the root of
each workflow, each branch of a parallel, each call of a handler; every other phase works
on that of its parent (`Own`, `Ctx`). A flow's subtree runs in the flow's own workflow
(`Dom`). `exec[id]` is the last execution under a child workflow ID; IDs are the sequences of
the parts the code joins (`Id`). `tasks` are activities scheduled or running,
those of closed runs included; `done` is the work carried out. An epoch tells the runs of the job
and the attempts of its flows apart.

`Run(a)` is what one workflow does for activation `a`; each action ends where `Phase.run` calls
a step, waits for a future, or returns. An error goes up to `Compile` or `compileFlow` without
being caught, so it closes the workflow at once (`Fails`); a flow with attempts left starts over,
with the same input and without a client in between. The same happens to a flow at any point, and
whatever it waits for, when its run timeout ends it (`FlowTimesOut`; `FlowTimeout` says whether flows
have one, phase.go 247-249). After that its activities go on
(phase.go 461-463), and its children run until the server terminates them (`Terminate`).
`Rerun` is `Job.Start` with the same parameters; `Careful` says whether the client waits until
no child runs any more, which phase.go 630 leaves to it. `SafeTree` names the trees the resume
protocol is sound for: every child has an ID of its own, no partitioner is a child, phases that put
have different names, and a flow that is retried leaves no child of its failed attempt running. A flow
fails by itself only at a point where what runs is beside what failed, so it is enough that it has no
child in a parallel; it may be out of time at any point, so then it must have no child at all.

Abstractions: the retries of an activity or a hand-written child are below this module
(`ActivityFails`, `ChildFails` are the failure after them; for a chunk phase that is
`ChunkEngine`). The output of a leaf is one value worth one processed item; what outputs contain is
`FlowCtx`. A child that is cancelled because a sibling branch failed is terminated here: the
reuse policy does not tell the two apart. An operator who terminates a child by hand is left out. The partitions a partitioner returns are the same in
every run.

### FlowCtx and FlowCtxValues

`heap` holds Go maps by reference, flattened to functions from paths to scalars that carry their
Go type (a nested map that is empty is left out); `ctx[c]` is a FlowCtx: references to its input and outputs and what it is for (main
workflow, branch, handler, remote execution). `Fork` / `Join` are a parallel, `StartShard` /
`StepShard` the partitions of a shard with `mergeCoords` and `aggregateShardResults`, `Send` /
`ActivityReturns` / `FlowReturns` what crosses a process as JSON, in which an `int` becomes a
`float64`. `lookup` is the path lookup of `Str` and the like, without the conversion to a string.
What is written in place is an update of the heap (`Put`, `merge`, `mergeCoords`), so a missing
clone is visible in every FlowCtx that shares the map. All three assign keys at the top of a map: a
value, a nested map included, replaces whatever was under its key (`Over`). `cloneMap` copies that top
level only, so clones share the maps nested in them; nothing in the framework writes into one, which
is why the flattened copy is the same. `around` is a history: the job's input and
the coordinates of the partitions a FlowCtx lies in, outermost first. `FlowCtxValues` has no references: each
FlowCtx is a value. The mapping is `val[c] = [input |-> heap[input of c], outputs |-> ...]`.

### IDSpec and JobService

`WorkflowIDs` is the set of IDs a derivation may give: one for every order in which Go ranges over
the parameters. `Serialize` joins `key=value` with `&` as sequences of words, so that a value may
contain the separators. SHA256 is taken for injective (id.go 81-85).

`JobService` has a process (`Boot`, `Register` for one job at a time, `OnStart`, the goroutine
`WorkerStarts`, `OnStop` for one hook at a time, `ProcessEnds` at any point), clients
(`Derive`, then `Execute`: two steps, so starts race) and the server (`Dispatch` of a task by name
to a polling worker, `Completes`, `Fails`). A job is a tree of phases with the fields of `Phase`
that hold others: `Collect` follows all of them, as `CollectDefs` does; `Scheduled` follows those a
run of the phase's mode follows. `reg` remembers for each name which phase was registered.

## What the runs check

Passing runs:

| Run | Question | Bounds |
|---|---|---|
| `restart` | are items lost or miscounted over retries from checkpoints? does the engine implement its contract? | 3 items of any kinds, chunks of 2 (a full and a tail chunk), 2 attempts, 2 faults, cancellation |
| `zombie` | can a zombie spoil its successor's work or checkpoint? | 2 items, chunks of 1 (a checkpoint after each item), 3 attempts, 2 faults |
| `rerun` | the question of `restart` for a reader without saved state that reads up to 2 items at a time; does an execution end, and complete? | 3 items, 2 attempts, 1 fault, with fairness |
| `instances` | may calls that overlap close what another uses? what is left open? which error is reported? | 3 calls, 2 faults, every choice of factories and closers |
| `job` | pipeline, nested parallel, flow with two attempts, children: is work lost or repeated over reruns and timeouts? is the FlowCtx what the phases need? does every run end, and the job complete? | 11 phases, 3 runs, 2 faults; a flow of two attempts with a run timeout; with fairness |
| `shards` | handlers that are flows, composites and shards; shards in flows; partitions without names: is each partition carried out, isolated, accounted for? | 20 phases, 5 shards of 2 partitions, 2 runs, 1 fault; flows of one attempt with a run timeout |
| `flowctx` | is every FlowCtx a value of its own? does a partition read its own coordinates? can totals be read wherever they go? | 8 FlowCtxs, 2 partitions, an input and coordinates with nested maps under one key, names with a dot, 4 outputs |
| `service` | is there one run per identity, are answers true, is all code registered, is every run served? | 2 jobs of 6 definitions together, or 2 that share a name; 2 calls over 5 parameter maps; 2 starts of the process; 2 failures |

`IInv` is checked in `restart` as well as proved. `ImplementsContract` is a refinement:
`sink`, the server's status and the counts of the result are mapped to `stored`, `outcome` and
`tally` of `ChunkContract`. `ImplementsValues` is the refinement of `FlowCtxValues` by `FlowCtx`.

Runs that TLC refutes, each against something the repository says (the quotations are in
`PROJECT.json`):

| Run | What happens |
|---|---|
| `multiread` | a restartable reader that returns two items: the buffered one is lost by a retry |
| `closed_instance` | an instance given instead of a factory, with a Close: the first call closes it, the second works with it |
| `handler_child` | a child inside a composite handler: one ID for all partitions, only the first is run |
| `flow_retry` | a flow that failed, or was out of time, and is retried by the server takes the child its failed attempt left running for completed; it is then terminated, and its work is missing from a completed job |

### Limits of the code that are not runs

Met while translating the code; where a property would be false because of one, its comment or its
precondition names it.

- A reader given as an instance keeps its position: a retry does not start from the beginning
  (`SafeConfig` excludes `Shared`).
- A processor made by a factory has, after a resume, only seen the last attempt, so its `Result`
  is not the 全量统计 of phase.go 154.
- After a skip, Processed + Filtered is not the number of items read (types.go 126); no code uses
  the sum as a position.
- `closeExecInstances` closes in the order reader, processor, writer; a comment calls this the
  reverse of opening (逆序), but it is the order in which they are resolved.
- A skipped partitioner ends the shard, so the partitions a failed run had left are lost
  (phase.go 501; the comment there concedes a missing aggregate). `SafeTree` excludes it.
- A client that starts a failed job again while its children still run has the window of
  `flow_retry` between runs (phase.go 629-631 leave this to the client: `Careful`).
- A flow with a run timeout (`WithWorkflowStartToCloseTimeout`) and more than one attempt (three is the
  default) has the same window around every child in it, also where nothing runs beside the child: the
  attempt that is out of time leaves it running and the next one skips it (phase.go 247-249, 629-634).
  `SafeTree` excludes it; the run `flow_retry` has such a flow.
- Two shards of a job with equal partition names, and IDs joined by `-` from names that hold
  one, derive the same child ID (phase.go 550, 622); the second child is skipped. `SafeTree`
  excludes it.
- The aggregate of a composite handler also counts the outputs from before the shard, once per
  partition (phase.go 573, 581-585); a handler that is a flow over several phases contributes 0.
  `ShardAccounts` is about the other handlers, and about every FlowCtx an aggregate gets into.
- `int(n)` cuts the fraction of each partition's number before the sum (phase.go 723).
- A flow over several phases returns all of its FlowCtx, its caller's outputs included
  (phase.go 266).
- A phase whose name holds a dot hides a field of another phase from lookup (flowctx.go 115), and
  names used twice let the branch that ends last win a merge (flowctx.go 165 presupposes unique
  names). `Totals` and `FlowCtxAssumption` exclude these.
- A phase named `input`, or whose name begins with `input.`, hides the coordinates and the job's
  input from the paths `input.x`, because outputs are looked up first (flowctx.go 113-127).
  `Coordinates` and `Totals` are about other names (`Unhidden`).
- Identity parameters with `=` or `&` in them, and values of different types with the same text,
  can collide (id.go 72): `AnswersTrue` is about plain parameters.

### Why the bounds are enough

A retry, a zombie of it and the checkpoint between them need two attempts and one fault; the second
fault can strike the zombie or its successor. In `zombie` a third attempt resumes from a checkpoint
that was itself reached by a resume, and a zombie may survive two replacements. Three items with
chunks of two give a full chunk, a checkpoint, and a tail; all assignments of kinds are initial
states. The theorems remove these bounds for safety. `rerun` has one fault and two attempts, which
is what `Completes` needs. Three calls in `instances` are one before, one beside and one after; the
theorems remove the bound. In `PhaseTree` three runs with two faults give a rerun of a rerun, and
more runs than faults, which is what `JobCompletes` needs; the flow has a retry within each run, and
may be out of time before, within and after each of its two activities. The two runs of `shards`
give a rerun at every point of a shard, after an activity, a child or a flow failed or a flow was
out of time; its flows have one attempt, as one of them holds a child and `SafeTree` excludes that
of a flow that is retried. Two partitions give a first and a last one, and nested ones all pairs.
Eight FlowCtxs hold a branch in a branch, a handler in a branch with a remote execution under it,
and a remote execution after either. Two calls of `Job.Start` are what one identity or a collision
is about; a process that starts twice has a registry of its own each time. `MaxFaults` bounds what
can go wrong, `MaxRuns`, `MaxCalls`, `MaxBoots` and `MaxCtx` how often things happen; all are only
bounds.

`CHECK_DEADLOCK FALSE`: a finished execution, job or process really stops.

### Fairness

`ChunkEngine`: weak fairness of the worker's polling, of each attempt's own steps (goroutines that
are never blocked for ever by the code; `Read`, `Process` and `Write` are assumed to return) and of
the heartbeat timeout that detects a dead worker. Nothing is assumed of heartbeats' delivery,
faults or cancellation. `PhaseTree`: weak fairness of groups, each of which
is taken while a member of it can be: some activation takes its next step (`Run`, the SDK's
scheduler of a workflow, whose coroutines the code never blocks but on futures and channels; a
partitioner flow without a list fails its shard by the same code), some flow completes, some
activity ends, some hand-written child ends or orphan is terminated, `Complete`. Fairness of the
group is enough, because a run takes each of these finitely often. `JobCompletes` is about a client
that starts a failed job again (weak fairness of `Rerun`). A group stays enabled until it is taken,
so strong fairness is not needed. `JobService`: weak fairness of the server's dispatch to, and
completion by, a worker that polls; nothing is assumed of the process, which is why `Served` is
about one that keeps polling.

## What is proved

All for every value of the constants, from the named assumptions of each module alone.

`ChunkEngine` (from `ChunkEngineAssumption`):

- `TypeCorrect`: `Spec => [](TypeOK /\ ItemInHand)`, for every configuration, safe or not.
- `Inductive`: `Spec => []IInv`. `AtLeastOnce` and `CountsExact` speak of a completed execution;
  they are not inductive, because they say nothing of how it was reached. `IInv` adds
  - the loop invariant of `runChunkLoop` (`LoopInv`): the buffered items continue the consumed
    prefix, counts plus chunk account for exactly that prefix, what it accepted is persisted or in
    the chunk;
  - what each control point adds to it (`ControlInv`): in particular that a restartable
    reader's buffer is empty when a checkpoint is taken, so the saved position is the consumed one;
  - `CheckpointSound`, by which an attempt that resumes re-establishes the loop invariant;
  - that attempts begin in order (`ServerInv`), so an attempt that resumes is fresh, and that
    completion is only reported over a complete store (`StoreInv`).
- `Delivery`, `Counting`, `Checkpointing`: `AtLeastOnce`, `CountsExact`, `CheckpointSound`.
  The step of the invariant is one lemma per part (`AttemptStep`, `ServerStep`, `CheckpointStep`,
  `ChunkStep`, `SinkStep`, `StoreStep`), each with one step per action. Counting over prefixes
  rests on `NumZero` and `NumNext`.
- `Implements`, under `SafeConfig`: `Spec => ImplementsContract`. Only polling, retrying,
  cancelling and the current attempt's answer move the outcome (`Moves`), and `StoreInv` says what
  they find. `Quiescence` follows from the same lemmas.
- `Prompt`: `StopsPromptly`, for every configuration. The invariant says where an attempt that
  took up an item late can be: between that item and the next check of its context.
- `NotRerun`: `CommittedNotRerun`. The invariant (`Past`) adds that an attempt in its loop reads
  from beyond the checkpoint it was given.
- `Monotonic`: `CheckpointMonotonic`. The invariant (`ReportInv`) puts the heartbeat on its way
  between the server's checkpoint and the position of the current attempt, and says that an attempt
  that has yet to resume is given the server's checkpoint.

`ExecInstances`: `TypeCorrect`, `LifetimesHold`, `AllClosed`, `ErrorsReported`, for any number of
calls. The invariant says of every call how often each of its own instances has been closed,
by its control point; what is shared is never closed if it has no Close; and an error is either
still on its way or returned.

`JobService` (from `JobServiceAssumption`): `Deterministic` (one ID whatever the order of the map),
`OneRun` (`OneRunPerIdentity`, for any catalog and parameters), `SameIDSameIdentity` (for plain
parameters, one ID only for one identity), `AnswersAreTrue` (`AnswersTrue`), `ClientStaysOpen` and
`WorkerHasTheCode` (`RunsOwnCode`). The invariant of `OneRun` ties an execution to the call that
started it and that call to the ID it derived, and says that a completed execution is the last under
its ID; equal identities then meet under one ID by `Deterministic`. A refused call was shown the
execution of one that started under its ID; that the two have one identity is `SameIDSameIdentity`,
whose proof reads a serialised ID from left to right: two sequences of `key=value` pairs that begin
at the same place agree on the key, on where the value ends (at the next `&` or at the end, for a value
without separators) and so on where the next pair begins. A job counts by its name, as in its ID.
The invariant of `WorkerHasTheCode` is
that a registry holds, for each job registered, all that `Collect` reached from its tree; that this
includes what any run may schedule is induction over what a tree reaches.

`PhaseTree` (from `PhaseTreeAssumption`, any tree, any number of runs, attempts of flows and faults):

- `CompletedNotRunAgain`: `CompletedKept`, for any client. Every action that touches an execution
  touches one that is not completed.
- `NoWorkLost`: `AllWorkDone`. Neither this nor `PipelineOrder` is inductive: they say nothing of the
  frames below a busy one, nor of what a skipped child stands for. The invariant, under `SafeTree`
  and `Careful`, is
  - `Stack`: what is called or busy has busy callers, each at the step that called it, up to the
    top of its workflow, and that workflow is alive;
  - `Waiting`: a child runs only below the activation that awaits it; `Settled`: where a workflow
    is closed nothing runs below it that a later start could take for its own; `OneBranch`:
    a flow that is retried at once because it failed has no child elsewhere, and one retried because
    it was out of time has none (`FlowTimesOutIs`). These are what `SafeTree` and
    `Careful` buy: an ID that is taken is taken by the same child of the same attempt or by one
    that completed;
  - `Fin`: what returned, what completed as a child, and the steps or partitions a busy phase is
    past have done all work under them (`Finished`). This is the part that makes the theorem;
  - `Unskipped`: only a child is ever skipped.
- `StepsInOrder`: `PipelineOrder`, from `Fin`.
- `NothingForgotten`: `Quiescent`. The invariant adds epochs: tasks and children of the current
  epoch of a workflow belong to a frame that awaits them, so none are left when its root returns.

- `UpstreamIsVisible`: `UpstreamVisible`, for any client and without `SafeTree`. The invariant
  (`Threaded`) is `Shape`, `Stack` and `Seen`: the FlowCtx a busy phase works with holds what every
  step or partition it is past has put (`Puts`), and a branch of a parallel phase holds it from the
  moment it returned until it is joined. `Stack` says whose FlowCtx a phase works with: that of the
  nearest phase above it that has one (`Own`), which is busy. So a step below either writes to the
  FlowCtx a busy phase looks at, where names are only added (`Growing`), or to another one, and what
  it put arrives when it returns (`ReturnsSeen`) or its clone is merged.
- `BranchesAreIsolated`: `Isolation`, for any client. What a FlowCtx holds is bounded by the place of
  the phase that looks at it: names of phases below an earlier step of a pipeline around it (`Before`)
  and, as far as it has got, of those below it (`MayHold`). That is `Confined`, an invariant in any tree,
  of frames and of the FlowCtxs flows are retried with; a sibling's phases, or a handler's, are never
  among them (`KidsApart`, `NotWithin`). `SafeTree` enters only at the end, so that names tell phases
  apart. The hard step is a phase that puts: all phases in progress that share its FlowCtx must allow
  it, and by `Stack` they are above one another (`Comparable`), each busy around the next (`FitsAbove`).
- `PartitionsAreCounted`: `ShardAccounts`, for any client. The totals of an aggregate follow from what a
  busy shard has counted so far, and that from what its handlers return, so the invariant (`Accounted`)
  goes back to where an output comes from: the flow of a completed execution has run (`FlowsRan`);
  the leaf a flow is over has left its output, which counts one if it is an activity's (`PutItself`); a handler that
  returned counts one or was skipped (`CountsOne`); a busy shard has counted the partitions it is past
  (`SumsUp`); and every FlowCtx, those that flows are retried with included, has the totals right
  (`CtxsCount`, `InsCount`). `SafeTree` enters only in the totals (`Tracked`): a name is of one phase, and a
  partitioner is an activity, so it is never skipped (`Unskipped`). That the aggregate is there at all is
  `UpstreamIsVisible`. A step of a phase moves its own frame, those it calls and the FlowCtx it works
  with (`Local`); the frames of other phases then keep their accounts.
- `TypesHold`: `TypeOK`, in any tree and for any client. It is not inductive either. A flow over a leaf returns
  what it looks up in the leaf's FlowCtx under the leaf's name: that it is there is `FlowsRan` and
  `PutItself`, so the invariant is `Threaded`, `Unskipped`, `Accounted` and `TypeOK` together. A composite handler
  adds a sum over all outputs in its FlowCtx: the names in it are finitely many (`CtxFinite`), and a sum of
  numbers over a finite set is one (`TotalIsNat`), by induction over the size of the subsets that
  the fold of the community modules goes through (`Small`).

Each action is first shown to be one of a few kinds of step (`Quiet`, `Returned`, `Started`,
`FlowCloses`, `FlowRestarts`, `ChildEnds`, ...: the lemmas that end in `Is`), and each kind to keep
each part of the invariant (those that end in `Keeps`).

`FlowCtx` (from `FlowCtxAssumption`; all properties of its run):

- `Inductive`: `Spec => []IInv`. `IInv` is `Made` (every FlowCtx has two maps of its own, made for an
  older one that is live), `Filled` (outputs are under names put so far), `Agree` (FlowCtxs of one
  process that hold an output hold the same), `JoinedBranches` and `Joined`.
- `BranchesJoined`: `Joined`. That a merge takes nothing away needs `Agree`: `merge` overwrites, and
  two branches may hold the same name only from before they were cloned.
- `Implements`: `Spec => ImplementsValues`. By `Made` what an action writes in place is reached from
  one FlowCtx, so every other one keeps its value and the step is one of `FlowCtxValues`.
- `CoordinatesRead`: `Coordinates`, from the invariant `Located`: under each of its first keys the
  input of a FlowCtx is, whole, what the innermost map in `around` that has the key has there, with
  numbers as they are or as JSON leaves them.
- `TotalsRead`: `Totals`, from the invariant `Tally`: every number under a `processed` that a map
  holds, the results a shard has gathered included, is what `items` owes it, and a shard's sum so far
  is that of its partitions so far. Sums over sequences are by induction over numbers (`NatSteps`).

Induction over trees and numbers is done over sets: the provers cannot instantiate an
induction theorem that takes a predicate, so `Induction` derives from the well-foundedness of `<` that
a set with 0 and all successors is all of `Nat`, and each proof names the set of numbers or nodes its
fact holds of (`FromTheLeaves`, `FromTheRoot`). That functions such as `Desc` or `PartsOf` are what
their recursive definitions say is proved the same way (`DownTheTree`, `UpTheTree`).

Every invariant, action property and refinement that a passing run checks is a theorem.

Only model-checked:

- Liveness everywhere: `Completes`, `Terminates`, `RunEnds`, `JobCompletes`, `Served`. Eventuality
  under fairness and `ENABLED` are outside what TLAPS proves here.

## Not modelled

- Options and configuration: values, which are the constants of the modules; binding them to a
  file is plumbing.
- Logging and error wrapping: no state.
- `Derive` functions of a caller's own, options a caller passes to `StartWorkflow` without `Job`,
  the raw client, and registration of bare functions without a name: the framework passes them on.
- The conversion of a looked-up value to a string (`Str`).
- What readers, processors, writers, tasklets and hand-written children do inside.
- Tests and examples, which served as documentation.

## Plan

1. Done: all components of the inventory that keep state, with their contracts.
2. Done: proofs of all safety: of the chunk engine, of its instances, of FlowCtx, of jobs as a service; and
   of `PhaseTree`, that no work is lost, steps come in order, nothing is forgotten, no completed child
   runs again, each phase finds in its FlowCtx what came before it and nothing of its siblings, every
   partition of a shard is counted once, and all of its state is of its type.
3. What is left is liveness, which stays with TLC, and the hazards in PROJECT.json that no property
   covers.
