------------------------------ MODULE JobService ------------------------------
(* Jobs as a service: a process that registers its jobs and runs a worker (the   *)
(* fx Module, WorkerManager, Job.RegisterTo), clients anywhere that start jobs   *)
(* (Job.Start), and the server between them.  What a run does is PhaseTree's     *)
(* matter; here it dispatches the phases of its tree to the worker by name.      *)
EXTENDS Integers, FiniteSets, IDSpec

CONSTANTS
  Catalogs,   \* what a process may register: sequences of jobs
  Params,     \* what a job may be started with
  MaxCalls,   \* bound: calls of Job.Start
  MaxBoots,   \* bound: how often the process is started
  MaxFaults   \* bound: runs that fail

(* A job has a name, the keys that do not identify it and a tree of phases, the  *)
(* root first, each with its registration name (none for a composite one) and    *)
(* the fields of Phase that hold other phases.                                   *)
ASSUME JobServiceAssumption ==
  /\ \A jobs \in Catalogs :
       /\ Len(jobs) \in Nat /\ DOMAIN jobs = 1..Len(jobs)
       /\ \A i \in DOMAIN jobs : /\ Len(jobs[i].tree) \in Nat \ {0}
                                 /\ DOMAIN jobs[i].tree = 1..Len(jobs[i].tree)
  /\ \A jobs \in Catalogs : \A i \in DOMAIN jobs : \A n \in DOMAIN jobs[i].tree :
       /\ jobs[i].tree[n].mode \in {"activity", "workflow", "pipeline", "parallel", "shard"}
       /\ \A f \in {"steps", "subRoot", "partitioner", "handler"} :
            \A m \in ToSet(jobs[i].tree[n][f]) : m \in DOMAIN jobs[i].tree /\ m > n
  /\ \A p \in Params : /\ DOMAIN p \subseteq ToSet(Keys)
                        /\ \A k \in DOMAIN p : p[k] \in [type : STRING, text : Seq(STRING)]
  /\ {MaxCalls, MaxBoots} \subseteq Nat \ {0} /\ MaxFaults \in Nat

Call == 1..MaxCalls

VARIABLES
  jobs,       \* the catalog of the process
  host,       \* the process: off, building, up, stopping
  hooks,      \* OnStop hooks that have run
  spawned,    \* the goroutine of OnStart has still to run
  worker, client,
  todo,       \* jobs still to be registered
  reg,        \* reg[<<kind, name>>]: <<job, phase>> registered under that name
  boots,
  call,       \* calls of Job.Start
  exec,       \* exec[id]: the last execution under id at the server
  finished,   \* calls whose execution completed
  faults

process == <<host, hooks, spawned, worker, client, todo, reg, boots>>
vars == <<jobs, process, call, exec, finished, faults>>

-------------------------------------------------------------------------------
(* Phases and their registration.                                                *)

Tree(j) == jobs[j].tree
Fields == {"steps", "subRoot", "partitioner", "handler"}
Under(ph, fields) == UNION {ToSet(ph[f]) : f \in fields}

(* The phases at or below the root, below[n] being those under n.                *)
Reach(below) == LET reach[n \in DOMAIN below] == {n} \cup UNION {reach[m] : m \in below[n]} IN reach[1]

(* Phases that CollectDefs and CollectWorkflowDefs reach from the root ...       *)
Walk(j, fields) == Reach([n \in DOMAIN Tree(j) |-> Under(Tree(j)[n], fields)])

(* Mutant: the tree of a flow is not collected.                                  *)
CollectShallow(j) == Walk(j, Fields \ {"subRoot"})
Collect(j) == Walk(j, Fields)

(* ... and those a run of the job reaches: Phase.run and runShard by the mode of *)
(* a phase, compileFlow for a flow.                                              *)
Runs(ph) ==
  Under(ph, CASE ph.mode \in {"pipeline", "parallel"} -> {"steps"}
              [] ph.mode = "shard" -> {"partitioner", "handler"}
              [] ph.mode = "workflow" -> {"subRoot"}
              [] OTHER -> {})
Scheduled(j) ==
  {n \in Reach([n \in DOMAIN Tree(j) |-> Runs(Tree(j)[n])]) : Tree(j)[n].mode \in {"activity", "workflow"}}

(* The main workflow of job j is its phase 0.                                    *)
Key(j, n) ==
  IF n = 0 THEN <<"workflow", <<jobs[j].name, "main-wf">>>> ELSE <<Tree(j)[n].mode, Tree(j)[n].reg>>

Definitions(j) ==
  {0} \cup {n \in Collect(j) : Tree(j)[n].mode \in {"activity", "workflow"}}

-------------------------------------------------------------------------------

Init ==
  /\ jobs \in Catalogs
  /\ host = "off" /\ hooks = 0 /\ spawned = FALSE
  /\ worker = "none" /\ client = "none"
  /\ todo = <<>> /\ reg = <<>> /\ boots = 0
  /\ call = [k \in Call |-> [st |-> "new", job |-> 0, params |-> <<>>, id |-> NoID, by |-> 0]]
  /\ exec = <<>> /\ finished = {} /\ faults = 0

Outside == UNCHANGED <<jobs, call, exec, finished, faults>>

(* NewClientFacade and NewWorkerManager; the jobs are about to be registered.    *)
Boot ==
  /\ host = "off" /\ boots < MaxBoots
  /\ host' = "building" /\ hooks' = 0 /\ spawned' = FALSE
  /\ client' = "open" /\ worker' = "new"
  /\ todo' = [i \in DOMAIN jobs |-> i] /\ reg' = <<>>
  /\ boots' = boots + 1
  /\ Outside

(* The process is gone.                                                          *)
Exit ==
  /\ host' = "off" /\ client' = "none" /\ worker' = "none" /\ spawned' = FALSE
  /\ todo' = <<>> /\ reg' = <<>>
  /\ UNCHANGED <<hooks, boots>>

(* Mutant: DisableAlreadyRegisteredCheck.                                        *)
DuplicateNever(j) == FALSE
Duplicate(j) ==
  \/ \E n \in Definitions(j) : Key(j, n) \in DOMAIN reg
  \/ \E n, m \in Definitions(j) : n # m /\ Key(j, n) = Key(j, m)

(* RegisterTo of the next job; the SDK panics on a name it has.                  *)
Register ==
  /\ host = "building" /\ todo # <<>>
  /\ LET j    == Head(todo)
         keys == {Key(j, n) : n \in Definitions(j)}
     IN  IF Duplicate(j) THEN Exit
         ELSE /\ reg' = [key \in keys \cup DOMAIN reg |->
                           IF key \in keys THEN <<j, CHOOSE n \in Definitions(j) : Key(j, n) = key>>
                           ELSE reg[key]]
              /\ todo' = Tail(todo)
              /\ UNCHANGED <<host, hooks, spawned, worker, client, boots>>
  /\ Outside

OnStart ==
  /\ host = "building" /\ todo = <<>>
  /\ host' = "up" /\ spawned' = TRUE
  /\ UNCHANGED <<hooks, worker, client, todo, reg, boots>> /\ Outside

(* go wm.Start(): the worker polls, or cannot start and nobody is told; one that *)
(* has been stopped panics.                                                      *)
WorkerStarts ==
  /\ spawned
  /\ IF worker = "stopped" THEN Exit
     ELSE /\ spawned' = FALSE /\ worker' \in {"running", "failed"}
          /\ UNCHANGED <<host, hooks, client, todo, reg, boots>>
  /\ Outside

(* Mutant: the client is closed first.                                           *)
HooksSwapped == <<"client", "worker">>

(* The OnStop hooks, the last one appended first.                                *)
Hooks == <<"worker", "client">>

OnStop ==
  /\ host \in {"up", "stopping"} /\ hooks < 2
  /\ host' = "stopping" /\ hooks' = hooks + 1
  /\ IF Hooks[hooks + 1] = "worker" THEN worker' = "stopped" /\ UNCHANGED client
     ELSE client' = "closed" /\ UNCHANGED worker
  /\ UNCHANGED <<spawned, todo, reg, boots>> /\ Outside

(* The process ends after its hooks, or crashes.                                 *)
ProcessEnds == host # "off" /\ Exit /\ Outside

-------------------------------------------------------------------------------
(* Job.Start, and the server.                                                    *)

(* The ID is derived before anything is asked of the server.  Calls are numbered *)
(* in the order they derive it.                                                  *)
Derive(k) ==
  /\ call[k].st = "new" /\ \A l \in 1..(k - 1) : call[l].st # "new"
  /\ \E j \in DOMAIN jobs, p \in Params :
       \E id \in WorkflowIDs(jobs[j].name, Identity(p, jobs[j].nonIdentity)) :
         call' = [call EXCEPT ![k] = [st |-> IF id = NoID THEN "error" ELSE "derived",
                                      job |-> j, params |-> p, id |-> id, by |-> 0]]
  /\ UNCHANGED <<jobs, process, exec, finished, faults>>

ExecuteUnder(k, refused, answer) ==
  /\ call[k].st = "derived"
  /\ LET id == call[k].id IN
     IF id \in DOMAIN exec /\ exec[id].status \in refused
       THEN call' = [call EXCEPT ![k].st = answer, ![k].by = exec[id].by] /\ UNCHANGED exec
       ELSE /\ call' = [call EXCEPT ![k].st = "started", ![k].by = k]
            /\ exec' = [i \in DOMAIN exec \cup {id} |-> IF i # id THEN exec[i] ELSE
                          [status |-> "running", by |-> k, left |-> Scheduled(call[k].job) \cup {0}]]
  /\ UNCHANGED <<jobs, process, finished, faults>>

(* Mutants: ALLOW_DUPLICATE; the error of a start that was refused is not shown. *)
ExecuteAgain(k) == ExecuteUnder(k, {"running"}, "refused")
ExecuteSilent(k) == ExecuteUnder(k, {"running", "completed"}, "started")

(* StartWorkflow under WithDefaultResumePolicy.                                  *)
Execute(k) == ExecuteUnder(k, {"running", "completed"}, "refused")

IsRunning(id) == exec[id].status = "running"
JobOf(id) == call[exec[id].by].job

(* A task goes to the worker, which has code under its name.                     *)
Dispatch(id) ==
  /\ IsRunning(id) /\ worker = "running" /\ exec[id].left # {}
  /\ LET n == CHOOSE n \in exec[id].left : \A m \in exec[id].left : n <= m
     IN  /\ Key(JobOf(id), n) \in DOMAIN reg
         /\ exec' = [exec EXCEPT ![id].left = @ \ {n}]
  /\ UNCHANGED <<jobs, process, call, finished, faults>>

Completes(id) ==
  /\ IsRunning(id) /\ worker = "running" /\ exec[id].left = {}
  /\ exec' = [exec EXCEPT ![id].status = "completed"]
  /\ finished' = finished \cup {exec[id].by}
  /\ UNCHANGED <<jobs, process, call, faults>>

(* A run fails, is cancelled or times out.                                       *)
Fails(id) ==
  /\ IsRunning(id) /\ faults < MaxFaults
  /\ faults' = faults + 1
  /\ exec' = [exec EXCEPT ![id].status = "failed"]
  /\ UNCHANGED <<jobs, process, call, finished>>

Next ==
  \/ Boot \/ Register \/ OnStart \/ WorkerStarts \/ OnStop \/ ProcessEnds
  \/ \E k \in Call : Derive(k) \/ Execute(k)
  \/ \E id \in DOMAIN exec : Dispatch(id) \/ Completes(id) \/ Fails(id)

Spec == Init /\ [][Next]_vars

(* The server hands tasks to a worker that polls.                                *)
FairSpec ==
  Spec /\ WF_vars(\E id \in DOMAIN exec : Dispatch(id)) /\ WF_vars(\E id \in DOMAIN exec : Completes(id))

-------------------------------------------------------------------------------
(* Properties.                                                                   *)

(* A job is known by its name, which the IDs of its runs begin with.             *)
IdentityOf(k) ==
  LET job == jobs[call[k].job] IN <<job.name, Identity(call[k].params, job.nonIdentity)>>

(* Job instances: of all starts with the same identity parameters at most one    *)
(* has a run that completed or is running, whatever order the parameters come in *)
(* and however starts, failures and completions interleave (job.go 90).          *)
OneRunPerIdentity ==
  LET live == finished \cup {exec[id].by : id \in {i \in DOMAIN exec : IsRunning(i)}}
  IN  \A k, l \in live : IdentityOf(k) = IdentityOf(l) => k = l

(* A client is told the truth: that it started the job only if it did, and that  *)
(* it is there already only for a run of the same job and identity (for          *)
(* parameters that need no escaping, id.go 68).                                  *)
AnswersTrue ==
  \A k \in Call :
    /\ call[k].st = "started" => call[k].by = k
    /\ call[k].st = "refused" =>
         LET b == call[k].by
         IN  Plain(call[k].params) /\ Plain(call[b].params) => IdentityOf(k) = IdentityOf(b)

(* A worker that polls has, under every name a job of its process schedules, the *)
(* phase the job means: nothing forgotten by CollectDefs, nothing overwritten by *)
(* a job registered later.                                                       *)
RunsOwnCode ==
  worker = "running" =>
    \A j \in DOMAIN jobs : \A n \in Scheduled(j) \cup {0} :
      Key(j, n) \in DOMAIN reg /\ reg[Key(j, n)] = <<j, n>>

(* The worker polls only while the client it was made from is open, also when    *)
(* the process is stopped before the goroutine of OnStart has run.               *)
ClientOutlivesWorker == worker = "running" => client = "open"

(* If a worker keeps polling, every run that was started ends.                   *)
Served ==
  <>[](worker = "running") =>
    \A k \in Call : call[k].st = "started" ~> (\E id \in DOMAIN exec : id = call[k].id /\ ~IsRunning(id))
===============================================================================
