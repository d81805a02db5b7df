----------------------------- MODULE ChunkEngine -----------------------------
(* The chunk engine (runChunkLoop, batch/engine.go) run as one Temporal         *)
(* activity execution: several attempts, each with its own loop state, and the  *)
(* server's view of the execution.  An attempt the server has given up on may    *)
(* still be running (a zombie): it shares the writer's store, and with a reader  *)
(* passed as an instance also the reader, with the attempt that replaced it.     *)
EXTENDS Integers, Sequences, FiniteSets

CONSTANTS
  N,             \* items in the data source, read in the order 1..N
  ChunkSize,     \* WithActivityChunkSize
  ReadSize,      \* bound: most items one Reader.Read returns
  SkipLimit,     \* the SkipPolicy skips a bad item while skipCount < SkipLimit; 0: no policy
  MaxAttempts,   \* RetryPolicy.MaximumAttempts
  MaxFaults,     \* bound: transient errors, lost contexts, crashes and false timeouts
  Restartable,   \* the reader implements RestartableReader
  Shared,        \* reader and processor are instances, not factories: one for all attempts
  Transactional, \* a TransactionManager is configured
  None           \* no heartbeat details, no result

Item == 1..N
Attempt == 1..MaxAttempts

(* What Process says of an item: a result, nil (filtered) or a data error.       *)
Kinds == {"ok", "nil", "bad"}

Counts == [processed: Nat, filtered: Nat, skipped: Nat]

(* The heartbeat payload: the counts and the reader's position.                  *)
ChunkProgress == [processed: Nat, filtered: Nat, skipped: Nat, offset: 0..N]

(* The counts and the Output of a ResultProvider, kept apart: it is assumed to    *)
(* have none of their three names, which toMap would give its value.             *)
Results == [counts: Counts, stats: Nat]

ASSUME ChunkEngineAssumption ==
  /\ N \in Nat
  /\ ChunkSize \in Nat \ {0}      \* NewChunkPhase panics on ChunkSize <= 0
  /\ ReadSize \in Nat \ {0}
  /\ SkipLimit \in Nat
  /\ MaxAttempts \in Nat \ {0}
  /\ MaxFaults \in Nat
  /\ Restartable \in BOOLEAN
  /\ Shared \in BOOLEAN
  /\ Transactional \in BOOLEAN
  /\ None \notin ChunkProgress \cup Results

VARIABLES
  kind,       \* kind[i]: what Process says of item i
  sink,       \* items the (idempotent) writer has persisted
  faults,     \* faults so far, at most MaxFaults
  \* the server's record of the activity execution
  status, attempt, details, cancelReq, result,
  \* per attempt: control point, how the loop ended, details handed over at dispatch
  pc, out, given,
  \* per attempt: the SDK's buffered heartbeat and ctx.Err() # nil
  hbBuf, ctxDone,
  \* per attempt: the loop's locals; per instance: reader position, processor calls
  items, chunk, processed, filtered, skipped, pos, seen,
  late        \* history: items an attempt took up after its context was done

server == <<status, attempt, details, cancelReq, result>>
control == <<pc, out>>
sdk == <<given, hbBuf, ctxDone>>
cnts == <<processed, filtered, skipped>>
loop == <<items, chunk, cnts, pos, seen, late>>
vars == <<kind, sink, faults, server, control, sdk, loop>>

Elems(s) == {s[j] : j \in 1..Len(s)}
Live(a) == pc[a] \notin {"idle", "done", "dead"}
Current(a) == status = "started" /\ a = attempt
Terminal == {"completed", "failed", "cancelled"}

(* What the loop of attempt a returns (engineResult).                            *)
CountsOf(a) ==
  [processed |-> processed[a], filtered |-> filtered[a], skipped |-> skipped[a]]

(* The instance attempt a uses: its own when a factory makes it.                 *)
Inst(a) == IF Shared THEN 1 ELSE a

(* ... and the activity's output: the counts and what the processor has seen.    *)
Outcome(a) == [counts |-> CountsOf(a), stats |-> seen[Inst(a)]]

ServerTypeOK ==
  /\ status \in {"scheduled", "started"} \cup Terminal
  /\ attempt \in Attempt
  /\ details \in ChunkProgress \cup {None}
  /\ cancelReq \in BOOLEAN
  /\ result \in Results \cup {None}

ControlTypeOK ==
  /\ pc \in [Attempt -> {"idle", "resume", "top", "read", "process", "write", "heartbeat",
                         "layer2", "tail", "close", "ret", "done", "dead"}]
  /\ out \in [Attempt -> {"none", "ok", "err"}]

SdkTypeOK ==
  /\ given \in [Attempt -> ChunkProgress \cup {None}]
  /\ hbBuf \in [Attempt -> ChunkProgress \cup {None}]
  /\ ctxDone \in [Attempt -> BOOLEAN]

LoopTypeOK ==
  /\ items \in [Attempt -> Seq(Item)]
  /\ chunk \in [Attempt -> Seq(Item)]
  /\ processed \in [Attempt -> Nat]
  /\ filtered \in [Attempt -> Nat]
  /\ skipped \in [Attempt -> Nat]
  /\ pos \in [Attempt -> 0..N]
  /\ seen \in [Attempt -> Nat]
  /\ late \in [Attempt -> Nat]

TypeOK ==
  /\ kind \in [Item -> Kinds]
  /\ sink \subseteq Item
  /\ faults \in 0..MaxFaults
  /\ ServerTypeOK /\ ControlTypeOK /\ SdkTypeOK /\ LoopTypeOK

Init ==
  /\ kind \in [Item -> Kinds]
  /\ sink = {}
  /\ faults = 0
  /\ status = "scheduled" /\ attempt = 1 /\ details = None
  /\ cancelReq = FALSE /\ result = None
  /\ pc = [a \in Attempt |-> "idle"] /\ out = [a \in Attempt |-> "none"]
  /\ given = [a \in Attempt |-> None] /\ hbBuf = [a \in Attempt |-> None]
  /\ ctxDone = [a \in Attempt |-> FALSE]
  /\ items = [a \in Attempt |-> <<>>] /\ chunk = [a \in Attempt |-> <<>>]
  /\ pos = [a \in Attempt |-> 0]
  /\ processed = [a \in Attempt |-> 0]
  /\ filtered = [a \in Attempt |-> 0] /\ skipped = [a \in Attempt |-> 0]
  /\ seen = [a \in Attempt |-> 0] /\ late = [a \in Attempt |-> 0]

Goto(a, l) == pc' = [pc EXCEPT ![a] = l]
Return(a, o) == Goto(a, "close") /\ out' = [out EXCEPT ![a] = o]
Fault == faults < MaxFaults /\ faults' = faults + 1

-------------------------------------------------------------------------------
(* The server.                                                                   *)

(* A worker polls the scheduled attempt; the task carries the last details.      *)
Poll(a) ==
  /\ status = "scheduled" /\ a = attempt
  /\ status' = "started"
  /\ given' = [given EXCEPT ![a] = details]
  /\ Goto(a, "resume")
  /\ UNCHANGED <<kind, sink, faults, attempt, details, cancelReq, result, out, hbBuf, ctxDone, loop>>

(* Mutants: MaximumAttempts is taken for the number of retries less one, or not  *)
(* enforced.                                                                     *)
RetryOneShort ==
  /\ IF attempt + 1 < MaxAttempts /\ ~cancelReq
       THEN status' = "scheduled" /\ attempt' = attempt + 1
       ELSE status' = "failed" /\ UNCHANGED attempt
  /\ UNCHANGED <<details, cancelReq, result>>
RetryUnbounded ==
  /\ status' = "scheduled" /\ attempt' = attempt + 1
  /\ UNCHANGED <<details, cancelReq, result>>

(* The attempt is over without a result: the retry policy decides.               *)
Retry ==
  /\ IF attempt < MaxAttempts /\ ~cancelReq
       THEN status' = "scheduled" /\ attempt' = attempt + 1
       ELSE status' = "failed" /\ UNCHANGED attempt
  /\ UNCHANGED <<details, cancelReq, result>>

(* The heartbeat timeout of an attempt whose worker died ...                     *)
LossDetected ==
  /\ status = "started" /\ pc[attempt] = "dead"
  /\ Retry
  /\ UNCHANGED <<kind, sink, faults, control, sdk, loop>>

(* ... and of one still running: it becomes a zombie.                            *)
FalseTimeout ==
  /\ status = "started" /\ Live(attempt)
  /\ Fault /\ Retry
  /\ UNCHANGED <<kind, sink, control, sdk, loop>>

(* CancelWorkflow: an attempt in backoff ends at once, a running one is told by  *)
(* the answer to its next heartbeat.                                             *)
Cancel ==
  /\ status \in {"scheduled", "started"} /\ ~cancelReq
  /\ cancelReq' = TRUE
  /\ status' = IF status = "scheduled" THEN "cancelled" ELSE status
  /\ UNCHANGED <<kind, sink, faults, attempt, details, result, control, sdk, loop>>

-------------------------------------------------------------------------------
(* The SDK beside attempt a.                                                     *)

(* The buffered heartbeat reaches the server: accepted from the current attempt, *)
(* refused from a stale one, whose context is then cancelled.                    *)
DeliverHeartbeat(a) ==
  /\ Live(a) /\ hbBuf[a] # None
  /\ details' = IF Current(a) THEN hbBuf[a] ELSE details
  /\ ctxDone' = [ctxDone EXCEPT ![a] = @ \/ ~Current(a) \/ cancelReq]
  /\ hbBuf' = [hbBuf EXCEPT ![a] = None]
  /\ UNCHANGED <<kind, sink, faults, status, attempt, cancelReq, result, control, given, loop>>

(* A heartbeat that fails, the start-to-close deadline or a worker stop: the     *)
(* context is done and what was buffered is lost.                                *)
ContextLost(a) ==
  /\ Live(a) /\ ~ctxDone[a]
  /\ Fault
  /\ ctxDone' = [ctxDone EXCEPT ![a] = TRUE]
  /\ hbBuf' = [hbBuf EXCEPT ![a] = None]
  /\ UNCHANGED <<kind, sink, server, control, given, loop>>

(* The worker process dies: its attempts are gone, so are instances held in it.  *)
Crash ==
  /\ \E a \in Attempt : Live(a)
  /\ Fault
  /\ pc' = [a \in Attempt |-> IF Live(a) THEN "dead" ELSE pc[a]]
  /\ hbBuf' = [a \in Attempt |-> None]
  /\ pos' = IF Shared THEN [a \in Attempt |-> 0] ELSE pos
  /\ seen' = IF Shared THEN [a \in Attempt |-> 0] ELSE seen
  /\ UNCHANGED <<kind, sink, server, out, given, ctxDone, items, chunk, cnts, late>>

(* Mutant: the outcome of a stale attempt is accepted.                           *)
RespondFromAny(a) ==
  /\ pc[a] = "ret" /\ Goto(a, "done")
  /\ hbBuf' = [hbBuf EXCEPT ![a] = None]
  /\ status' = IF out[a] = "ok" THEN "completed" ELSE "failed"
  /\ result' = IF out[a] = "ok" THEN Outcome(a) ELSE result
  /\ UNCHANGED <<kind, sink, faults, attempt, details, cancelReq, out, given, ctxDone, loop>>

(* The outcome is reported; that of a stale attempt is refused.  An error that   *)
(* answers a cancellation cancels, any other goes to the retry policy.           *)
Respond(a) ==
  /\ pc[a] = "ret"
  /\ Goto(a, "done")
  /\ hbBuf' = [hbBuf EXCEPT ![a] = None]
  /\ \/ /\ ~Current(a)
        /\ UNCHANGED server
     \/ /\ Current(a) /\ out[a] = "ok"
        /\ status' = "completed"
        /\ result' = Outcome(a)
        /\ UNCHANGED <<attempt, details, cancelReq>>
     \/ /\ Current(a) /\ out[a] = "err" /\ cancelReq /\ ctxDone[a]
        /\ status' = "cancelled"
        /\ UNCHANGED <<attempt, details, cancelReq, result>>
     \/ /\ Current(a) /\ out[a] = "err" /\ ~(cancelReq /\ ctxDone[a])
        /\ Retry
  /\ UNCHANGED <<kind, sink, faults, out, given, ctxDone, loop>>

-------------------------------------------------------------------------------
(* The loop of attempt a (runChunkLoop).                                         *)

(* Mutants: the counts resume without the position, or the skip count does not.  *)
ResumeCountsOnly(a) ==
  /\ pc[a] = "resume"
  /\ IF given[a] # None
       THEN /\ processed' = [processed EXCEPT ![a] = given[a].processed]
            /\ filtered' = [filtered EXCEPT ![a] = given[a].filtered]
            /\ skipped' = [skipped EXCEPT ![a] = given[a].skipped]
       ELSE UNCHANGED cnts
  /\ Goto(a, "top")
  /\ UNCHANGED <<kind, sink, faults, server, out, sdk, items, chunk, pos, seen, late>>

ResumeForgetsSkips(a) ==
  /\ pc[a] = "resume"
  /\ IF given[a] # None /\ Restartable
       THEN /\ pos' = [pos EXCEPT ![Inst(a)] = given[a].offset]
            /\ processed' = [processed EXCEPT ![a] = given[a].processed]
            /\ filtered' = [filtered EXCEPT ![a] = given[a].filtered]
       ELSE UNCHANGED <<pos, processed, filtered>>
  /\ Goto(a, "top")
  /\ UNCHANGED <<kind, sink, faults, server, out, sdk, items, chunk, skipped, seen, late>>

(* Only a RestartableReader is repositioned and only then the counts resume.     *)
Resume(a) ==
  /\ pc[a] = "resume"
  /\ IF given[a] # None /\ Restartable
       THEN /\ pos' = [pos EXCEPT ![Inst(a)] = given[a].offset]
            /\ processed' = [processed EXCEPT ![a] = given[a].processed]
            /\ filtered' = [filtered EXCEPT ![a] = given[a].filtered]
            /\ skipped' = [skipped EXCEPT ![a] = given[a].skipped]
       ELSE UNCHANGED <<pos, cnts>>
  /\ Goto(a, "top")
  /\ UNCHANGED <<kind, sink, faults, server, out, sdk, items, chunk, seen, late>>

(* Mutant: no layer 1.                                                           *)
CheckNothing(a) ==
  /\ pc[a] = "top"
  /\ Goto(a, IF items[a] = <<>> THEN "read" ELSE "process")
  /\ UNCHANGED <<kind, sink, faults, server, out, sdk, loop>>

(* Layer 1, then on to the buffered item or to the reader.                       *)
CheckAlive(a) ==
  /\ pc[a] = "top"
  /\ IF ctxDone[a] THEN Return(a, "err")
     ELSE /\ Goto(a, IF items[a] = <<>> THEN "read" ELSE "process")
          /\ UNCHANGED out
  /\ UNCHANGED <<kind, sink, faults, server, sdk, loop>>

Read(a) ==
  /\ pc[a] = "read"
  /\ \E k \in 1..ReadSize :
       LET p == pos[Inst(a)] IN
       /\ p + k <= N
       /\ items' = [items EXCEPT ![a] = [j \in 1..k |-> p + j]]
       /\ pos' = [pos EXCEPT ![Inst(a)] = p + k]
  /\ Goto(a, "process")
  /\ UNCHANGED <<kind, sink, faults, server, out, sdk, chunk, cnts, seen, late>>

(* Mutants: the tail chunk is forgotten; the loop is not left.                   *)
EndWithoutTail(a) ==
  /\ pc[a] = "read" /\ pos[Inst(a)] = N
  /\ Return(a, "ok")
  /\ UNCHANGED <<kind, sink, faults, server, sdk, loop>>

EndIgnored(a) ==
  /\ pc[a] = "read" /\ pos[Inst(a)] = N
  /\ Goto(a, "top")
  /\ UNCHANGED <<kind, sink, faults, server, out, sdk, loop>>

EndOfData(a) ==
  /\ pc[a] = "read" /\ pos[Inst(a)] = N
  /\ IF chunk[a] = <<>> THEN Return(a, "ok") ELSE Goto(a, "tail") /\ UNCHANGED out
  /\ UNCHANGED <<kind, sink, faults, server, sdk, loop>>

(* items[0] goes to the processor, which has now seen one more item.             *)
Take(a) ==
  /\ pc[a] = "process"
  /\ items' = [items EXCEPT ![a] = Tail(@)]
  /\ seen' = [seen EXCEPT ![Inst(a)] = @ + 1]
  /\ late' = [late EXCEPT ![a] = IF ctxDone[a] THEN @ + 1 ELSE @]
  /\ UNCHANGED <<kind, sink, faults, server, sdk, pos>>

Keep(a) ==
  /\ Take(a) /\ kind[Head(items[a])] = "ok"
  /\ chunk' = [chunk EXCEPT ![a] = Append(@, Head(items[a]))]
  /\ Goto(a, IF Len(chunk[a]) + 1 >= ChunkSize THEN "write" ELSE "top")
  /\ UNCHANGED <<out, cnts>>

Filter(a) ==
  /\ Take(a) /\ kind[Head(items[a])] = "nil"
  /\ filtered' = [filtered EXCEPT ![a] = @ + 1]
  /\ Goto(a, "top")
  /\ UNCHANGED <<out, chunk, processed, skipped>>

(* ShouldSkip(err, item, skipped) ...                                            *)
Skip(a) ==
  /\ Take(a) /\ kind[Head(items[a])] = "bad" /\ skipped[a] < SkipLimit
  /\ skipped' = [skipped EXCEPT ![a] = @ + 1]
  /\ Goto(a, "top")
  /\ UNCHANGED <<out, chunk, processed, filtered>>

(* ... or the data error ends the attempt.                                       *)
Reject(a) ==
  /\ Take(a) /\ kind[Head(items[a])] = "bad" /\ skipped[a] >= SkipLimit
  /\ Return(a, "err")
  /\ UNCHANGED <<chunk, cnts>>

(* Mutant: a failing reader is taken for one at the end of its data.             *)
FailAsEnd(a) ==
  /\ pc[a] \in {"resume", "read", "process"}
  /\ Fault
  /\ Return(a, "ok")
  /\ UNCHANGED <<kind, sink, server, sdk, loop>>

(* A factory, RestoreState, Read or Process fails for a transient reason.        *)
Fail(a) ==
  /\ pc[a] \in {"resume", "read", "process"}
  /\ Fault
  /\ Return(a, "err")
  /\ UNCHANGED <<kind, sink, server, sdk, loop>>

(* Mutant: a chunk counts for ChunkSize items, the tail included.                *)
WriteCountsFull(a) ==
  /\ pc[a] \in {"write", "tail"}
  /\ sink' = sink \cup Elems(chunk[a])
  /\ processed' = [processed EXCEPT ![a] = @ + ChunkSize]
  /\ chunk' = [chunk EXCEPT ![a] = <<>>]
  /\ IF pc[a] = "tail" THEN Return(a, "ok") ELSE Goto(a, "heartbeat") /\ UNCHANGED out
  /\ UNCHANGED <<kind, faults, server, sdk, items, filtered, skipped, pos, seen, late>>

Write(a) ==
  /\ pc[a] \in {"write", "tail"}
  /\ sink' = sink \cup Elems(chunk[a])
  /\ processed' = [processed EXCEPT ![a] = @ + Len(chunk[a])]
  /\ chunk' = [chunk EXCEPT ![a] = <<>>]
  /\ IF pc[a] = "tail" THEN Return(a, "ok") ELSE Goto(a, "heartbeat") /\ UNCHANGED out
  /\ UNCHANGED <<kind, faults, server, sdk, items, filtered, skipped, pos, seen, late>>

(* Mutant: the error of writeChunk is dropped.                                   *)
WriteErrorDropped(a) ==
  /\ pc[a] = "write"
  /\ Fault
  /\ processed' = [processed EXCEPT ![a] = @ + Len(chunk[a])]
  /\ chunk' = [chunk EXCEPT ![a] = <<>>]
  /\ Goto(a, "heartbeat")
  /\ UNCHANGED <<kind, sink, server, out, sdk, items, filtered, skipped, pos, seen, late>>

(* The writer fails; without a transaction part of the chunk may be persisted.   *)
WriteFails(a) ==
  /\ pc[a] \in {"write", "tail"}
  /\ Fault
  /\ \E S \in SUBSET Elems(chunk[a]) :
       /\ Transactional => S = {}
       /\ sink' = sink \cup S
  /\ Return(a, "err")
  /\ UNCHANGED <<kind, server, sdk, loop>>

(* RecordHeartbeat hands the progress to the SDK; SaveState is the position.     *)
RecordHeartbeat(a) ==
  /\ pc[a] = "heartbeat"
  /\ hbBuf' = [hbBuf EXCEPT ![a] =
       [processed |-> processed[a], filtered |-> filtered[a],
        skipped |-> skipped[a],
        offset |-> IF Restartable THEN pos[Inst(a)] ELSE 0]]
  /\ Goto(a, "layer2")
  /\ UNCHANGED <<kind, sink, faults, server, out, given, ctxDone, loop>>

CheckHeartbeat(a) ==
  /\ pc[a] = "layer2"
  /\ IF ctxDone[a] THEN Return(a, "err") ELSE Goto(a, "top") /\ UNCHANGED out
  /\ UNCHANGED <<kind, sink, faults, server, sdk, loop>>

(* closeExecInstances: a Close error replaces the outcome of a loop that ended   *)
(* well, never an error.                                                         *)
Close(a) ==
  /\ pc[a] = "close"
  /\ Goto(a, "ret")
  /\ \/ UNCHANGED <<out, faults>>
     \/ out[a] = "ok" /\ Fault /\ out' = [out EXCEPT ![a] = "err"]
  /\ UNCHANGED <<kind, sink, server, sdk, loop>>

Step(a) ==
  \/ Resume(a) \/ CheckAlive(a) \/ Read(a) \/ EndOfData(a)
  \/ Keep(a) \/ Filter(a) \/ Skip(a) \/ Reject(a)
  \/ Write(a) \/ RecordHeartbeat(a) \/ CheckHeartbeat(a) \/ Close(a) \/ Respond(a)

Next ==
  \/ \E a \in Attempt : \/ Poll(a) \/ Step(a) \/ Fail(a) \/ WriteFails(a)
                        \/ DeliverHeartbeat(a) \/ ContextLost(a)
  \/ LossDetected \/ FalseTimeout \/ Cancel \/ Crash

Spec == Init /\ [][Next]_vars

(* Goroutines run, the worker polls, and the heartbeat timeout fires for a dead  *)
(* worker: nothing else is promised.                                             *)
Fairness ==
  /\ \A a \in Attempt : WF_vars(Poll(a)) /\ WF_vars(Step(a))
  /\ WF_vars(LossDetected)

FairSpec == Spec /\ Fairness

-------------------------------------------------------------------------------
(* Properties.                                                                   *)

(* The readers the engine's resume protocol is sound for: an instance of its own *)
(* for every attempt and, when restartable, SaveState at the consumed position.  *)
SafeConfig == ~Shared /\ (Restartable => ReadSize = 1)

OkItems == {i \in Item : kind[i] = "ok"}

(* How many of the first p items the data f makes of kind k.                     *)
Num(f, k, p) == Cardinality({i \in 1..p : f[i] = k})

Consumed(a) == pos[a] - Len(items[a])

(* At-least-once (engine.go: the Writer's idempotence is the last line of        *)
(* defence for at-least-once delivery): an execution reported successful has     *)
(* persisted every item the processor accepted, whatever retries, zombies,       *)
(* lost heartbeats and crashes it went through.                                  *)
AtLeastOnce == SafeConfig /\ status = "completed" => sink = OkItems

(* The counts of a completed execution are those of one undisturbed pass: resume *)
(* neither counts twice nor forgets (engine.go 16-18, 51-52).                    *)
CountsExact ==
  SafeConfig /\ status = "completed" =>
    /\ result.counts.processed = Num(kind, "ok", N)
    /\ result.counts.filtered = Num(kind, "nil", N)
    /\ result.counts.skipped = Num(kind, "bad", N)

(* What every checkpoint in the system - in the SDK's buffer, at the server or   *)
(* handed to an attempt - says: its counts are those of the prefix it points     *)
(* past, and every accepted item of that prefix is persisted.  A heartbeat never *)
(* runs ahead of the data, not even one of a zombie.                             *)
Sound(p) ==
  p # None /\ Restartable =>
    /\ p.processed = Num(kind, "ok", p.offset)
    /\ p.filtered = Num(kind, "nil", p.offset)
    /\ p.skipped = Num(kind, "bad", p.offset)
    /\ \A i \in 1..p.offset : kind[i] = "ok" => i \in sink

CheckpointSound ==
  SafeConfig => /\ Sound(details)
                /\ \A a \in Attempt : Sound(hbBuf[a]) /\ Sound(given[a])

(* No attempt, not even a zombie, has an item in hand that the checkpoint it     *)
(* resumed from covers: committed chunks are not run again by the retry.         *)
CommittedNotRerun ==
  SafeConfig /\ Restartable =>
    \A a \in Attempt : given[a] # None =>
      \A i \in Elems(items[a]) \cup Elems(chunk[a]) : i > given[a].offset

(* Once its context is done an attempt takes up at most one more item.           *)
StopsPromptly == \A a \in Attempt : late[a] <= 1

(* The checkpoint the server holds never moves back, across all attempts.        *)
CheckpointMonotonic ==
  [][SafeConfig /\ Restartable /\ details # None =>
       details' # None /\ details'.offset >= details.offset]_vars

(* A zombie can persist items after the execution is over, but once the          *)
(* execution completed the store no longer changes.                              *)
QuiescentAfterCompletion ==
  [][SafeConfig /\ status = "completed" => UNCHANGED <<sink, status, result>>]_vars

(* With fewer faults than attempts, no cancellation and a skip policy that       *)
(* tolerates the bad items there are, the execution completes: the retries       *)
(* (phase.go 185-187) absorb the faults.                                         *)
Completes ==
  SafeConfig /\ MaxFaults < MaxAttempts =>
    <>(status = "completed" \/ cancelReq \/ Num(kind, "bad", N) > SkipLimit)

(* Whatever happens, the execution ends: bad data is not retried for ever        *)
(* (phase.go 179).                                                               *)
Terminates == <>(status \in Terminal)

(* The engine implements the contract of a chunk phase (for a SafeConfig).       *)
Contract == INSTANCE ChunkContract WITH
  stored <- sink,
  outcome <- IF status \in Terminal THEN status ELSE "running",
  tally <- IF result = None THEN None ELSE result.counts

ImplementsContract == Contract!Spec

-------------------------------------------------------------------------------
(* The inductive invariant behind the safety properties.                         *)

(* An attempt about to process has an item in hand, in every configuration.      *)
ItemInHand == \A a \in Attempt : pc[a] = "process" => items[a] # <<>>

(* Attempts run in order: those after the current one have not begun.            *)
ServerInv ==
  /\ \A a \in Attempt : a > attempt => pc[a] = "idle"
  /\ status = "scheduled" => pc[attempt] = "idle"

(* What the control point of an attempt says of its locals.                      *)
ControlInv(a) ==
  /\ pc[a] \in {"idle", "resume"} =>
       /\ items[a] = <<>> /\ chunk[a] = <<>> /\ pos[a] = 0
       /\ processed[a] = 0 /\ filtered[a] = 0 /\ skipped[a] = 0
  /\ pc[a] \in {"read", "tail"} => items[a] = <<>>
  /\ Restartable => Len(items[a]) <= 1
  /\ Restartable /\ pc[a] \in {"top", "write", "heartbeat", "layer2"} => items[a] = <<>>
  /\ pc[a] \in {"heartbeat", "layer2"} => chunk[a] = <<>>
  /\ pc[a] = "tail" => pos[a] = N
  /\ out[a] = "ok" => items[a] = <<>> /\ chunk[a] = <<>> /\ pos[a] = N
  /\ out[a] # "none" => pc[a] \in {"close", "ret", "done", "dead"}

(* The loop invariant of runChunkLoop: the buffered items continue the consumed  *)
(* prefix; the counts and the chunk account for the prefix; what it accepted is  *)
(* persisted or in the chunk.  A loop left by an error may break it.             *)
LoopInv(a) ==
  out[a] # "err" =>
    /\ Consumed(a) \in 0..N
    /\ \A j \in 1..Len(items[a]) : items[a][j] = Consumed(a) + j
    /\ processed[a] + Len(chunk[a]) = Num(kind, "ok", Consumed(a))
    /\ filtered[a] = Num(kind, "nil", Consumed(a))
    /\ skipped[a] = Num(kind, "bad", Consumed(a))
    /\ \A i \in 1..Consumed(a) : kind[i] = "ok" => i \in sink \cup Elems(chunk[a])

(* Only accepted items are persisted; a completed execution has all of them.     *)
StoreInv ==
  /\ sink \subseteq OkItems
  /\ \A a \in Attempt : Elems(chunk[a]) \subseteq OkItems
  /\ status = "completed" =>
       /\ sink = OkItems
       /\ result # None
       /\ result.counts = [processed |-> Num(kind, "ok", N), filtered |-> Num(kind, "nil", N),
                           skipped |-> Num(kind, "bad", N)]
  /\ status # "completed" => result = None

IInv ==
  SafeConfig =>
    /\ ServerInv
    /\ \A a \in Attempt : ControlInv(a) /\ LoopInv(a)
    /\ CheckpointSound
    /\ StoreInv

-------------------------------------------------------------------------------
(* What the comments of the code say, and configurations of it disprove.         *)

(* engine.go 14 promises at-least-once for any reader: here a RestartableReader  *)
(* whose Read returns several items.                                             *)
EveryAcceptedItemPersisted == status = "completed" => sink = OkItems
===============================================================================
