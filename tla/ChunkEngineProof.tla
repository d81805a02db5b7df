---------------------------- MODULE ChunkEngineProof ---------------------------
(* The chunk engine, for every value of the constants.  First its safety: types, *)
(* then the loop invariant of runChunkLoop, which holds in every attempt, zombies *)
(* included, so every checkpoint is sound and a completed execution has persisted *)
(* what it should.  Then what its steps may do: it implements the contract of a   *)
(* chunk phase (ChunkContract), nothing is persisted after it completed, an       *)
(* attempt whose context is done stops, none takes up again what its checkpoint   *)
(* covers, and the server's checkpoint never moves back.                          *)
EXTENDS ChunkEngine, FiniteSetTheorems, TLAPS

-------------------------------------------------------------------------------
(* Lemmas about the operators the actions are built from.                        *)

(* Attempt 1 exists, a retry below the maximum is an attempt, and the instance  *)
(* an attempt uses is named by an attempt.                                      *)
LEMMA Attempts ==
  /\ 1 \in Attempt
  /\ \A a \in Attempt : /\ Inst(a) \in Attempt
                        /\ a < MaxAttempts => a + 1 \in Attempt
BY ChunkEngineAssumption DEF Attempt, Inst

(* Taking the first item of a buffer and appending to a chunk keep them         *)
(* sequences of items.                                                          *)
LEMMA ItemSequences ==
  ASSUME NEW s \in Seq(Item)
  PROVE  /\ Elems(s) \subseteq Item
         /\ s # <<>> => Head(s) \in Item /\ Tail(s) \in Seq(Item) /\ Len(Tail(s)) = Len(s) - 1
         /\ \A i \in Item : Append(s, i) \in Seq(Item)
         /\ Len(s) \in Nat
BY DEF Elems

(* A fault stays within the bound on faults.                                    *)
LEMMA FaultBound ==
  ASSUME faults \in 0..MaxFaults, Fault
  PROVE  faults' \in 0..MaxFaults
BY ChunkEngineAssumption DEF Fault

(* The retry policy (activityOptions, phase.go 180) never counts past           *)
(* MaximumAttempts.                                                             *)
LEMMA RetryTypes ==
  ASSUME ServerTypeOK, Retry
  PROVE  ServerTypeOK'
BY Attempts DEF Retry, ServerTypeOK, Terminal

(* Reader.Read hands out items of the source and never moves the reader past    *)
(* its end.                                                                     *)
LEMMA ReadTypes ==
  ASSUME NEW a \in Attempt, Read(a), LoopTypeOK
  PROVE  LoopTypeOK'
<1>1. PICK k \in 1..ReadSize :
        /\ pos[Inst(a)] + k <= N
        /\ items' = [items EXCEPT ![a] = [j \in 1..k |-> pos[Inst(a)] + j]]
        /\ pos' = [pos EXCEPT ![Inst(a)] = pos[Inst(a)] + k]
  BY DEF Read
<1>2. pos[Inst(a)] \in 0..N /\ k \in Nat
  BY Attempts, ChunkEngineAssumption DEF LoopTypeOK
<1>3. [j \in 1..k |-> pos[Inst(a)] + j] \in Seq(Item)
  BY <1>1, <1>2, ChunkEngineAssumption DEF Item
<1>4. pos[Inst(a)] + k \in 0..N
  BY <1>1, <1>2, ChunkEngineAssumption
<1>5. QED
  BY <1>1, <1>3, <1>4 DEF LoopTypeOK, Read, cnts

(* Taking items[0] for the processor (engine.go 75) leaves the loop's locals    *)
(* well typed.                                                                  *)
LEMMA TakeTypes ==
  ASSUME NEW a \in Attempt, Take(a), LoopTypeOK, ItemInHand
  PROVE  /\ items[a] # <<>> /\ Head(items[a]) \in Item
         /\ items' \in [Attempt -> Seq(Item)]
         /\ seen' \in [Attempt -> Nat]
         /\ late' \in [Attempt -> Nat]
         /\ pos' \in [Attempt -> 0..N]
<1>1. items[a] \in Seq(Item) /\ items[a] # <<>>
  BY DEF Take, ItemInHand, LoopTypeOK
<1>2. Head(items[a]) \in Item /\ Tail(items[a]) \in Seq(Item)
  BY <1>1, ItemSequences
<1>3. seen' \in [Attempt -> Nat]
  <2>1. Inst(a) \in Attempt
    BY Attempts
  <2>2. seen' = [seen EXCEPT ![Inst(a)] = seen[Inst(a)] + 1]
    BY DEF Take
  <2>3. seen \in [Attempt -> Nat]
    BY DEF LoopTypeOK
  <2>4. QED
    BY <2>1, <2>2, <2>3
<1>4. late' \in [Attempt -> Nat]
  BY DEF Take, LoopTypeOK
<1>5. items' = [items EXCEPT ![a] = Tail(items[a])] /\ pos' = pos
  BY DEF Take
<1>6. items' \in [Attempt -> Seq(Item)]
  BY <1>2, <1>5 DEF LoopTypeOK
<1>7. QED
  BY <1>1, <1>2, <1>3, <1>4, <1>5, <1>6 DEF LoopTypeOK

-------------------------------------------------------------------------------
(* Type correctness.                                                             *)

(* A step that leaves a group of variables alone keeps their types.              *)
LEMMA Frame ==
  /\ ServerTypeOK /\ UNCHANGED server => ServerTypeOK'
  /\ ControlTypeOK /\ UNCHANGED control => ControlTypeOK'
  /\ SdkTypeOK /\ UNCHANGED sdk => SdkTypeOK'
  /\ LoopTypeOK /\ UNCHANGED loop => LoopTypeOK'
BY DEF server, control, sdk, loop, cnts, ServerTypeOK, ControlTypeOK, SdkTypeOK, LoopTypeOK

(* An execution that was just scheduled has the types, and no attempt is        *)
(* processing.                                                                  *)
LEMMA TypeInit == Init => TypeOK /\ ItemInHand
<1> SUFFICES ASSUME Init PROVE TypeOK /\ ItemInHand
  OBVIOUS
<1>1. ServerTypeOK
  BY Attempts DEF Init, ServerTypeOK, Terminal
<1>2. ControlTypeOK /\ SdkTypeOK
  BY DEF Init, ControlTypeOK, SdkTypeOK
<1>3. LoopTypeOK
  BY ChunkEngineAssumption DEF Init, LoopTypeOK
<1>4. faults \in 0..MaxFaults
  BY ChunkEngineAssumption DEF Init
<1>5. ItemInHand
  BY DEF Init, ItemInHand
<1>6. QED
  BY <1>1, <1>2, <1>3, <1>4, <1>5 DEF Init, TypeOK

(* Every step of the server, the SDK and the loop keeps the types.              *)
LEMMA TypeStep == TypeOK /\ ItemInHand /\ [Next]_vars => TypeOK'
<1> SUFFICES ASSUME TypeOK, ItemInHand, [Next]_vars PROVE TypeOK'
  OBVIOUS
<1>0. /\ ServerTypeOK /\ ControlTypeOK /\ SdkTypeOK /\ LoopTypeOK
      /\ kind \in [Item -> Kinds] /\ sink \subseteq Item /\ faults \in 0..MaxFaults
      /\ ItemInHand
  BY DEF TypeOK
<1>1. ASSUME NEW a \in Attempt, Poll(a) PROVE TypeOK'
  <2>1. ServerTypeOK'
    BY <1>0, <1>1 DEF ServerTypeOK, Poll
  <2>2. ControlTypeOK'
    BY <1>0, <1>1 DEF ControlTypeOK, Poll, Goto
  <2>3. SdkTypeOK'
    BY <1>0, <1>1 DEF SdkTypeOK, ServerTypeOK, Poll
  <2>4. QED
    BY <1>0, <1>1, <2>1, <2>2, <2>3, Frame DEF TypeOK, Poll
<1>2. ASSUME NEW a \in Attempt, Resume(a) PROVE TypeOK'
  <2>1. ControlTypeOK'
    BY <1>0, <1>2 DEF ControlTypeOK, Resume, Goto
  <2>2. LoopTypeOK'
    <3>1. Inst(a) \in Attempt
      BY Attempts
    <3>2. CASE given[a] # None /\ Restartable
      <4>1. given[a] \in ChunkProgress
        BY <1>0, <3>2 DEF SdkTypeOK
      <4>2. /\ given[a].offset \in 0..N /\ given[a].processed \in Nat
            /\ given[a].filtered \in Nat /\ given[a].skipped \in Nat
        BY <4>1 DEF ChunkProgress
      <4>3. QED
        BY <1>0, <1>2, <3>1, <3>2, <4>2 DEF LoopTypeOK, Resume
    <3>3. CASE ~(given[a] # None /\ Restartable)
      BY <1>0, <1>2, <3>3 DEF LoopTypeOK, Resume, cnts
    <3>4. QED
      BY <3>2, <3>3
  <2>3. QED
    BY <1>0, <1>2, <2>1, <2>2, Frame DEF TypeOK, Resume
<1>3. ASSUME NEW a \in Attempt, CheckAlive(a) PROVE TypeOK'
  <2>1. ControlTypeOK'
    BY <1>0, <1>3 DEF ControlTypeOK, CheckAlive, Return, Goto
  <2>2. QED
    BY <1>0, <1>3, <2>1, Frame DEF TypeOK, CheckAlive
<1>4. ASSUME NEW a \in Attempt, Read(a) PROVE TypeOK'
  <2>1. ControlTypeOK'
    BY <1>0, <1>4 DEF ControlTypeOK, Read, Goto
  <2>2. LoopTypeOK'
    BY <1>0, <1>4, ReadTypes
  <2>3. QED
    BY <1>0, <1>4, <2>1, <2>2, Frame DEF TypeOK, Read
<1>5. ASSUME NEW a \in Attempt, EndOfData(a) PROVE TypeOK'
  <2>1. ControlTypeOK'
    BY <1>0, <1>5 DEF ControlTypeOK, EndOfData, Return, Goto
  <2>2. QED
    BY <1>0, <1>5, <2>1, Frame DEF TypeOK, EndOfData
<1>6. ASSUME NEW a \in Attempt, Keep(a) PROVE TypeOK'
  <2>1. ControlTypeOK'
    BY <1>0, <1>6 DEF ControlTypeOK, Keep, Goto
  <2>2. LoopTypeOK'
    <3>1. chunk' \in [Attempt -> Seq(Item)]
      BY <1>0, <1>6, TakeTypes, ItemSequences DEF Keep, LoopTypeOK
    <3>2. QED
      BY <1>0, <1>6, <3>1, TakeTypes DEF Keep, LoopTypeOK, cnts
  <2>3. QED
    BY <1>0, <1>6, <2>1, <2>2, Frame DEF TypeOK, Keep, Take
<1>7. ASSUME NEW a \in Attempt, Filter(a) PROVE TypeOK'
  <2>1. ControlTypeOK'
    BY <1>0, <1>7 DEF ControlTypeOK, Filter, Goto
  <2>2. LoopTypeOK'
    <3>1. filtered' \in [Attempt -> Nat]
      BY <1>0, <1>7 DEF Filter, LoopTypeOK
    <3>2. QED
      BY <1>0, <1>7, <3>1, TakeTypes DEF Filter, LoopTypeOK, cnts
  <2>3. QED
    BY <1>0, <1>7, <2>1, <2>2, Frame DEF TypeOK, Filter, Take
<1>8. ASSUME NEW a \in Attempt, Skip(a) PROVE TypeOK'
  <2>1. ControlTypeOK'
    BY <1>0, <1>8 DEF ControlTypeOK, Skip, Goto
  <2>2. LoopTypeOK'
    <3>1. skipped' \in [Attempt -> Nat]
      BY <1>0, <1>8 DEF Skip, LoopTypeOK
    <3>2. QED
      BY <1>0, <1>8, <3>1, TakeTypes DEF Skip, LoopTypeOK, cnts
  <2>3. QED
    BY <1>0, <1>8, <2>1, <2>2, Frame DEF TypeOK, Skip, Take
<1>9. ASSUME NEW a \in Attempt, Reject(a) PROVE TypeOK'
  <2>1. ControlTypeOK'
    BY <1>0, <1>9 DEF ControlTypeOK, Reject, Return, Goto
  <2>2. LoopTypeOK'
    BY <1>0, <1>9, TakeTypes DEF Reject, LoopTypeOK, cnts
  <2>3. QED
    BY <1>0, <1>9, <2>1, <2>2, Frame DEF TypeOK, Reject, Take
<1>10. ASSUME NEW a \in Attempt, Write(a) PROVE TypeOK'
  <2>1. ControlTypeOK'
    BY <1>0, <1>10 DEF ControlTypeOK, Write, Return, Goto
  <2>2. LoopTypeOK'
    <3>1. Len(chunk[a]) \in Nat
      BY <1>0, ItemSequences DEF LoopTypeOK
    <3>2. processed' \in [Attempt -> Nat]
      BY <1>0, <1>10, <3>1 DEF Write, LoopTypeOK
    <3>3. chunk' \in [Attempt -> Seq(Item)]
      BY <1>0, <1>10 DEF Write, LoopTypeOK
    <3>4. QED
      BY <1>0, <1>10, <3>2, <3>3 DEF Write, LoopTypeOK
  <2>3. sink' \subseteq Item /\ faults' \in 0..MaxFaults
    <3>1. chunk[a] \in Seq(Item)
      BY <1>0 DEF LoopTypeOK
    <3>2. Elems(chunk[a]) \subseteq Item
      BY <3>1, ItemSequences
    <3>3. sink' = sink \cup Elems(chunk[a]) /\ faults' = faults
      BY <1>10 DEF Write
    <3>4. QED
      BY <1>0, <3>2, <3>3
  <2>4. QED
    BY <1>0, <1>10, <2>1, <2>2, <2>3, Frame DEF TypeOK, Write
<1>11. ASSUME NEW a \in Attempt, RecordHeartbeat(a) PROVE TypeOK'
  <2>1. ControlTypeOK'
    BY <1>0, <1>11 DEF ControlTypeOK, RecordHeartbeat, Goto
  <2>2. SdkTypeOK'
    <3>1. [processed |-> processed[a], filtered |-> filtered[a], skipped |-> skipped[a],
           offset |-> IF Restartable THEN pos[Inst(a)] ELSE 0] \in ChunkProgress
      BY <1>0, Attempts, ChunkEngineAssumption DEF ChunkProgress, LoopTypeOK
    <3>2. hbBuf' \in [Attempt -> ChunkProgress \cup {None}]
      BY <1>0, <1>11, <3>1 DEF SdkTypeOK, RecordHeartbeat
    <3>3. QED
      BY <1>0, <1>11, <3>2 DEF SdkTypeOK, RecordHeartbeat
  <2>3. QED
    BY <1>0, <1>11, <2>1, <2>2, Frame DEF TypeOK, RecordHeartbeat
<1>12. ASSUME NEW a \in Attempt, CheckHeartbeat(a) PROVE TypeOK'
  <2>1. ControlTypeOK'
    BY <1>0, <1>12 DEF ControlTypeOK, CheckHeartbeat, Return, Goto
  <2>2. QED
    BY <1>0, <1>12, <2>1, Frame DEF TypeOK, CheckHeartbeat
<1>13. ASSUME NEW a \in Attempt, Close(a) PROVE TypeOK'
  <2>1. ControlTypeOK'
    BY <1>0, <1>13 DEF ControlTypeOK, Close, Goto
  <2>2. sink' \subseteq Item /\ faults' \in 0..MaxFaults
    BY <1>0, <1>13, FaultBound DEF Close
  <2>3. QED
    BY <1>0, <1>13, <2>1, <2>2, Frame DEF TypeOK, Close
<1>14. ASSUME NEW a \in Attempt, Respond(a) PROVE TypeOK'
  <2>1. ServerTypeOK'
    <3>1. Outcome(a) \in Results
      BY <1>0, Attempts DEF Outcome, Results, Counts, CountsOf, LoopTypeOK
    <3>2. QED
      BY <1>0, <1>14, <3>1, RetryTypes, Frame DEF Respond, ServerTypeOK, Terminal
  <2>2. ControlTypeOK'
    BY <1>0, <1>14 DEF ControlTypeOK, Respond, Goto
  <2>3. SdkTypeOK'
    BY <1>0, <1>14 DEF SdkTypeOK, Respond
  <2>4. QED
    BY <1>0, <1>14, <2>1, <2>2, <2>3, Frame DEF TypeOK, Respond
<1>15. ASSUME NEW a \in Attempt, Fail(a) PROVE TypeOK'
  <2>1. ControlTypeOK'
    BY <1>0, <1>15 DEF ControlTypeOK, Fail, Return, Goto
  <2>2. sink' \subseteq Item /\ faults' \in 0..MaxFaults
    BY <1>0, <1>15, FaultBound DEF Fail
  <2>3. QED
    BY <1>0, <1>15, <2>1, <2>2, Frame DEF TypeOK, Fail
<1>16. ASSUME NEW a \in Attempt, WriteFails(a) PROVE TypeOK'
  <2>1. ControlTypeOK'
    BY <1>0, <1>16 DEF ControlTypeOK, WriteFails, Return, Goto
  <2>2. sink' \subseteq Item /\ faults' \in 0..MaxFaults
    <3>1. chunk[a] \in Seq(Item)
      BY <1>0 DEF LoopTypeOK
    <3>2. Elems(chunk[a]) \subseteq Item
      BY <3>1, ItemSequences
    <3>3. Fault /\ \E T \in SUBSET Elems(chunk[a]) : sink' = sink \cup T
      BY <1>16 DEF WriteFails
    <3>4. QED
      BY <1>0, <3>2, <3>3, FaultBound
  <2>3. QED
    BY <1>0, <1>16, <2>1, <2>2, Frame DEF TypeOK, WriteFails
<1>17. ASSUME NEW a \in Attempt, DeliverHeartbeat(a) PROVE TypeOK'
  <2>1. ServerTypeOK'
    BY <1>0, <1>17 DEF ServerTypeOK, DeliverHeartbeat, SdkTypeOK
  <2>2. SdkTypeOK'
    BY <1>0, <1>17 DEF SdkTypeOK, DeliverHeartbeat, ServerTypeOK
  <2>3. QED
    BY <1>0, <1>17, <2>1, <2>2, Frame DEF TypeOK, DeliverHeartbeat
<1>18. ASSUME NEW a \in Attempt, ContextLost(a) PROVE TypeOK'
  <2>1. SdkTypeOK'
    BY <1>0, <1>18 DEF SdkTypeOK, ContextLost
  <2>2. sink' \subseteq Item /\ faults' \in 0..MaxFaults
    BY <1>0, <1>18, FaultBound DEF ContextLost
  <2>3. QED
    BY <1>0, <1>18, <2>1, <2>2, Frame DEF TypeOK, ContextLost
<1>19. CASE LossDetected
  <2>1. ServerTypeOK'
    BY <1>0, <1>19, RetryTypes DEF LossDetected
  <2>2. QED
    BY <1>0, <1>19, <2>1, Frame DEF TypeOK, LossDetected
<1>20. CASE FalseTimeout
  <2>1. ServerTypeOK'
    BY <1>0, <1>20, RetryTypes DEF FalseTimeout
  <2>2. sink' \subseteq Item /\ faults' \in 0..MaxFaults
    BY <1>0, <1>20, FaultBound DEF FalseTimeout
  <2>3. QED
    BY <1>0, <1>20, <2>1, <2>2, Frame DEF TypeOK, FalseTimeout
<1>21. CASE Cancel
  <2>1. ServerTypeOK'
    BY <1>0, <1>21 DEF ServerTypeOK, Cancel, Terminal
  <2>2. QED
    BY <1>0, <1>21, <2>1, Frame DEF TypeOK, Cancel
<1>22. CASE Crash
  <2>1. ControlTypeOK'
    BY <1>0, <1>22 DEF ControlTypeOK, Crash
  <2>2. SdkTypeOK'
    BY <1>0, <1>22 DEF SdkTypeOK, Crash
  <2>3. LoopTypeOK'
    <3>1. pos' \in [Attempt -> 0..N] /\ seen' \in [Attempt -> Nat]
      <4>1. CASE Shared
        BY <1>22, <4>1, ChunkEngineAssumption DEF Crash
      <4>2. CASE ~Shared
        BY <1>0, <1>22, <4>2 DEF LoopTypeOK, Crash
      <4>3. QED
        BY <4>1, <4>2
    <3>2. QED
      BY <1>0, <1>22, <3>1 DEF LoopTypeOK, Crash, cnts
  <2>4. sink' \subseteq Item /\ faults' \in 0..MaxFaults
    BY <1>0, <1>22, FaultBound DEF Crash
  <2>5. QED
    BY <1>0, <1>22, <2>1, <2>2, <2>3, <2>4, Frame DEF TypeOK, Crash
<1>23. CASE UNCHANGED vars
  BY <1>0, <1>23, Frame DEF TypeOK, vars
<1>24. QED
  BY <1>1, <1>2, <1>3, <1>4, <1>5, <1>6, <1>7, <1>8, <1>9, <1>10, <1>11, <1>12, <1>13, <1>14,
     <1>15, <1>16, <1>17, <1>18, <1>19, <1>20, <1>21, <1>22, <1>23 DEF Next, Step

(* No step leaves an attempt about to process (engine.go 75) without an item.   *)
LEMMA ItemInHandStep == TypeOK /\ ItemInHand /\ [Next]_vars => ItemInHand'
<1> SUFFICES ASSUME TypeOK, ItemInHand, [Next]_vars, NEW b \in Attempt, pc'[b] = "process"
             PROVE  items'[b] # <<>>
  BY DEF ItemInHand
<1>0. ControlTypeOK /\ LoopTypeOK
  BY DEF TypeOK
<1>1. ASSUME UNCHANGED loop, pc'[b] = pc[b] PROVE items'[b] # <<>>
  BY <1>1 DEF ItemInHand, loop
<1>2. ASSUME NEW a \in Attempt, Poll(a) PROVE items'[b] # <<>>
  BY <1>0, <1>2 DEF ItemInHand, ControlTypeOK, Poll, Goto, loop, control
<1>3. ASSUME NEW a \in Attempt, Resume(a) PROVE items'[b] # <<>>
  BY <1>0, <1>3 DEF ItemInHand, ControlTypeOK, Resume, Goto, loop, control
<1>4. ASSUME NEW a \in Attempt, CheckAlive(a) PROVE items'[b] # <<>>
  BY <1>0, <1>4 DEF ItemInHand, ControlTypeOK, CheckAlive, Return, Goto, loop, control
<1>5. ASSUME NEW a \in Attempt, Read(a) PROVE items'[b] # <<>>
  <2>1. PICK k \in 1..ReadSize : items' = [items EXCEPT ![a] = [j \in 1..k |-> pos[Inst(a)] + j]]
    BY <1>5 DEF Read
  <2>2. [j \in 1..k |-> pos[Inst(a)] + j] # <<>>
    BY ChunkEngineAssumption
  <2>3. QED
    BY <1>0, <1>5, <2>1, <2>2 DEF Read, Goto, ItemInHand, ControlTypeOK, LoopTypeOK
<1>6. ASSUME NEW a \in Attempt, EndOfData(a) PROVE items'[b] # <<>>
  BY <1>0, <1>6 DEF ItemInHand, ControlTypeOK, EndOfData, Return, Goto, loop, control
<1>7. ASSUME NEW a \in Attempt, Keep(a) PROVE items'[b] # <<>>
  BY <1>0, <1>7 DEF ItemInHand, ControlTypeOK, Keep, Goto, Take, LoopTypeOK, loop, control
<1>8. ASSUME NEW a \in Attempt, Filter(a) PROVE items'[b] # <<>>
  BY <1>0, <1>8 DEF ItemInHand, ControlTypeOK, Filter, Goto, Take, LoopTypeOK, loop, control
<1>9. ASSUME NEW a \in Attempt, Skip(a) PROVE items'[b] # <<>>
  BY <1>0, <1>9 DEF ItemInHand, ControlTypeOK, Skip, Goto, Take, LoopTypeOK, loop, control
<1>10. ASSUME NEW a \in Attempt, Reject(a) PROVE items'[b] # <<>>
  BY <1>0, <1>10 DEF ItemInHand, ControlTypeOK, Reject, Return, Goto, Take, LoopTypeOK, loop,
     control
<1>11. ASSUME NEW a \in Attempt, Write(a) PROVE items'[b] # <<>>
  BY <1>0, <1>11 DEF ItemInHand, ControlTypeOK, Write, Return, Goto, LoopTypeOK, loop, control
<1>12. ASSUME NEW a \in Attempt, RecordHeartbeat(a) PROVE items'[b] # <<>>
  BY <1>0, <1>12 DEF ItemInHand, ControlTypeOK, RecordHeartbeat, Goto, loop, control
<1>13. ASSUME NEW a \in Attempt, CheckHeartbeat(a) PROVE items'[b] # <<>>
  BY <1>0, <1>13 DEF ItemInHand, ControlTypeOK, CheckHeartbeat, Return, Goto, loop, control
<1>14. ASSUME NEW a \in Attempt, Close(a) PROVE items'[b] # <<>>
  BY <1>0, <1>14 DEF ItemInHand, ControlTypeOK, Close, Goto, loop, control
<1>15. ASSUME NEW a \in Attempt, Respond(a) PROVE items'[b] # <<>>
  BY <1>0, <1>15 DEF ItemInHand, ControlTypeOK, Respond, Goto, loop, control
<1>16. ASSUME NEW a \in Attempt, Fail(a) PROVE items'[b] # <<>>
  BY <1>0, <1>16 DEF ItemInHand, ControlTypeOK, Fail, Return, Goto, loop, control
<1>17. ASSUME NEW a \in Attempt, WriteFails(a) PROVE items'[b] # <<>>
  BY <1>0, <1>17 DEF ItemInHand, ControlTypeOK, WriteFails, Return, Goto, loop, control
<1>18. ASSUME NEW a \in Attempt, DeliverHeartbeat(a) PROVE items'[b] # <<>>
  BY <1>0, <1>18 DEF ItemInHand, ControlTypeOK, DeliverHeartbeat, loop, control
<1>19. ASSUME NEW a \in Attempt, ContextLost(a) PROVE items'[b] # <<>>
  BY <1>0, <1>19 DEF ItemInHand, ControlTypeOK, ContextLost, loop, control
<1>20. CASE LossDetected
  BY <1>1, <1>20 DEF LossDetected, control
<1>21. CASE FalseTimeout
  BY <1>1, <1>21 DEF FalseTimeout, control
<1>22. CASE Cancel
  BY <1>1, <1>22 DEF Cancel, control
<1>23. CASE Crash
  BY <1>0, <1>23 DEF ItemInHand, ControlTypeOK, Crash
<1>24. CASE UNCHANGED vars
  BY <1>1, <1>24 DEF vars, control
<1>25. QED
  BY <1>2, <1>3, <1>4, <1>5, <1>6, <1>7, <1>8, <1>9, <1>10, <1>11, <1>12, <1>13, <1>14, <1>15,
     <1>16, <1>17, <1>18, <1>19, <1>20, <1>21, <1>22, <1>23, <1>24 DEF Next, Step

(* The variables hold values of their types, and processing always has an item   *)
(* to process, in every configuration.                                           *)
THEOREM TypeCorrect == Spec => [](TypeOK /\ ItemInHand)
BY TypeInit, TypeStep, ItemInHandStep, PTL DEF Spec

-------------------------------------------------------------------------------
(* Num over prefixes.                                                            *)
(* No item is counted over the empty prefix.                                    *)
LEMMA NumZero ==
  ASSUME NEW f, NEW k
  PROVE  Num(f, k, 0) = 0
<1>1. {i \in 1..0 : f[i] = k} = {}
  OBVIOUS
<1>2. QED
  BY <1>1, FS_EmptySet DEF Num

(* Counting one item more adds one for an item of the kind counted and nothing  *)
(* else.                                                                        *)
LEMMA NumNext ==
  ASSUME NEW f, NEW k, NEW p \in Nat
  PROVE  /\ Num(f, k, p) \in Nat
         /\ f[p + 1] = k => Num(f, k, p + 1) = Num(f, k, p) + 1
         /\ f[p + 1] # k => Num(f, k, p + 1) = Num(f, k, p)
<1> DEFINE S(q) == {i \in 1..q : f[i] = k}
<1>1. IsFiniteSet(S(p)) /\ Cardinality(S(p)) \in Nat
  <2>1. IsFiniteSet(1..p)
    BY FS_Interval
  <2>2. S(p) \subseteq 1..p
    OBVIOUS
  <2>3. IsFiniteSet(S(p))
    BY <2>1, <2>2, FS_Subset
  <2>4. QED
    BY <2>3, FS_CardinalityType
<1>2. ASSUME f[p + 1] = k
      PROVE  Cardinality(S(p + 1)) = Cardinality(S(p)) + 1
  <2>1. S(p + 1) = S(p) \cup {p + 1}
    BY <1>2
  <2>2. p + 1 \notin S(p)
    OBVIOUS
  <2>3. QED
    BY <1>1, <2>1, <2>2, FS_AddElement
<1>3. f[p + 1] # k => S(p + 1) = S(p)
  OBVIOUS
<1>4. Num(f, k, p) = Cardinality(S(p)) /\ Num(f, k, p + 1) = Cardinality(S(p + 1))
  BY DEF Num
<1> HIDE DEF S
<1>5. f[p + 1] # k => Num(f, k, p + 1) = Num(f, k, p)
  BY <1>3, <1>4
<1>6. f[p + 1] = k => Num(f, k, p + 1) = Num(f, k, p) + 1
  BY <1>2, <1>4
<1>7. Num(f, k, p) \in Nat
  BY <1>1, <1>4
<1>8. QED
  BY <1>5, <1>6, <1>7

(* What a chunk or a buffer of items contains after an item is appended or      *)
(* taken.                                                                       *)
LEMMA SequenceFacts ==
  ASSUME NEW s \in Seq(Item), NEW i \in Item
  PROVE  /\ Elems(<<>>) = {}
         /\ Elems(Append(s, i)) = Elems(s) \cup {i}
         /\ Len(Append(s, i)) = Len(s) + 1
         /\ s # <<>> => /\ Len(s) \in Nat \ {0}
                        /\ Head(s) = s[1]
                        /\ \A j \in 1..Len(Tail(s)) : Tail(s)[j] = s[j + 1]
         /\ Len(s) <= 1 /\ s # <<>> => Tail(s) = <<>>
         /\ Len(s) = 0 <=> s = <<>>
<1>1. Elems(Append(s, i)) = Elems(s) \cup {i}
  <2>1. /\ Len(Append(s, i)) = Len(s) + 1 /\ Len(s) \in Nat
        /\ \A j \in 1..Len(s) : Append(s, i)[j] = s[j]
        /\ Append(s, i)[Len(s) + 1] = i
    OBVIOUS
  <2>2. Elems(Append(s, i)) = {Append(s, i)[j] : j \in 1..(Len(s) + 1)}
    BY <2>1 DEF Elems
  <2>3. 1..(Len(s) + 1) = (1..Len(s)) \cup {Len(s) + 1}
    BY <2>1
  <2>4. QED
    BY <2>1, <2>2, <2>3 DEF Elems
<1>2. Elems(<<>>) = {}
  BY DEF Elems
<1>3. s # <<>> => /\ Len(s) \in Nat \ {0}
                  /\ Head(s) = s[1]
                  /\ \A j \in 1..Len(Tail(s)) : Tail(s)[j] = s[j + 1]
  OBVIOUS
<1>4. Len(s) <= 1 /\ s # <<>> => Tail(s) = <<>>
  OBVIOUS
<1>5. QED
  BY <1>1, <1>2, <1>3, <1>4

(* An empty chunk has no items.                                                 *)
LEMMA SequenceFacts0 == Len(<<>>) = 0 /\ Elems(<<>>) = {}
BY DEF Elems

(* Everything the loop invariant of attempt b reads stays, or the store grows.   *)
SameLocals(b) ==
  /\ items'[b] = items[b] /\ chunk'[b] = chunk[b] /\ pos'[b] = pos[b]
  /\ processed'[b] = processed[b] /\ filtered'[b] = filtered[b] /\ skipped'[b] = skipped[b]
  /\ kind' = kind /\ sink \subseteq sink'

Untouched(b) == SameLocals(b) /\ pc'[b] = pc[b] /\ out'[b] = out[b]

(* A step that leaves the locals of an attempt alone keeps its loop invariant.  *)
LEMMA LoopFrame ==
  ASSUME NEW b \in Attempt, LoopInv(b), SameLocals(b), out'[b] # "err" => out[b] # "err"
  PROVE  LoopInv(b)'
BY DEF LoopInv, SameLocals, Consumed

(* A step that leaves an attempt untouched keeps what its control point says.   *)
LEMMA ControlFrame ==
  ASSUME NEW b \in Attempt, ControlInv(b), Untouched(b)
  PROVE  ControlInv(b)'
BY DEF ControlInv, Untouched, SameLocals

(* A sound checkpoint stays sound: the data is fixed and the store only grows.  *)
LEMMA SoundFrame ==
  ASSUME NEW p, Sound(p), kind' = kind, sink \subseteq sink'
  PROVE  Sound(p)'
BY DEF Sound

(* Taking an item advances the consumed prefix by exactly that item (engine.go  *)
(* 75-78).                                                                      *)
LEMMA TakeAdvances ==
  ASSUME ~Shared, TypeOK, ItemInHand, NEW a \in Attempt, Take(a), LoopInv(a), out[a] # "err"
  PROVE  \E c \in 0..N :
           /\ c = Consumed(a) /\ c + 1 \in 1..N
           /\ Head(items[a]) = c + 1
           /\ Consumed(a)' = c + 1
           /\ \A j \in 1..Len(items'[a]) : items'[a][j] = c + 1 + j
<1>1. items[a] \in Seq(Item) /\ items[a] # <<>> /\ pos[a] \in 0..N
  BY DEF Take, ItemInHand, TypeOK, LoopTypeOK
<1>2. items'[a] = Tail(items[a]) /\ pos'[a] = pos[a]
  BY DEF Take, TypeOK, LoopTypeOK
<1>3. /\ Len(items[a]) \in Nat \ {0} /\ Head(items[a]) = items[a][1] /\ Head(items[a]) \in Item
      /\ Len(Tail(items[a])) = Len(items[a]) - 1
      /\ \A j \in 1..Len(Tail(items[a])) : Tail(items[a])[j] = items[a][j + 1]
  BY <1>1, SequenceFacts, ItemSequences
<1>4. Consumed(a)' = Consumed(a) + 1
  BY <1>1, <1>2, <1>3, ChunkEngineAssumption DEF Consumed
<1>5. PICK c \in 0..N : /\ c = Consumed(a)
                        /\ \A j \in 1..Len(items[a]) : items[a][j] = c + j
  BY DEF LoopInv
<1>6. Head(items[a]) = c + 1
  BY <1>3, <1>5
<1>7. c + 1 \in 1..N
  BY <1>3, <1>6 DEF Item
<1>8. ASSUME NEW j \in 1..Len(items'[a]) PROVE items'[a][j] = c + 1 + j
  <2>1. j \in 1..Len(Tail(items[a])) /\ j + 1 \in 1..Len(items[a])
    BY <1>2, <1>3, <1>8
  <2>2. items'[a][j] = items[a][j + 1]
    BY <1>2, <1>3, <2>1
  <2>3. items[a][j + 1] = c + (j + 1)
    BY <1>5, <2>1
  <2>4. QED
    BY <2>1, <2>2, <2>3, ChunkEngineAssumption
<1>9. QED
  BY <1>4, <1>5, <1>6, <1>7, <1>8

(* A restartable reader that reads one item at a time has none buffered after   *)
(* it is taken: SaveState then is the consumed position (types.go 57-72).       *)
LEMMA TakeEmpties ==
  ASSUME TypeOK, ItemInHand, NEW a \in Attempt, Take(a), ControlInv(a)
  PROVE  Restartable => items'[a] = <<>> /\ Len(items'[a]) <= 1
<1>1. items[a] \in Seq(Item) /\ items[a] # <<>> /\ items'[a] = Tail(items[a])
  BY DEF Take, ItemInHand, TypeOK, LoopTypeOK
<1>2. Restartable => Len(items[a]) <= 1
  BY DEF ControlInv
<1>3. QED
  BY <1>1, <1>2

(* Control and loop invariant of every attempt, step by step.                    *)
LEMMA AttemptStep ==
  ASSUME SafeConfig, TypeOK, ItemInHand, ServerInv, CheckpointSound, [Next]_vars,
         NEW b \in Attempt, ControlInv(b), LoopInv(b)
  PROVE  ControlInv(b)' /\ LoopInv(b)'
<1>0. /\ ControlTypeOK /\ LoopTypeOK /\ ServerTypeOK /\ SdkTypeOK
      /\ ~Shared /\ (Restartable => ReadSize = 1)
      /\ ControlInv(b) /\ LoopInv(b)
  BY DEF TypeOK, SafeConfig
<1>00. Untouched(b) => ControlInv(b)' /\ LoopInv(b)'
  BY LoopFrame, ControlFrame DEF Untouched
<1>1. ASSUME NEW a \in Attempt, Poll(a) PROVE ControlInv(b)' /\ LoopInv(b)'
  <2>1. CASE b # a
    BY <1>0, <1>00, <1>1, <2>1 DEF Untouched, SameLocals, ControlTypeOK, LoopTypeOK, Poll,
       Goto, loop, cnts
  <2>2. CASE b = a
    <3>0. pc[b] = "idle" /\ out[b] = "none"
      BY <1>0, <1>1, <2>2 DEF Poll, ServerInv, ControlInv, ControlTypeOK, ServerTypeOK
    <3>1. SameLocals(b) /\ (out'[b] # "err" => out[b] # "err")
      BY <1>0, <1>1, <2>2 DEF SameLocals, ControlTypeOK, LoopTypeOK, Poll, Goto, loop, cnts
    <3>2. ControlInv(b)'
      BY <1>0, <1>1, <2>2, <3>0, <3>1 DEF ControlInv, SameLocals, ControlTypeOK, LoopTypeOK,
         Poll, Goto
    <3>3. QED
      BY <3>1, <3>2, LoopFrame
  <2>3. QED
    BY <2>1, <2>2
<1>2. ASSUME NEW a \in Attempt, Resume(a) PROVE ControlInv(b)' /\ LoopInv(b)'
  <2>1. CASE b # a
    BY <1>0, <1>00, <1>2, <2>1 DEF Untouched, SameLocals, ControlTypeOK, LoopTypeOK, Resume,
       Goto, Inst, loop, cnts
  <2>2. CASE b = a
    <3>1. /\ items[b] = <<>> /\ chunk[b] = <<>> /\ pos[b] = 0 /\ out[b] = "none"
          /\ processed[b] = 0 /\ filtered[b] = 0 /\ skipped[b] = 0
      BY <1>0, <1>2, <2>2 DEF ControlInv, Resume, ControlTypeOK, LoopTypeOK
    <3>2. /\ items'[b] = <<>> /\ chunk'[b] = <<>> /\ out'[b] = "none" /\ pc'[b] = "top"
          /\ kind' = kind /\ sink' = sink
      BY <1>0, <1>2, <2>2, <3>1 DEF Resume, Goto, ControlTypeOK, LoopTypeOK
    <3>3. ControlInv(b)'
      BY <3>2, SequenceFacts0 DEF ControlInv
    <3>4. /\ pos'[b] \in 0..N
          /\ processed'[b] = Num(kind, "ok", pos'[b])
          /\ filtered'[b] = Num(kind, "nil", pos'[b])
          /\ skipped'[b] = Num(kind, "bad", pos'[b])
          /\ \A i \in 1..pos'[b] : kind[i] = "ok" => i \in sink
      <4>1. CASE given[b] # None /\ Restartable
        <5>1. /\ pos'[b] = given[b].offset /\ processed'[b] = given[b].processed
              /\ filtered'[b] = given[b].filtered /\ skipped'[b] = given[b].skipped
          BY <1>0, <1>2, <2>2, <4>1 DEF Resume, Inst, LoopTypeOK
        <5>2. given[b].offset \in 0..N
          BY <1>0, <4>1 DEF SdkTypeOK, ChunkProgress
        <5>3. Sound(given[b])
          BY DEF CheckpointSound
        <5>4. QED
          BY <4>1, <5>1, <5>2, <5>3 DEF Sound
      <4>2. CASE ~(given[b] # None /\ Restartable)
        <5>1. pos'[b] = 0 /\ processed'[b] = 0 /\ filtered'[b] = 0 /\ skipped'[b] = 0
          BY <1>2, <2>2, <3>1, <4>2 DEF Resume, cnts
        <5>2. QED
          BY <5>1, NumZero, ChunkEngineAssumption
      <4>3. QED
        BY <4>1, <4>2
    <3>41. Consumed(b)' = pos'[b] /\ Len(chunk'[b]) = 0 /\ Len(items'[b]) = 0
      BY <3>2, <3>4, ChunkEngineAssumption DEF Consumed
    <3>42. Num(kind, "ok", pos'[b]) \in Nat
      BY <3>4, NumNext, ChunkEngineAssumption
    <3>5. LoopInv(b)'
      BY <3>2, <3>4, <3>41, <3>42 DEF LoopInv
    <3>6. QED
      BY <3>3, <3>5
  <2>3. QED
    BY <2>1, <2>2
<1>3. ASSUME NEW a \in Attempt, CheckAlive(a) PROVE ControlInv(b)' /\ LoopInv(b)'
  <2>1. CASE b # a
    BY <1>0, <1>00, <1>3, <2>1 DEF Untouched, SameLocals, ControlTypeOK, LoopTypeOK,
       CheckAlive, Return, Goto, loop, cnts
  <2>2. CASE b = a
    <3>1. SameLocals(b) /\ (out'[b] # "err" => out[b] # "err")
      BY <1>0, <1>3, <2>2 DEF SameLocals, ControlTypeOK, LoopTypeOK, CheckAlive, Return, Goto,
         loop, cnts
    <3>2. ControlInv(b)'
      BY <1>0, <1>3, <2>2, <3>1 DEF ControlInv, SameLocals, ControlTypeOK, LoopTypeOK,
         CheckAlive, Return, Goto
    <3>3. QED
      BY <3>1, <3>2, LoopFrame
  <2>3. QED
    BY <2>1, <2>2
<1>4. ASSUME NEW a \in Attempt, Read(a) PROVE ControlInv(b)' /\ LoopInv(b)'
  <2>1. CASE b # a
    BY <1>0, <1>00, <1>4, <2>1 DEF Untouched, SameLocals, ControlTypeOK, LoopTypeOK, Read,
       Goto, Inst, loop, cnts
  <2>2. CASE b = a
    <3>1. PICK k \in 1..ReadSize :
            /\ pos[b] + k <= N
            /\ items' = [items EXCEPT ![b] = [j \in 1..k |-> pos[b] + j]]
            /\ pos' = [pos EXCEPT ![b] = pos[b] + k]
      BY <1>0, <1>4, <2>2 DEF Read, Inst
    <3>2. /\ items[b] = <<>> /\ out[b] = "none" /\ out'[b] = "none" /\ pc'[b] = "process"
          /\ chunk' = chunk /\ processed' = processed /\ filtered' = filtered
          /\ skipped' = skipped /\ kind' = kind /\ sink' = sink
      BY <1>0, <1>4, <2>2 DEF Read, Goto, ControlInv, ControlTypeOK, cnts
    <3>3. pos[b] \in 0..N /\ k \in Nat \ {0} /\ N \in Nat
      BY <1>0, ChunkEngineAssumption DEF LoopTypeOK
    <3>4. items'[b] = [j \in 1..k |-> pos[b] + j] /\ pos'[b] = pos[b] + k /\ Len(items'[b]) = k
      BY <1>0, <3>1, <3>3 DEF LoopTypeOK
    <3>5. ControlInv(b)'
      BY <1>0, <3>2, <3>4, ChunkEngineAssumption DEF ControlInv
    <3>6. Consumed(b) = pos[b] /\ Consumed(b)' = Consumed(b)
      BY <3>2, <3>3, <3>4 DEF Consumed
    <3>7. \A j \in 1..Len(items'[b]) : items'[b][j] = Consumed(b)' + j
      BY <3>4, <3>6
    <3>8. LoopInv(b)'
      BY <1>0, <3>2, <3>6, <3>7 DEF LoopInv
    <3>9. QED
      BY <3>5, <3>8
  <2>3. QED
    BY <2>1, <2>2
<1>5. ASSUME NEW a \in Attempt, EndOfData(a) PROVE ControlInv(b)' /\ LoopInv(b)'
  <2>1. CASE b # a
    BY <1>0, <1>00, <1>5, <2>1 DEF Untouched, SameLocals, ControlTypeOK, LoopTypeOK,
       EndOfData, Return, Goto, Inst, loop, cnts
  <2>2. CASE b = a
    <3>0. out[b] = "none"
      BY <1>0, <1>5, <2>2 DEF EndOfData, ControlInv, ControlTypeOK
    <3>1. SameLocals(b) /\ (out'[b] # "err" => out[b] # "err")
      BY <1>0, <1>5, <2>2, <3>0 DEF SameLocals, ControlTypeOK, LoopTypeOK, EndOfData, Return,
         Goto, Inst, loop, cnts
    <3>2. ControlInv(b)'
      BY <1>0, <1>5, <2>2, <3>1 DEF ControlInv, SameLocals, ControlTypeOK, LoopTypeOK,
         EndOfData, Return, Goto, Inst
    <3>3. QED
      BY <3>1, <3>2, LoopFrame
  <2>3. QED
    BY <2>1, <2>2
<1>6. ASSUME NEW a \in Attempt, Keep(a) PROVE ControlInv(b)' /\ LoopInv(b)'
  <2>1. CASE b # a
    BY <1>0, <1>00, <1>6, <2>1 DEF Untouched, SameLocals, ControlTypeOK, LoopTypeOK, Keep,
       Goto, Take, loop, cnts
  <2>2. CASE b = a
    <3>1. Take(b) /\ out[b] = "none" /\ out'[b] = "none" /\ kind' = kind /\ sink' = sink
      BY <1>0, <1>6, <2>2 DEF Keep, Take, ControlInv, ControlTypeOK
    <3>2. PICK c \in 0..N : /\ c = Consumed(b) /\ c + 1 \in 1..N
                          /\ Head(items[b]) = c + 1
                          /\ Consumed(b)' = c + 1
                          /\ \A j \in 1..Len(items'[b]) : items'[b][j] = c + 1 + j
      BY <1>0, <3>1, TakeAdvances
    <3>3. kind[c + 1] = "ok" /\ filtered' = filtered /\ skipped' = skipped /\ processed' = processed
      BY <1>6, <2>2, <3>2 DEF Keep, cnts
    <3>4. chunk'[b] = Append(chunk[b], c + 1)
      BY <1>0, <1>6, <2>2, <3>2 DEF Keep, LoopTypeOK
    <3>5. ControlInv(b)'
      BY <1>0, <1>6, <2>2, <3>1, TakeEmpties DEF Keep, Goto, ControlInv, ControlTypeOK
    <3>6. c \in Nat /\ N \in Nat
      BY <3>2, ChunkEngineAssumption
    <3>7. /\ Num(kind, "ok", c) \in Nat /\ Num(kind, "nil", c) \in Nat /\ Num(kind, "bad", c) \in Nat
          /\ Num(kind, "ok", c + 1) = Num(kind, "ok", c) + 1
          /\ Num(kind, "nil", c + 1) = Num(kind, "nil", c) + 0
          /\ Num(kind, "bad", c + 1) = Num(kind, "bad", c) + 0
      BY <3>3, <3>6, NumNext
    <3>70. /\ processed[b] + Len(chunk[b]) = Num(kind, "ok", c)
           /\ filtered[b] = Num(kind, "nil", c) /\ skipped[b] = Num(kind, "bad", c)
           /\ \A i \in 1..c : kind[i] = "ok" => i \in sink \cup Elems(chunk[b])
      BY <1>0, <3>1, <3>2 DEF LoopInv
    <3>8. /\ Elems(chunk'[b]) = Elems(chunk[b]) \cup {c + 1}
          /\ Len(chunk'[b]) = Len(chunk[b]) + 1 /\ Len(chunk[b]) \in Nat
      <4>1. chunk[b] \in Seq(Item) /\ c + 1 \in Item
        BY <1>0, <3>2 DEF LoopTypeOK, Item
      <4>2. QED
        BY <3>4, <4>1, SequenceFacts, ItemSequences
    <3>9. /\ processed'[b] + Len(chunk'[b]) = Num(kind, "ok", c + 1)
          /\ filtered'[b] = Num(kind, "nil", c + 1)
          /\ skipped'[b] = Num(kind, "bad", c + 1)
      <4>1. processed[b] \in Nat /\ processed'[b] = processed[b]
        BY <1>0, <3>3 DEF LoopTypeOK
      <4>2. processed[b] + (Len(chunk[b]) + 1) = Num(kind, "ok", c) + 1
        BY <3>7, <3>70, <3>8, <4>1
      <4>3. QED
        BY <3>3, <3>7, <3>70, <3>8, <4>1, <4>2
    <3>10. ASSUME NEW i \in 1..(c + 1), kind[i] = "ok" PROVE i \in sink \cup Elems(chunk'[b])
      <4>1. CASE i = c + 1
        BY <3>8, <4>1
      <4>2. CASE i # c + 1
        <5>1. i \in 1..c
          BY <3>6, <4>2
        <5>2. QED
          BY <3>8, <3>10, <3>70, <5>1
      <4>3. QED
        BY <4>1, <4>2
    <3>11. LoopInv(b)'
      BY <3>1, <3>2, <3>6, <3>9, <3>10 DEF LoopInv
    <3>12. QED
      BY <3>5, <3>11
  <2>3. QED
    BY <2>1, <2>2
<1>7. ASSUME NEW a \in Attempt, Filter(a) PROVE ControlInv(b)' /\ LoopInv(b)'
  <2>1. CASE b # a
    BY <1>0, <1>00, <1>7, <2>1 DEF Untouched, SameLocals, ControlTypeOK, LoopTypeOK, Filter,
       Goto, Take, loop, cnts
  <2>2. CASE b = a
    <3>1. Take(b) /\ out[b] = "none" /\ out'[b] = "none" /\ kind' = kind /\ sink' = sink
      BY <1>0, <1>7, <2>2 DEF Filter, Take, ControlInv, ControlTypeOK
    <3>2. PICK c \in 0..N : /\ c = Consumed(b) /\ c + 1 \in 1..N
                          /\ Head(items[b]) = c + 1
                          /\ Consumed(b)' = c + 1
                          /\ \A j \in 1..Len(items'[b]) : items'[b][j] = c + 1 + j
      BY <1>0, <3>1, TakeAdvances
    <3>3. kind[c + 1] = "nil" /\ chunk' = chunk /\ processed' = processed /\ skipped' = skipped
      BY <1>7, <2>2, <3>2 DEF Filter, cnts
    <3>4. filtered'[b] = filtered[b] + 1
      BY <1>0, <1>7, <2>2, <3>2 DEF Filter, LoopTypeOK
    <3>5. ControlInv(b)'
      BY <1>0, <1>7, <2>2, <3>1, TakeEmpties DEF Filter, Goto, ControlInv, ControlTypeOK
    <3>6. c \in Nat /\ N \in Nat
      BY <3>2, ChunkEngineAssumption
    <3>7. /\ Num(kind, "ok", c) \in Nat /\ Num(kind, "nil", c) \in Nat /\ Num(kind, "bad", c) \in Nat
          /\ Num(kind, "ok", c + 1) = Num(kind, "ok", c) + 0
          /\ Num(kind, "nil", c + 1) = Num(kind, "nil", c) + 1
          /\ Num(kind, "bad", c + 1) = Num(kind, "bad", c) + 0
      BY <3>3, <3>6, NumNext
    <3>70. /\ processed[b] + Len(chunk[b]) = Num(kind, "ok", c)
           /\ filtered[b] = Num(kind, "nil", c) /\ skipped[b] = Num(kind, "bad", c)
           /\ \A i \in 1..c : kind[i] = "ok" => i \in sink \cup Elems(chunk[b])
      BY <1>0, <3>1, <3>2 DEF LoopInv
    <3>8. /\ processed'[b] + Len(chunk'[b]) = Num(kind, "ok", c + 1)
          /\ filtered'[b] = Num(kind, "nil", c + 1)
          /\ skipped'[b] = Num(kind, "bad", c + 1)
      BY <3>3, <3>4, <3>7, <3>70
    <3>9. \A i \in 1..(c + 1) : kind[i] = "ok" => i \in sink \cup Elems(chunk'[b])
      BY <3>1, <3>3, <3>6, <3>70
    <3>10. LoopInv(b)'
      BY <3>1, <3>2, <3>6, <3>8, <3>9 DEF LoopInv
    <3>11. QED
      BY <3>5, <3>10
  <2>3. QED
    BY <2>1, <2>2
<1>8. ASSUME NEW a \in Attempt, Skip(a) PROVE ControlInv(b)' /\ LoopInv(b)'
  <2>1. CASE b # a
    BY <1>0, <1>00, <1>8, <2>1 DEF Untouched, SameLocals, ControlTypeOK, LoopTypeOK, Skip,
       Goto, Take, loop, cnts
  <2>2. CASE b = a
    <3>1. Take(b) /\ out[b] = "none" /\ out'[b] = "none" /\ kind' = kind /\ sink' = sink
      BY <1>0, <1>8, <2>2 DEF Skip, Take, ControlInv, ControlTypeOK
    <3>2. PICK c \in 0..N : /\ c = Consumed(b) /\ c + 1 \in 1..N
                          /\ Head(items[b]) = c + 1
                          /\ Consumed(b)' = c + 1
                          /\ \A j \in 1..Len(items'[b]) : items'[b][j] = c + 1 + j
      BY <1>0, <3>1, TakeAdvances
    <3>3. kind[c + 1] = "bad" /\ chunk' = chunk /\ processed' = processed /\ filtered' = filtered
      BY <1>8, <2>2, <3>2 DEF Skip, cnts
    <3>4. skipped'[b] = skipped[b] + 1
      BY <1>0, <1>8, <2>2, <3>2 DEF Skip, LoopTypeOK
    <3>5. ControlInv(b)'
      BY <1>0, <1>8, <2>2, <3>1, TakeEmpties DEF Skip, Goto, ControlInv, ControlTypeOK
    <3>6. c \in Nat /\ N \in Nat
      BY <3>2, ChunkEngineAssumption
    <3>7. /\ Num(kind, "ok", c) \in Nat /\ Num(kind, "nil", c) \in Nat /\ Num(kind, "bad", c) \in Nat
          /\ Num(kind, "ok", c + 1) = Num(kind, "ok", c) + 0
          /\ Num(kind, "nil", c + 1) = Num(kind, "nil", c) + 0
          /\ Num(kind, "bad", c + 1) = Num(kind, "bad", c) + 1
      BY <3>3, <3>6, NumNext
    <3>70. /\ processed[b] + Len(chunk[b]) = Num(kind, "ok", c)
           /\ filtered[b] = Num(kind, "nil", c) /\ skipped[b] = Num(kind, "bad", c)
           /\ \A i \in 1..c : kind[i] = "ok" => i \in sink \cup Elems(chunk[b])
      BY <1>0, <3>1, <3>2 DEF LoopInv
    <3>8. /\ processed'[b] + Len(chunk'[b]) = Num(kind, "ok", c + 1)
          /\ filtered'[b] = Num(kind, "nil", c + 1)
          /\ skipped'[b] = Num(kind, "bad", c + 1)
      BY <3>3, <3>4, <3>7, <3>70
    <3>9. \A i \in 1..(c + 1) : kind[i] = "ok" => i \in sink \cup Elems(chunk'[b])
      BY <3>1, <3>3, <3>6, <3>70
    <3>10. LoopInv(b)'
      BY <3>1, <3>2, <3>6, <3>8, <3>9 DEF LoopInv
    <3>11. QED
      BY <3>5, <3>10
  <2>3. QED
    BY <2>1, <2>2
<1>9. ASSUME NEW a \in Attempt, Reject(a) PROVE ControlInv(b)' /\ LoopInv(b)'
  <2>1. CASE b # a
    BY <1>0, <1>00, <1>9, <2>1 DEF Untouched, SameLocals, ControlTypeOK, LoopTypeOK, Reject,
       Return, Goto, Take, loop, cnts
  <2>2. CASE b = a
    <3>1. out'[b] = "err" /\ pc'[b] = "close" /\ Take(b)
      BY <1>0, <1>9, <2>2 DEF Reject, Return, Goto, ControlTypeOK
    <3>2. ControlInv(b)'
      BY <1>0, <3>1, TakeEmpties DEF ControlInv
    <3>3. QED
      BY <3>1, <3>2 DEF LoopInv
  <2>3. QED
    BY <2>1, <2>2
<1>10. ASSUME NEW a \in Attempt, Write(a) PROVE ControlInv(b)' /\ LoopInv(b)'
  <2>1. CASE b # a
    BY <1>0, <1>00, <1>10, <2>1 DEF Untouched, SameLocals, ControlTypeOK, LoopTypeOK, Write,
       Return, Goto, loop, cnts
  <2>2. CASE b = a
    <3>1. /\ out[b] = "none" /\ kind' = kind /\ items' = items /\ pos' = pos
          /\ filtered' = filtered /\ skipped' = skipped
          /\ sink' = sink \cup Elems(chunk[b])
      BY <1>0, <1>10, <2>2 DEF Write, ControlInv, ControlTypeOK
    <3>2. chunk'[b] = <<>> /\ processed'[b] = processed[b] + Len(chunk[b])
      BY <1>0, <1>10, <2>2 DEF Write, LoopTypeOK
    <3>3. ControlInv(b)'
      BY <1>0, <1>10, <2>2, <3>1, <3>2 DEF Write, Return, Goto, ControlInv, ControlTypeOK
    <3>4. Consumed(b)' = Consumed(b)
      BY <3>1 DEF Consumed
    <3>5. processed'[b] + Len(chunk'[b]) = processed[b] + Len(chunk[b])
      <4>1. Len(chunk[b]) \in Nat /\ processed[b] \in Nat
        BY <1>0, ItemSequences DEF LoopTypeOK
      <4>2. QED
        BY <3>2, <4>1
    <3>6. LoopInv(b)'
      BY <1>0, <3>1, <3>2, <3>4, <3>5 DEF LoopInv
    <3>7. QED
      BY <3>3, <3>6
  <2>3. QED
    BY <2>1, <2>2
<1>11. ASSUME NEW a \in Attempt, RecordHeartbeat(a) PROVE ControlInv(b)' /\ LoopInv(b)'
  <2>1. CASE b # a
    BY <1>0, <1>00, <1>11, <2>1 DEF Untouched, SameLocals, ControlTypeOK, LoopTypeOK,
       RecordHeartbeat, Goto, loop, cnts
  <2>2. CASE b = a
    <3>1. SameLocals(b) /\ (out'[b] # "err" => out[b] # "err")
      BY <1>0, <1>11, <2>2 DEF SameLocals, ControlTypeOK, LoopTypeOK, RecordHeartbeat, Goto,
         loop, cnts
    <3>2. ControlInv(b)'
      BY <1>0, <1>11, <2>2, <3>1 DEF ControlInv, SameLocals, ControlTypeOK, LoopTypeOK,
         RecordHeartbeat, Goto
    <3>3. QED
      BY <3>1, <3>2, LoopFrame
  <2>3. QED
    BY <2>1, <2>2
<1>12. ASSUME NEW a \in Attempt, CheckHeartbeat(a) PROVE ControlInv(b)' /\ LoopInv(b)'
  <2>1. CASE b # a
    BY <1>0, <1>00, <1>12, <2>1 DEF Untouched, SameLocals, ControlTypeOK, LoopTypeOK,
       CheckHeartbeat, Return, Goto, loop, cnts
  <2>2. CASE b = a
    <3>1. SameLocals(b) /\ (out'[b] # "err" => out[b] # "err")
      BY <1>0, <1>12, <2>2 DEF SameLocals, ControlTypeOK, LoopTypeOK, CheckHeartbeat, Return,
         Goto, loop, cnts
    <3>2. ControlInv(b)'
      BY <1>0, <1>12, <2>2, <3>1 DEF ControlInv, SameLocals, ControlTypeOK, LoopTypeOK,
         CheckHeartbeat, Return, Goto
    <3>3. QED
      BY <3>1, <3>2, LoopFrame
  <2>3. QED
    BY <2>1, <2>2
<1>13. ASSUME NEW a \in Attempt, Close(a) PROVE ControlInv(b)' /\ LoopInv(b)'
  <2>1. CASE b # a
    BY <1>0, <1>00, <1>13, <2>1 DEF Untouched, SameLocals, ControlTypeOK, LoopTypeOK, Close,
       Goto, loop, cnts
  <2>2. CASE b = a
    <3>1. SameLocals(b) /\ (out'[b] # "err" => out[b] # "err")
      BY <1>0, <1>13, <2>2 DEF SameLocals, ControlTypeOK, LoopTypeOK, Close, Goto, loop, cnts
    <3>2. ControlInv(b)'
      BY <1>0, <1>13, <2>2, <3>1 DEF ControlInv, SameLocals, ControlTypeOK, LoopTypeOK, Close,
         Goto
    <3>3. QED
      BY <3>1, <3>2, LoopFrame
  <2>3. QED
    BY <2>1, <2>2
<1>14. ASSUME NEW a \in Attempt, Respond(a) PROVE ControlInv(b)' /\ LoopInv(b)'
  <2>1. CASE b # a
    BY <1>0, <1>00, <1>14, <2>1 DEF Untouched, SameLocals, ControlTypeOK, LoopTypeOK, Respond,
       Goto, loop, cnts
  <2>2. CASE b = a
    <3>1. SameLocals(b) /\ (out'[b] # "err" => out[b] # "err")
      BY <1>0, <1>14, <2>2 DEF SameLocals, ControlTypeOK, LoopTypeOK, Respond, Goto, loop, cnts
    <3>2. ControlInv(b)'
      BY <1>0, <1>14, <2>2, <3>1 DEF ControlInv, SameLocals, ControlTypeOK, LoopTypeOK,
         Respond, Goto
    <3>3. QED
      BY <3>1, <3>2, LoopFrame
  <2>3. QED
    BY <2>1, <2>2
<1>15. ASSUME NEW a \in Attempt, Fail(a) PROVE ControlInv(b)' /\ LoopInv(b)'
  <2>1. CASE b # a
    BY <1>0, <1>00, <1>15, <2>1 DEF Untouched, SameLocals, ControlTypeOK, LoopTypeOK, Fail,
       Return, Goto, loop, cnts
  <2>2. CASE b = a
    <3>1. SameLocals(b) /\ (out'[b] # "err" => out[b] # "err")
      BY <1>0, <1>15, <2>2 DEF SameLocals, ControlTypeOK, LoopTypeOK, Fail, Return, Goto,
         loop, cnts
    <3>2. ControlInv(b)'
      BY <1>0, <1>15, <2>2, <3>1 DEF ControlInv, SameLocals, ControlTypeOK, LoopTypeOK, Fail,
         Return, Goto
    <3>3. QED
      BY <3>1, <3>2, LoopFrame
  <2>3. QED
    BY <2>1, <2>2
<1>16. ASSUME NEW a \in Attempt, WriteFails(a) PROVE ControlInv(b)' /\ LoopInv(b)'
  <2>1. CASE b # a
    BY <1>0, <1>00, <1>16, <2>1 DEF Untouched, SameLocals, ControlTypeOK, LoopTypeOK,
       WriteFails, Return, Goto, loop, cnts
  <2>2. CASE b = a
    <3>1. SameLocals(b) /\ (out'[b] # "err" => out[b] # "err")
      BY <1>0, <1>16, <2>2 DEF SameLocals, ControlTypeOK, LoopTypeOK, WriteFails, Return,
         Goto, loop, cnts
    <3>2. ControlInv(b)'
      BY <1>0, <1>16, <2>2, <3>1 DEF ControlInv, SameLocals, ControlTypeOK, LoopTypeOK,
         WriteFails, Return, Goto
    <3>3. QED
      BY <3>1, <3>2, LoopFrame
  <2>3. QED
    BY <2>1, <2>2
<1>17. ASSUME NEW a \in Attempt, DeliverHeartbeat(a) PROVE ControlInv(b)' /\ LoopInv(b)'
  BY <1>0, <1>00, <1>17 DEF Untouched, SameLocals, DeliverHeartbeat, control, loop, cnts
<1>18. ASSUME NEW a \in Attempt, ContextLost(a) PROVE ControlInv(b)' /\ LoopInv(b)'
  BY <1>0, <1>00, <1>18 DEF Untouched, SameLocals, ContextLost, control, loop, cnts
<1>19. CASE LossDetected
  BY <1>0, <1>00, <1>19 DEF Untouched, SameLocals, LossDetected, control, loop, cnts
<1>20. CASE FalseTimeout
  BY <1>0, <1>00, <1>20 DEF Untouched, SameLocals, FalseTimeout, control, loop, cnts
<1>21. CASE Cancel
  BY <1>0, <1>00, <1>21 DEF Untouched, SameLocals, Cancel, control, loop, cnts
<1>22. CASE Crash
  <2>1. SameLocals(b) /\ out'[b] = out[b] /\ pc'[b] \in {pc[b], "dead"}
    BY <1>0, <1>22 DEF SameLocals, ControlTypeOK, LoopTypeOK, Crash, cnts
  <2>2. ControlInv(b)'
    BY <1>0, <2>1 DEF ControlInv, SameLocals, ControlTypeOK, LoopTypeOK
  <2>3. QED
    BY <1>0, <2>1, <2>2, LoopFrame
<1>23. CASE UNCHANGED vars
  BY <1>0, <1>00, <1>23 DEF Untouched, SameLocals, vars, control, loop, cnts
<1>24. QED
  BY <1>1, <1>2, <1>3, <1>4, <1>5, <1>6, <1>7, <1>8, <1>9, <1>10, <1>11, <1>12, <1>13, <1>14,
     <1>15, <1>16, <1>17, <1>18, <1>19, <1>20, <1>21, <1>22, <1>23 DEF Next, Step

(* Attempts begin in order.                                                      *)
LEMMA ServerStep ==
  ASSUME TypeOK, ServerInv, [Next]_vars
  PROVE  ServerInv'
<1>0. ServerTypeOK /\ ControlTypeOK /\ attempt \in Nat /\ \A a \in Attempt : a \in Nat
  BY DEF TypeOK, ServerTypeOK, Attempt
<1>01. ASSUME UNCHANGED <<status, attempt>>,
              \A b \in Attempt : pc[b] = "idle" => pc'[b] = "idle"
       PROVE  ServerInv'
  BY <1>0, <1>01 DEF ServerInv, ServerTypeOK
<1>02. ASSUME Retry, pc[attempt] # "idle",
              \A b \in Attempt : pc[b] = "idle" => pc'[b] = "idle"
       PROVE  ServerInv'
  BY <1>0, <1>02, Attempts DEF ServerInv, Retry, ServerTypeOK
<1>1. ASSUME NEW a \in Attempt, Poll(a) PROVE ServerInv'
  BY <1>0, <1>1 DEF Poll, Goto, ServerInv, ControlTypeOK, ServerTypeOK
<1>2. ASSUME NEW a \in Attempt, Resume(a) PROVE ServerInv'
  BY <1>0, <1>01, <1>2 DEF Resume, Goto, Inst, control, server, ControlTypeOK
<1>3. ASSUME NEW a \in Attempt, CheckAlive(a) PROVE ServerInv'
  BY <1>0, <1>01, <1>3 DEF CheckAlive, Return, Goto, control, server, ControlTypeOK
<1>4. ASSUME NEW a \in Attempt, Read(a) PROVE ServerInv'
  BY <1>0, <1>01, <1>4 DEF Read, Goto, Inst, control, server, ControlTypeOK
<1>5. ASSUME NEW a \in Attempt, EndOfData(a) PROVE ServerInv'
  BY <1>0, <1>01, <1>5 DEF EndOfData, Return, Goto, Inst, control, server, ControlTypeOK
<1>6. ASSUME NEW a \in Attempt, Keep(a) PROVE ServerInv'
  BY <1>0, <1>01, <1>6 DEF Keep, Goto, Take, control, server, ControlTypeOK
<1>7. ASSUME NEW a \in Attempt, Filter(a) PROVE ServerInv'
  BY <1>0, <1>01, <1>7 DEF Filter, Goto, Take, control, server, ControlTypeOK
<1>8. ASSUME NEW a \in Attempt, Skip(a) PROVE ServerInv'
  BY <1>0, <1>01, <1>8 DEF Skip, Goto, Take, control, server, ControlTypeOK
<1>9. ASSUME NEW a \in Attempt, Reject(a) PROVE ServerInv'
  BY <1>0, <1>01, <1>9 DEF Reject, Return, Goto, Take, control, server, ControlTypeOK
<1>10. ASSUME NEW a \in Attempt, Write(a) PROVE ServerInv'
  BY <1>0, <1>01, <1>10 DEF Write, Return, Goto, control, server, ControlTypeOK
<1>11. ASSUME NEW a \in Attempt, RecordHeartbeat(a) PROVE ServerInv'
  BY <1>0, <1>01, <1>11 DEF RecordHeartbeat, Goto, control, server, ControlTypeOK
<1>12. ASSUME NEW a \in Attempt, CheckHeartbeat(a) PROVE ServerInv'
  BY <1>0, <1>01, <1>12 DEF CheckHeartbeat, Return, Goto, control, server, ControlTypeOK
<1>13. ASSUME NEW a \in Attempt, Close(a) PROVE ServerInv'
  BY <1>0, <1>01, <1>13 DEF Close, Goto, control, server, ControlTypeOK
<1>14. ASSUME NEW a \in Attempt, Respond(a) PROVE ServerInv'
  <2>1. pc[a] = "ret" /\ \A b \in Attempt : pc[b] = "idle" => pc'[b] = "idle"
    BY <1>0, <1>14 DEF Respond, Goto, ControlTypeOK
  <2>2. CASE UNCHANGED server
    BY <1>01, <2>1, <2>2 DEF server
  <2>3. CASE Current(a) /\ Retry
    BY <1>02, <2>1, <2>3 DEF Current
  <2>4. CASE Current(a) /\ status' \in {"completed", "cancelled"} /\ attempt' = attempt
    BY <1>0, <2>1, <2>4 DEF ServerInv
  <2>5. QED
    BY <1>14, <2>2, <2>3, <2>4 DEF Respond
<1>15. ASSUME NEW a \in Attempt, Fail(a) PROVE ServerInv'
  BY <1>0, <1>01, <1>15 DEF Fail, Return, Goto, control, server, ControlTypeOK
<1>16. ASSUME NEW a \in Attempt, WriteFails(a) PROVE ServerInv'
  BY <1>0, <1>01, <1>16 DEF WriteFails, Return, Goto, control, server, ControlTypeOK
<1>17. ASSUME NEW a \in Attempt, DeliverHeartbeat(a) PROVE ServerInv'
  BY <1>0, <1>01, <1>17 DEF DeliverHeartbeat, control, server, ControlTypeOK
<1>18. ASSUME NEW a \in Attempt, ContextLost(a) PROVE ServerInv'
  BY <1>0, <1>01, <1>18 DEF ContextLost, control, server, ControlTypeOK
<1>19. CASE LossDetected
  BY <1>02, <1>19 DEF LossDetected, control
<1>20. CASE FalseTimeout
  BY <1>02, <1>20 DEF FalseTimeout, Live, control
<1>21. CASE Cancel
  BY <1>0, <1>21 DEF Cancel, control, ServerInv, ServerTypeOK
<1>22. CASE Crash
  BY <1>0, <1>01, <1>22 DEF Crash, Live, server
<1>23. CASE UNCHANGED vars
  BY <1>01, <1>23 DEF vars, control, server
<1>24. QED
  BY <1>1, <1>2, <1>3, <1>4, <1>5, <1>6, <1>7, <1>8, <1>9, <1>10, <1>11, <1>12, <1>13, <1>14,
     <1>15, <1>16, <1>17, <1>18, <1>19, <1>20, <1>21, <1>22, <1>23 DEF Next, Step

(* The data is fixed and the store only grows.                                   *)
LEMMA Grows ==
  ASSUME [Next]_vars
  PROVE  kind' = kind /\ sink \subseteq sink'
<1>1. ASSUME NEW a \in Attempt, Poll(a) PROVE kind' = kind /\ sink \subseteq sink'
  BY <1>1 DEF Poll
<1>2. ASSUME NEW a \in Attempt, Resume(a) PROVE kind' = kind /\ sink \subseteq sink'
  BY <1>2 DEF Resume
<1>3. ASSUME NEW a \in Attempt, CheckAlive(a) PROVE kind' = kind /\ sink \subseteq sink'
  BY <1>3 DEF CheckAlive
<1>4. ASSUME NEW a \in Attempt, Read(a) PROVE kind' = kind /\ sink \subseteq sink'
  BY <1>4 DEF Read
<1>5. ASSUME NEW a \in Attempt, EndOfData(a) PROVE kind' = kind /\ sink \subseteq sink'
  BY <1>5 DEF EndOfData
<1>6. ASSUME NEW a \in Attempt, Keep(a) PROVE kind' = kind /\ sink \subseteq sink'
  BY <1>6 DEF Keep, Take
<1>7. ASSUME NEW a \in Attempt, Filter(a) PROVE kind' = kind /\ sink \subseteq sink'
  BY <1>7 DEF Filter, Take
<1>8. ASSUME NEW a \in Attempt, Skip(a) PROVE kind' = kind /\ sink \subseteq sink'
  BY <1>8 DEF Skip, Take
<1>9. ASSUME NEW a \in Attempt, Reject(a) PROVE kind' = kind /\ sink \subseteq sink'
  BY <1>9 DEF Reject, Take
<1>10. ASSUME NEW a \in Attempt, Write(a) PROVE kind' = kind /\ sink \subseteq sink'
  BY <1>10 DEF Write
<1>11. ASSUME NEW a \in Attempt, RecordHeartbeat(a) PROVE kind' = kind /\ sink \subseteq sink'
  BY <1>11 DEF RecordHeartbeat
<1>12. ASSUME NEW a \in Attempt, CheckHeartbeat(a) PROVE kind' = kind /\ sink \subseteq sink'
  BY <1>12 DEF CheckHeartbeat
<1>13. ASSUME NEW a \in Attempt, Close(a) PROVE kind' = kind /\ sink \subseteq sink'
  BY <1>13 DEF Close
<1>14. ASSUME NEW a \in Attempt, Respond(a) PROVE kind' = kind /\ sink \subseteq sink'
  BY <1>14 DEF Respond
<1>15. ASSUME NEW a \in Attempt, Fail(a) PROVE kind' = kind /\ sink \subseteq sink'
  BY <1>15 DEF Fail
<1>16. ASSUME NEW a \in Attempt, WriteFails(a) PROVE kind' = kind /\ sink \subseteq sink'
  BY <1>16 DEF WriteFails
<1>17. ASSUME NEW a \in Attempt, DeliverHeartbeat(a) PROVE kind' = kind /\ sink \subseteq sink'
  BY <1>17 DEF DeliverHeartbeat
<1>18. ASSUME NEW a \in Attempt, ContextLost(a) PROVE kind' = kind /\ sink \subseteq sink'
  BY <1>18 DEF ContextLost
<1>19. CASE LossDetected
  BY <1>19 DEF LossDetected
<1>20. CASE FalseTimeout
  BY <1>20 DEF FalseTimeout
<1>21. CASE Cancel
  BY <1>21 DEF Cancel
<1>22. CASE Crash
  BY <1>22 DEF Crash
<1>23. CASE UNCHANGED vars
  BY <1>23 DEF vars
<1>24. QED
  BY <1>1, <1>2, <1>3, <1>4, <1>5, <1>6, <1>7, <1>8, <1>9, <1>10, <1>11, <1>12, <1>13, <1>14,
     <1>15, <1>16, <1>17, <1>18, <1>19, <1>20, <1>21, <1>22, <1>23 DEF Next, Step

(* Progress recorded by an attempt says what its loop invariant says.            *)
LEMMA RecordedSound ==
  ASSUME SafeConfig, TypeOK, NEW a \in Attempt, RecordHeartbeat(a), ControlInv(a), LoopInv(a)
  PROVE  Sound(hbBuf'[a])
<1>1. /\ hbBuf'[a] = [processed |-> processed[a], filtered |-> filtered[a], skipped |-> skipped[a],
                      offset |-> IF Restartable THEN pos[a] ELSE 0]
      /\ pos[a] \in 0..N /\ processed[a] \in Nat
  BY DEF RecordHeartbeat, SafeConfig, Inst, TypeOK, SdkTypeOK, LoopTypeOK
<1>2. chunk[a] = <<>> /\ out[a] = "none" /\ (Restartable => items[a] = <<>>)
  BY DEF RecordHeartbeat, ControlInv, TypeOK, ControlTypeOK
<1>3. CASE Restartable
  <2>1. Consumed(a) = pos[a] /\ Len(chunk[a]) = 0 /\ Elems(chunk[a]) = {}
    BY <1>1, <1>2, <1>3, SequenceFacts0 DEF Consumed
  <2>2. /\ processed[a] = Num(kind, "ok", pos[a])
        /\ filtered[a] = Num(kind, "nil", pos[a]) /\ skipped[a] = Num(kind, "bad", pos[a])
        /\ \A i \in 1..pos[a] : kind[i] = "ok" => i \in sink
    BY <1>1, <1>2, <2>1 DEF LoopInv
  <2>3. QED
    BY <1>1, <1>3, <2>2 DEF Sound
<1>4. CASE ~Restartable
  BY <1>4 DEF Sound
<1>5. QED
  BY <1>3, <1>4

(* Where a checkpoint comes from: it stays, is handed on, or is a recorded one.  *)
LEMMA CheckpointStep ==
  ASSUME SafeConfig, TypeOK, CheckpointSound, [Next]_vars,
         \A a \in Attempt : ControlInv(a) /\ LoopInv(a)
  PROVE  CheckpointSound'
<1>0. SdkTypeOK /\ kind' = kind /\ sink \subseteq sink'
  BY Grows DEF TypeOK
<1>01. /\ Sound(details) /\ Sound(None)
       /\ \A b \in Attempt : Sound(hbBuf[b]) /\ Sound(given[b])
  BY DEF CheckpointSound, Sound
<1>02. ASSUME Sound(details'), \A b \in Attempt : Sound(hbBuf'[b]) /\ Sound(given'[b])
       PROVE  CheckpointSound'
  <2>1. \A p : Sound(p) => Sound(p)'
    BY <1>0, SoundFrame
  <2>2. QED
    BY <1>02, <2>1 DEF CheckpointSound, Sound
<1>03. UNCHANGED <<details, hbBuf, given>> => CheckpointSound'
  BY <1>01, <1>02
<1>1. ASSUME NEW a \in Attempt, Poll(a) PROVE CheckpointSound'
  BY <1>0, <1>01, <1>02, <1>1 DEF Poll, SdkTypeOK
<1>2. ASSUME NEW a \in Attempt, Resume(a) PROVE CheckpointSound'
  BY <1>03, <1>2 DEF Resume, sdk, server
<1>3. ASSUME NEW a \in Attempt, CheckAlive(a) PROVE CheckpointSound'
  BY <1>03, <1>3 DEF CheckAlive, sdk, server
<1>4. ASSUME NEW a \in Attempt, Read(a) PROVE CheckpointSound'
  BY <1>03, <1>4 DEF Read, sdk, server
<1>5. ASSUME NEW a \in Attempt, EndOfData(a) PROVE CheckpointSound'
  BY <1>03, <1>5 DEF EndOfData, sdk, server
<1>6. ASSUME NEW a \in Attempt, Keep(a) PROVE CheckpointSound'
  BY <1>03, <1>6 DEF Keep, Take, sdk, server
<1>7. ASSUME NEW a \in Attempt, Filter(a) PROVE CheckpointSound'
  BY <1>03, <1>7 DEF Filter, Take, sdk, server
<1>8. ASSUME NEW a \in Attempt, Skip(a) PROVE CheckpointSound'
  BY <1>03, <1>8 DEF Skip, Take, sdk, server
<1>9. ASSUME NEW a \in Attempt, Reject(a) PROVE CheckpointSound'
  BY <1>03, <1>9 DEF Reject, Take, sdk, server
<1>10. ASSUME NEW a \in Attempt, Write(a) PROVE CheckpointSound'
  BY <1>03, <1>10 DEF Write, sdk, server
<1>11. ASSUME NEW a \in Attempt, RecordHeartbeat(a) PROVE CheckpointSound'
  <2>1. /\ UNCHANGED <<details, given>>
        /\ \A b \in Attempt : b # a => hbBuf'[b] = hbBuf[b]
    BY <1>0, <1>11 DEF RecordHeartbeat, SdkTypeOK, server
  <2>2. Sound(hbBuf'[a])
    BY <1>11, RecordedSound
  <2>3. QED
    BY <1>01, <1>02, <2>1, <2>2
<1>12. ASSUME NEW a \in Attempt, CheckHeartbeat(a) PROVE CheckpointSound'
  BY <1>03, <1>12 DEF CheckHeartbeat, sdk, server
<1>13. ASSUME NEW a \in Attempt, Close(a) PROVE CheckpointSound'
  BY <1>03, <1>13 DEF Close, sdk, server
<1>14. ASSUME NEW a \in Attempt, Respond(a) PROVE CheckpointSound'
  <2>1. UNCHANGED <<details, given>> /\ hbBuf' = [hbBuf EXCEPT ![a] = None]
    BY <1>14 DEF Respond, Retry, server
  <2>2. QED
    BY <1>0, <1>01, <1>02, <2>1 DEF SdkTypeOK
<1>15. ASSUME NEW a \in Attempt, Fail(a) PROVE CheckpointSound'
  BY <1>03, <1>15 DEF Fail, sdk, server
<1>16. ASSUME NEW a \in Attempt, WriteFails(a) PROVE CheckpointSound'
  BY <1>03, <1>16 DEF WriteFails, sdk, server
<1>17. ASSUME NEW a \in Attempt, DeliverHeartbeat(a) PROVE CheckpointSound'
  BY <1>0, <1>01, <1>02, <1>17 DEF DeliverHeartbeat, SdkTypeOK
<1>18. ASSUME NEW a \in Attempt, ContextLost(a) PROVE CheckpointSound'
  BY <1>0, <1>01, <1>02, <1>18 DEF ContextLost, SdkTypeOK, server
<1>19. CASE LossDetected
  BY <1>03, <1>19 DEF LossDetected, Retry, sdk, server
<1>20. CASE FalseTimeout
  BY <1>03, <1>20 DEF FalseTimeout, Retry, sdk, server
<1>21. CASE Cancel
  BY <1>03, <1>21 DEF Cancel, sdk, server
<1>22. CASE Crash
  BY <1>01, <1>02, <1>22 DEF Crash, server
<1>23. CASE UNCHANGED vars
  BY <1>03, <1>23 DEF vars, sdk, server
<1>24. QED
  BY <1>1, <1>2, <1>3, <1>4, <1>5, <1>6, <1>7, <1>8, <1>9, <1>10, <1>11, <1>12, <1>13, <1>14,
     <1>15, <1>16, <1>17, <1>18, <1>19, <1>20, <1>21, <1>22, <1>23 DEF Next, Step

(* Only accepted items are in a chunk ...                                        *)
LEMMA ChunkStep ==
  ASSUME TypeOK, ItemInHand, [Next]_vars, NEW b \in Attempt, Elems(chunk[b]) \subseteq OkItems
  PROVE  Elems(chunk'[b]) \subseteq OkItems
<1>0. LoopTypeOK
  BY DEF TypeOK
<1>01. ASSUME chunk'[b] = chunk[b] PROVE Elems(chunk'[b]) \subseteq OkItems
  BY <1>01
<1>1. ASSUME NEW a \in Attempt, Poll(a) PROVE Elems(chunk'[b]) \subseteq OkItems
  BY <1>01, <1>1 DEF Poll, loop
<1>2. ASSUME NEW a \in Attempt, Resume(a) PROVE Elems(chunk'[b]) \subseteq OkItems
  BY <1>01, <1>2 DEF Resume, loop
<1>3. ASSUME NEW a \in Attempt, CheckAlive(a) PROVE Elems(chunk'[b]) \subseteq OkItems
  BY <1>01, <1>3 DEF CheckAlive, loop
<1>4. ASSUME NEW a \in Attempt, Read(a) PROVE Elems(chunk'[b]) \subseteq OkItems
  BY <1>01, <1>4 DEF Read, loop
<1>5. ASSUME NEW a \in Attempt, EndOfData(a) PROVE Elems(chunk'[b]) \subseteq OkItems
  BY <1>01, <1>5 DEF EndOfData, loop
<1>6. ASSUME NEW a \in Attempt, Keep(a) PROVE Elems(chunk'[b]) \subseteq OkItems
  <2>1. CASE b # a
    BY <1>0, <1>01, <1>6, <2>1 DEF Keep, LoopTypeOK
  <2>2. CASE b = a
    <3>1. items[a] # <<>> /\ Head(items[a]) \in Item
      BY <1>0, <1>6, TakeTypes DEF Keep
    <3>2. Head(items[a]) \in OkItems
      BY <1>6, <3>1 DEF Keep, OkItems
    <3>3. chunk'[b] = Append(chunk[b], Head(items[a])) /\ chunk[b] \in Seq(Item)
      BY <1>0, <1>6, <2>2 DEF Keep, LoopTypeOK
    <3>4. Elems(chunk'[b]) = Elems(chunk[b]) \cup {Head(items[a])}
      BY <3>1, <3>3, SequenceFacts
    <3>5. QED
      BY <3>2, <3>4
  <2>3. QED
    BY <2>1, <2>2
<1>7. ASSUME NEW a \in Attempt, Filter(a) PROVE Elems(chunk'[b]) \subseteq OkItems
  BY <1>01, <1>7 DEF Filter, Take, loop
<1>8. ASSUME NEW a \in Attempt, Skip(a) PROVE Elems(chunk'[b]) \subseteq OkItems
  BY <1>01, <1>8 DEF Skip, Take, loop
<1>9. ASSUME NEW a \in Attempt, Reject(a) PROVE Elems(chunk'[b]) \subseteq OkItems
  BY <1>01, <1>9 DEF Reject, Take, loop
<1>10. ASSUME NEW a \in Attempt, Write(a) PROVE Elems(chunk'[b]) \subseteq OkItems
  BY <1>0, <1>01, <1>10, SequenceFacts0 DEF Write, LoopTypeOK
<1>11. ASSUME NEW a \in Attempt, RecordHeartbeat(a) PROVE Elems(chunk'[b]) \subseteq OkItems
  BY <1>01, <1>11 DEF RecordHeartbeat, loop
<1>12. ASSUME NEW a \in Attempt, CheckHeartbeat(a) PROVE Elems(chunk'[b]) \subseteq OkItems
  BY <1>01, <1>12 DEF CheckHeartbeat, loop
<1>13. ASSUME NEW a \in Attempt, Close(a) PROVE Elems(chunk'[b]) \subseteq OkItems
  BY <1>01, <1>13 DEF Close, loop
<1>14. ASSUME NEW a \in Attempt, Respond(a) PROVE Elems(chunk'[b]) \subseteq OkItems
  BY <1>01, <1>14 DEF Respond, loop
<1>15. ASSUME NEW a \in Attempt, Fail(a) PROVE Elems(chunk'[b]) \subseteq OkItems
  BY <1>01, <1>15 DEF Fail, loop
<1>16. ASSUME NEW a \in Attempt, WriteFails(a) PROVE Elems(chunk'[b]) \subseteq OkItems
  BY <1>01, <1>16 DEF WriteFails, loop
<1>17. ASSUME NEW a \in Attempt, DeliverHeartbeat(a) PROVE Elems(chunk'[b]) \subseteq OkItems
  BY <1>01, <1>17 DEF DeliverHeartbeat, loop
<1>18. ASSUME NEW a \in Attempt, ContextLost(a) PROVE Elems(chunk'[b]) \subseteq OkItems
  BY <1>01, <1>18 DEF ContextLost, loop
<1>19. CASE LossDetected
  BY <1>01, <1>19 DEF LossDetected, loop
<1>20. CASE FalseTimeout
  BY <1>01, <1>20 DEF FalseTimeout, loop
<1>21. CASE Cancel
  BY <1>01, <1>21 DEF Cancel, loop
<1>22. CASE Crash
  BY <1>01, <1>22 DEF Crash, loop
<1>23. CASE UNCHANGED vars
  BY <1>01, <1>23 DEF vars, loop
<1>24. QED
  BY <1>1, <1>2, <1>3, <1>4, <1>5, <1>6, <1>7, <1>8, <1>9, <1>10, <1>11, <1>12, <1>13, <1>14,
     <1>15, <1>16, <1>17, <1>18, <1>19, <1>20, <1>21, <1>22, <1>23 DEF Next, Step

(* ... and therefore in the store.                                               *)
LEMMA SinkStep ==
  ASSUME [Next]_vars, sink \subseteq OkItems, \A a \in Attempt : Elems(chunk[a]) \subseteq OkItems
  PROVE  sink' \subseteq OkItems
<1>01. sink' = sink => sink' \subseteq OkItems
  OBVIOUS
<1>1. ASSUME NEW a \in Attempt, Poll(a) PROVE sink' \subseteq OkItems
  BY <1>01, <1>1 DEF Poll
<1>2. ASSUME NEW a \in Attempt, Resume(a) PROVE sink' \subseteq OkItems
  BY <1>01, <1>2 DEF Resume
<1>3. ASSUME NEW a \in Attempt, CheckAlive(a) PROVE sink' \subseteq OkItems
  BY <1>01, <1>3 DEF CheckAlive
<1>4. ASSUME NEW a \in Attempt, Read(a) PROVE sink' \subseteq OkItems
  BY <1>01, <1>4 DEF Read
<1>5. ASSUME NEW a \in Attempt, EndOfData(a) PROVE sink' \subseteq OkItems
  BY <1>01, <1>5 DEF EndOfData
<1>6. ASSUME NEW a \in Attempt, Keep(a) PROVE sink' \subseteq OkItems
  BY <1>01, <1>6 DEF Keep, Take
<1>7. ASSUME NEW a \in Attempt, Filter(a) PROVE sink' \subseteq OkItems
  BY <1>01, <1>7 DEF Filter, Take
<1>8. ASSUME NEW a \in Attempt, Skip(a) PROVE sink' \subseteq OkItems
  BY <1>01, <1>8 DEF Skip, Take
<1>9. ASSUME NEW a \in Attempt, Reject(a) PROVE sink' \subseteq OkItems
  BY <1>01, <1>9 DEF Reject, Take
<1>10. ASSUME NEW a \in Attempt, Write(a) PROVE sink' \subseteq OkItems
  BY <1>01, <1>10 DEF Write
<1>11. ASSUME NEW a \in Attempt, RecordHeartbeat(a) PROVE sink' \subseteq OkItems
  BY <1>01, <1>11 DEF RecordHeartbeat
<1>12. ASSUME NEW a \in Attempt, CheckHeartbeat(a) PROVE sink' \subseteq OkItems
  BY <1>01, <1>12 DEF CheckHeartbeat
<1>13. ASSUME NEW a \in Attempt, Close(a) PROVE sink' \subseteq OkItems
  BY <1>01, <1>13 DEF Close
<1>14. ASSUME NEW a \in Attempt, Respond(a) PROVE sink' \subseteq OkItems
  BY <1>01, <1>14 DEF Respond
<1>15. ASSUME NEW a \in Attempt, Fail(a) PROVE sink' \subseteq OkItems
  BY <1>01, <1>15 DEF Fail
<1>16. ASSUME NEW a \in Attempt, WriteFails(a) PROVE sink' \subseteq OkItems
  BY <1>01, <1>16 DEF WriteFails
<1>17. ASSUME NEW a \in Attempt, DeliverHeartbeat(a) PROVE sink' \subseteq OkItems
  BY <1>01, <1>17 DEF DeliverHeartbeat
<1>18. ASSUME NEW a \in Attempt, ContextLost(a) PROVE sink' \subseteq OkItems
  BY <1>01, <1>18 DEF ContextLost
<1>19. CASE LossDetected
  BY <1>01, <1>19 DEF LossDetected
<1>20. CASE FalseTimeout
  BY <1>01, <1>20 DEF FalseTimeout
<1>21. CASE Cancel
  BY <1>01, <1>21 DEF Cancel
<1>22. CASE Crash
  BY <1>01, <1>22 DEF Crash
<1>23. CASE UNCHANGED vars
  BY <1>01, <1>23 DEF vars
<1>24. QED
  BY <1>1, <1>2, <1>3, <1>4, <1>5, <1>6, <1>7, <1>8, <1>9, <1>10, <1>11, <1>12, <1>13, <1>14,
     <1>15, <1>16, <1>17, <1>18, <1>19, <1>20, <1>21, <1>22, <1>23 DEF Next, Step

(* An attempt that reports success has everything persisted and counted.         *)
LEMMA SuccessIsComplete ==
  ASSUME TypeOK, NEW a \in Attempt, ControlInv(a), LoopInv(a), out[a] = "ok", sink \subseteq OkItems
  PROVE  /\ sink = OkItems
         /\ CountsOf(a) = [processed |-> Num(kind, "ok", N), filtered |-> Num(kind, "nil", N),
                           skipped |-> Num(kind, "bad", N)]
<1>1. items[a] = <<>> /\ chunk[a] = <<>> /\ pos[a] = N
  BY DEF ControlInv
<1>2. Consumed(a) = N /\ Len(chunk[a]) = 0 /\ Elems(chunk[a]) = {}
  BY <1>1, SequenceFacts0, ChunkEngineAssumption DEF Consumed
<1>3. /\ processed[a] = Num(kind, "ok", N) /\ filtered[a] = Num(kind, "nil", N)
      /\ skipped[a] = Num(kind, "bad", N)
      /\ \A i \in 1..N : kind[i] = "ok" => i \in sink
  <2>1. processed[a] \in Nat
    BY DEF TypeOK, LoopTypeOK
  <2>2. QED
    BY <1>2, <2>1 DEF LoopInv
<1>4. QED
  BY <1>3 DEF CountsOf, OkItems, Item

(* What the server holds: no result before completion, an exact one after it.    *)
LEMMA StoreStep ==
  ASSUME SafeConfig, TypeOK, ItemInHand, StoreInv, [Next]_vars,
         \A a \in Attempt : ControlInv(a) /\ LoopInv(a)
  PROVE  StoreInv'
<1>0. kind' = kind /\ sink \subseteq sink' /\ OkItems' = OkItems
  BY Grows DEF OkItems
<1>01. sink' \subseteq OkItems /\ \A b \in Attempt : Elems(chunk'[b]) \subseteq OkItems
  BY SinkStep, ChunkStep DEF StoreInv
<1>02. ASSUME result' = result, status' = "completed" <=> status = "completed"
       PROVE  StoreInv'
  BY <1>0, <1>01, <1>02 DEF StoreInv, Elems
<1>1. ASSUME NEW a \in Attempt, Poll(a) PROVE StoreInv'
  BY <1>02, <1>1 DEF Poll, server
<1>2. ASSUME NEW a \in Attempt, Resume(a) PROVE StoreInv'
  BY <1>02, <1>2 DEF Resume, server
<1>3. ASSUME NEW a \in Attempt, CheckAlive(a) PROVE StoreInv'
  BY <1>02, <1>3 DEF CheckAlive, server
<1>4. ASSUME NEW a \in Attempt, Read(a) PROVE StoreInv'
  BY <1>02, <1>4 DEF Read, server
<1>5. ASSUME NEW a \in Attempt, EndOfData(a) PROVE StoreInv'
  BY <1>02, <1>5 DEF EndOfData, server
<1>6. ASSUME NEW a \in Attempt, Keep(a) PROVE StoreInv'
  BY <1>02, <1>6 DEF Keep, Take, server
<1>7. ASSUME NEW a \in Attempt, Filter(a) PROVE StoreInv'
  BY <1>02, <1>7 DEF Filter, Take, server
<1>8. ASSUME NEW a \in Attempt, Skip(a) PROVE StoreInv'
  BY <1>02, <1>8 DEF Skip, Take, server
<1>9. ASSUME NEW a \in Attempt, Reject(a) PROVE StoreInv'
  BY <1>02, <1>9 DEF Reject, Take, server
<1>10. ASSUME NEW a \in Attempt, Write(a) PROVE StoreInv'
  BY <1>02, <1>10 DEF Write, server
<1>11. ASSUME NEW a \in Attempt, RecordHeartbeat(a) PROVE StoreInv'
  BY <1>02, <1>11 DEF RecordHeartbeat, server
<1>12. ASSUME NEW a \in Attempt, CheckHeartbeat(a) PROVE StoreInv'
  BY <1>02, <1>12 DEF CheckHeartbeat, server
<1>13. ASSUME NEW a \in Attempt, Close(a) PROVE StoreInv'
  BY <1>02, <1>13 DEF Close, server
<1>14. ASSUME NEW a \in Attempt, Respond(a) PROVE StoreInv'
  <2>1. CASE result' = result /\ (status' = "completed" <=> status = "completed")
    BY <1>02, <2>1
  <2>2. CASE /\ out[a] = "ok" /\ status' = "completed" /\ sink' = sink
             /\ result' = Outcome(a)
    <3>1. /\ sink = OkItems
          /\ CountsOf(a) = [processed |-> Num(kind, "ok", N), filtered |-> Num(kind, "nil", N),
                            skipped |-> Num(kind, "bad", N)]
      BY <2>2, SuccessIsComplete DEF StoreInv
    <3>2. result' # None
      <4>1. processed[a] \in Nat /\ filtered[a] \in Nat /\ skipped[a] \in Nat /\ seen[Inst(a)] \in Nat
        BY Attempts DEF TypeOK, LoopTypeOK
      <4>2. result' \in Results
        BY <2>2, <4>1 DEF Outcome, Results, Counts, CountsOf
      <4>3. QED
        BY <4>2, ChunkEngineAssumption
    <3>3. result'.counts = CountsOf(a)
      BY <2>2 DEF Outcome
    <3>4. QED
      BY <1>0, <1>01, <2>2, <3>1, <3>2, <3>3 DEF StoreInv, Elems
  <2>3. QED
    BY <1>14, <2>1, <2>2 DEF Respond, Current, Retry, server
<1>15. ASSUME NEW a \in Attempt, Fail(a) PROVE StoreInv'
  BY <1>02, <1>15 DEF Fail, server
<1>16. ASSUME NEW a \in Attempt, WriteFails(a) PROVE StoreInv'
  BY <1>02, <1>16 DEF WriteFails, server
<1>17. ASSUME NEW a \in Attempt, DeliverHeartbeat(a) PROVE StoreInv'
  BY <1>02, <1>17 DEF DeliverHeartbeat, server
<1>18. ASSUME NEW a \in Attempt, ContextLost(a) PROVE StoreInv'
  BY <1>02, <1>18 DEF ContextLost, server
<1>19. CASE LossDetected
  BY <1>02, <1>19 DEF LossDetected, Retry, server
<1>20. CASE FalseTimeout
  BY <1>02, <1>20 DEF FalseTimeout, Retry, server
<1>21. CASE Cancel
  BY <1>02, <1>21 DEF Cancel, server
<1>22. CASE Crash
  BY <1>02, <1>22 DEF Crash, server
<1>23. CASE UNCHANGED vars
  BY <1>02, <1>23 DEF vars, server
<1>24. QED
  BY <1>1, <1>2, <1>3, <1>4, <1>5, <1>6, <1>7, <1>8, <1>9, <1>10, <1>11, <1>12, <1>13, <1>14,
     <1>15, <1>16, <1>17, <1>18, <1>19, <1>20, <1>21, <1>22, <1>23 DEF Next, Step

-------------------------------------------------------------------------------
(* The inductive invariant holds of an execution that was just scheduled.       *)
LEMMA InvInit == Init => IInv
<1> SUFFICES ASSUME Init, SafeConfig
             PROVE  /\ ServerInv /\ CheckpointSound /\ StoreInv
                    /\ \A a \in Attempt : ControlInv(a) /\ LoopInv(a)
  BY DEF IInv
<1>1. ServerInv
  BY Attempts DEF Init, ServerInv
<1>2. ASSUME NEW a \in Attempt PROVE ControlInv(a) /\ LoopInv(a)
  <2>1. /\ items[a] = <<>> /\ chunk[a] = <<>> /\ pos[a] = 0 /\ pc[a] = "idle" /\ out[a] = "none"
        /\ processed[a] = 0 /\ filtered[a] = 0 /\ skipped[a] = 0
    BY <1>2 DEF Init
  <2>2. Consumed(a) = 0
    <3>1. pos[a] = 0 /\ Len(items[a]) = 0
      BY <2>1, SequenceFacts0
    <3>2. QED
      BY <3>1 DEF Consumed
  <2>3. ControlInv(a)
    BY <2>1, SequenceFacts0 DEF ControlInv
  <2>4. LoopInv(a)
    BY <2>1, <2>2, NumZero, ChunkEngineAssumption DEF LoopInv
  <2>5. QED
    BY <2>3, <2>4
<1>3. CheckpointSound
  BY DEF Init, CheckpointSound, Sound
<1>4. StoreInv
  BY SequenceFacts0 DEF Init, StoreInv
<1>5. QED
  BY <1>1, <1>2, <1>3, <1>4

(* Every step of the server, the SDK and the loop keeps the inductive           *)
(* invariant.                                                                   *)
LEMMA InvStep == TypeOK /\ ItemInHand /\ IInv /\ [Next]_vars => IInv'
<1> SUFFICES ASSUME TypeOK, ItemInHand, IInv, [Next]_vars, SafeConfig
             PROVE  /\ ServerInv' /\ CheckpointSound' /\ StoreInv'
                    /\ \A a \in Attempt : ControlInv(a)' /\ LoopInv(a)'
  BY DEF IInv, SafeConfig
<1>1. /\ ServerInv /\ CheckpointSound /\ StoreInv
      /\ \A a \in Attempt : ControlInv(a) /\ LoopInv(a)
  BY DEF IInv
<1>2. ServerInv'
  BY <1>1, ServerStep
<1>3. \A a \in Attempt : ControlInv(a)' /\ LoopInv(a)'
  BY <1>1, AttemptStep
<1>4. CheckpointSound'
  BY <1>1, CheckpointStep
<1>5. StoreInv'
  BY <1>1, StoreStep
<1>6. QED
  BY <1>2, <1>3, <1>4, <1>5

(* The loop invariant of runChunkLoop, what each control point says of it, and  *)
(* what the server and the store hold, for every number of items, attempts and  *)
(* faults.                                                                      *)
THEOREM Inductive == Spec => []IInv
<1>1. TypeOK /\ ItemInHand /\ IInv /\ [Next]_vars => (TypeOK /\ ItemInHand /\ IInv)'
  BY TypeStep, ItemInHandStep, InvStep
<1>2. QED
  BY TypeInit, InvInit, <1>1, PTL DEF Spec

(* At-least-once delivery (engine.go 14-16) for every instance: an execution    *)
(* reported successful has persisted every accepted item, through any retries,  *)
(* zombies, lost heartbeats and crashes.                                        *)
THEOREM Delivery == Spec => []AtLeastOnce
<1>1. IInv => AtLeastOnce
  BY DEF IInv, StoreInv, AtLeastOnce
<1>2. QED
  BY <1>1, Inductive, PTL

(* The counts a completed execution reports (engine.go 123) are those of one    *)
(* undisturbed pass, for every instance: resume neither counts twice nor        *)
(* forgets (engine.go 51-53).                                                   *)
THEOREM Counting == Spec => []CountsExact
<1>1. IInv => CountsExact
  BY DEF IInv, StoreInv, CountsExact
<1>2. QED
  BY <1>1, Inductive, PTL

(* No heartbeat payload, buffered, stored or handed to an attempt, ever runs    *)
(* ahead of the data (engine.go 102-108), for every instance.                   *)
THEOREM Checkpointing == Spec => []CheckpointSound
<1>1. IInv => CheckpointSound
  BY DEF IInv, CheckpointSound
<1>2. QED
  BY <1>1, Inductive, PTL

-------------------------------------------------------------------------------
(* What a step changes of what the tree above sees.                              *)

Quiet == status' = status /\ result' = result
Moved ==
  /\ sink' = sink /\ status \in {"scheduled", "started"}
  /\ status' # "completed" => result' = result

(* Only polling, the retry policy, cancellation and the current attempt's answer *)
(* move the execution on, from a state in which it is still open.                *)
LEMMA Moves ==
  ASSUME [Next]_vars
  PROVE  Quiet \/ Moved
<1>1. ASSUME NEW a \in Attempt, Poll(a) PROVE Quiet \/ Moved
  BY <1>1 DEF Poll, Moved
<1>2. ASSUME NEW a \in Attempt, Respond(a) PROVE Quiet \/ Moved
  <2>1. CASE UNCHANGED server
    BY <2>1 DEF server, Quiet
  <2>2. CASE Current(a)
    BY <1>2, <2>2 DEF Respond, Current, Retry, Moved
  <2>3. QED
    BY <1>2, <2>1, <2>2 DEF Respond
<1>3. ASSUME NEW a \in Attempt,
             \/ Resume(a) \/ CheckAlive(a) \/ Read(a) \/ EndOfData(a)
             \/ Keep(a) \/ Filter(a) \/ Skip(a) \/ Reject(a)
             \/ Write(a) \/ RecordHeartbeat(a) \/ CheckHeartbeat(a) \/ Close(a)
             \/ Fail(a) \/ WriteFails(a) \/ DeliverHeartbeat(a) \/ ContextLost(a)
      PROVE  Quiet \/ Moved
  <2>1. UNCHANGED <<status, result>>
    BY <1>3 DEF Resume, CheckAlive, Read, EndOfData, Keep, Filter, Skip, Reject, Take, Write,
       RecordHeartbeat, CheckHeartbeat, Close, Fail, WriteFails, DeliverHeartbeat, ContextLost, server
  <2>2. QED
    BY <2>1 DEF Quiet
<1>4. CASE LossDetected \/ FalseTimeout
  BY <1>4 DEF LossDetected, FalseTimeout, Retry, Moved
<1>5. CASE Cancel
  BY <1>5 DEF Cancel, Moved
<1>6. CASE Crash \/ UNCHANGED vars
  BY <1>6 DEF Crash, vars, server, Quiet
<1>7. QED
  BY <1>1, <1>2, <1>3, <1>4, <1>5, <1>6 DEF Next, Step

-------------------------------------------------------------------------------
(* The refinement.                                                               *)

LEMMA OkItemsOfKind ==
  /\ OkItems = Contract!OfKind("ok")
  /\ Contract!Exact = [processed |-> Num(kind, "ok", N), filtered |-> Num(kind, "nil", N),
                       skipped |-> Num(kind, "bad", N)]
<1>1. OkItems = Contract!OfKind("ok")
  BY DEF OkItems, Item, Contract!OfKind
<1>2. ASSUME NEW k PROVE Contract!Cardinality(Contract!OfKind(k)) = Num(kind, k, N)
  BY DEF Num, Contract!OfKind, Contract!Cardinality, Cardinality
<1>3. QED
  BY <1>1, <1>2 DEF Contract!Exact

LEMMA RefinementInit == Init => Contract!Init
BY DEF Init, Contract!Init, Item, Kinds, Terminal

(* Every step of the engine is a step of the contract or none at all.            *)
LEMMA RefinementStep ==
  ASSUME SafeConfig, TypeOK', StoreInv, StoreInv', [Next]_vars
  PROVE  [Contract!Next]_Contract!cvars
<1> DEFINE outcome == IF status \in Terminal THEN status ELSE "running"
           tally == IF result = None THEN None ELSE result.counts
<1>1. kind' = kind /\ sink \subseteq sink' /\ sink' \subseteq OkItems /\ OkItems' = OkItems
  BY Grows DEF StoreInv, OkItems
<1>2. CASE Quiet
  <2>1. outcome' = outcome /\ tally' = tally
    BY <1>2 DEF Quiet
  <2>2. CASE sink' = sink
    BY <1>1, <2>1, <2>2 DEF Contract!cvars
  <2>3. CASE sink' # sink
    <3>1. outcome # "completed"
      BY <1>1, <2>3 DEF StoreInv, Terminal
    <3>2. sink' = sink \cup sink' /\ sink' \in SUBSET Contract!OfKind("ok")
      BY <1>1, OkItemsOfKind
    <3>3. Contract!Persist
      BY <1>1, <2>1, <3>1, <3>2 DEF Contract!Persist
    <3>4. QED
      BY <3>3 DEF Contract!Next
  <2>4. QED
    BY <2>2, <2>3
<1>3. CASE Moved
  <2>1. outcome = "running" /\ tally = None /\ sink' = sink
    BY <1>3 DEF Moved, Terminal, StoreInv
  <2>2. CASE status' \in {"scheduled", "started"}
    <3>1. outcome' = outcome /\ tally' = tally
      BY <1>3, <2>1, <2>2 DEF Moved, Terminal
    <3>2. QED
      BY <1>1, <2>1, <3>1 DEF Contract!cvars
  <2>3. CASE status' = "completed"
    <3>1. outcome' = "completed" /\ sink = OkItems
      BY <1>1, <2>1, <2>3 DEF StoreInv, Terminal
    <3>2. tally' = Contract!Exact
      <4>1. tally' = [processed |-> Num(kind', "ok", N), filtered |-> Num(kind', "nil", N),
                      skipped |-> Num(kind', "bad", N)]
        BY <2>3 DEF StoreInv
      <4>2. QED
        BY <1>1, <4>1, OkItemsOfKind
    <3>3. Contract!Complete
      BY <1>1, <2>1, <3>1, <3>2, OkItemsOfKind DEF Contract!Complete
    <3>4. QED
      BY <3>3 DEF Contract!Next
  <2>4. CASE status' \in {"failed", "cancelled"}
    <3>1. outcome' \in {"failed", "cancelled"} /\ tally' = tally
      BY <1>3, <2>1, <2>4 DEF Moved, Terminal
    <3>2. Contract!GiveUp
      BY <1>1, <2>1, <3>1 DEF Contract!GiveUp
    <3>3. QED
      BY <3>2 DEF Contract!Next
  <2>5. QED
    BY <2>2, <2>3, <2>4 DEF TypeOK, ServerTypeOK, Terminal
<1>4. QED
  BY <1>2, <1>3, Moves

(* The engine, with its attempts, zombies, checkpoints and chunks, does what the *)
(* tree above relies on, for readers the resume protocol is sound for.           *)
THEOREM Implements == ASSUME SafeConfig PROVE Spec => ImplementsContract
<1>1. IInv => StoreInv
  BY DEF IInv
<1>2. TypeOK' /\ StoreInv /\ StoreInv' /\ [Next]_vars => [Contract!Next]_Contract!cvars
  BY RefinementStep
<1>3. Spec => [](TypeOK /\ StoreInv)
  BY <1>1, TypeCorrect, Inductive, PTL
<1>4. QED
  BY <1>2, <1>3, RefinementInit, PTL DEF Spec, ImplementsContract, Contract!Spec

(* After success nothing is persisted any more, not even by a zombie             *)
(* (engine.go 96).                                                               *)
THEOREM Quiescence == Spec => QuiescentAfterCompletion
<1>1. IInv /\ IInv' /\ [Next]_vars =>
        (SafeConfig /\ status = "completed" => UNCHANGED <<sink, status, result>>)
  <2> SUFFICES ASSUME IInv, IInv', [Next]_vars, SafeConfig, status = "completed"
               PROVE  UNCHANGED <<sink, status, result>>
    OBVIOUS
  <2>1. Quiet
    BY Moves DEF Moved
  <2>2. sink = OkItems /\ sink' \subseteq OkItems' /\ OkItems' = OkItems /\ sink \subseteq sink'
    BY Grows DEF IInv, StoreInv, OkItems, SafeConfig
  <2>3. QED
    BY <2>1, <2>2 DEF Quiet
<1>2. QED
  BY <1>1, Inductive, PTL DEF Spec, QuiescentAfterCompletion

-------------------------------------------------------------------------------
(* Steps of attempt a: the loop and the SDK beside it.                           *)
Local(a) ==
  \/ Resume(a) \/ CheckAlive(a) \/ Read(a) \/ EndOfData(a)
  \/ Keep(a) \/ Filter(a) \/ Skip(a) \/ Reject(a)
  \/ Write(a) \/ RecordHeartbeat(a) \/ CheckHeartbeat(a) \/ Close(a) \/ Fail(a) \/ WriteFails(a)

(* Every step is one of an attempt, or of the server or the worker process.      *)
LEMMA Steps ==
  ASSUME [Next]_vars
  PROVE  \/ \E a \in Attempt : Poll(a) \/ Local(a) \/ Respond(a) \/ DeliverHeartbeat(a) \/ ContextLost(a)
         \/ LossDetected \/ FalseTimeout \/ Cancel \/ Crash \/ UNCHANGED vars
BY DEF Next, Step, Local

(* The loop changes nothing at the server.                                       *)
LEMMA LocalServer ==
  ASSUME NEW a \in Attempt, Local(a)
  PROVE  UNCHANGED <<server, given, ctxDone, kind>>
BY DEF Local, Resume, CheckAlive, Read, EndOfData, Keep, Filter, Skip, Reject, Take, Write,
       RecordHeartbeat, CheckHeartbeat, Close, Fail, WriteFails, sdk, loop, cnts

-------------------------------------------------------------------------------
(* Layers 1 and 2.                                                               *)

(* An attempt that took up an item after its context was done is on its way to   *)
(* the next check, or out of the loop.                                           *)
Late(a) ==
  \/ late[a] = 0
  \/ late[a] = 1 /\ ctxDone[a] /\ pc[a] \notin {"idle", "resume", "read", "process", "tail"}

PromptInv == \A a \in Attempt : Late(a)

LEMMA PromptStep ==
  ASSUME TypeOK, ServerInv, PromptInv, [Next]_vars
  PROVE  PromptInv'
<1> SUFFICES ASSUME NEW b \in Attempt PROVE Late(b)'
  BY DEF PromptInv
<1>0. Late(b) /\ ControlTypeOK /\ SdkTypeOK /\ LoopTypeOK /\ ServerTypeOK
  BY DEF PromptInv, TypeOK
<1>1. ASSUME late'[b] = late[b], ctxDone[b] => ctxDone'[b], pc'[b] = pc[b] \/ pc'[b] \in {"close", "ret", "done", "dead"}
      PROVE  Late(b)'
  BY <1>0, <1>1 DEF Late
<1>2. ASSUME NEW a \in Attempt, Poll(a) PROVE Late(b)'
  <2>1. late' = late /\ ctxDone' = ctxDone /\ pc' = [pc EXCEPT ![a] = "resume"] /\ pc[a] = "idle"
    BY <1>2 DEF Poll, Goto, loop, ServerInv
  <2>2. QED
    BY <1>0, <2>1 DEF Late, ControlTypeOK
<1>3. ASSUME NEW a \in Attempt, Keep(a) \/ Filter(a) \/ Skip(a) \/ Reject(a) PROVE Late(b)'
  <2>1. /\ pc[a] = "process" /\ ctxDone' = ctxDone
        /\ late' = [late EXCEPT ![a] = IF ctxDone[a] THEN @ + 1 ELSE @]
        /\ \E l \in {"write", "top", "close"} : pc' = [pc EXCEPT ![a] = l]
    BY <1>3 DEF Keep, Filter, Skip, Reject, Take, Return, Goto, sdk
  <2>2. QED
    BY SMTT(40), <1>0, <2>1 DEF Late, ControlTypeOK, LoopTypeOK, SdkTypeOK
<1>4. ASSUME NEW a \in Attempt, Resume(a) \/ CheckAlive(a) \/ Read(a) \/ EndOfData(a) \/ Write(a)
                                \/ RecordHeartbeat(a) \/ CheckHeartbeat(a)
      PROVE  Late(b)'
  <2>1. late' = late /\ ctxDone' = ctxDone
    BY <1>4 DEF Resume, CheckAlive, Read, EndOfData, Write, RecordHeartbeat, CheckHeartbeat, sdk, loop
  <2>2. /\ \E l \in {"top", "process", "read", "heartbeat", "layer2", "tail", "close"} :
             pc' = [pc EXCEPT ![a] = l]
        /\ pc[a] \in {"resume", "read", "process", "tail"} \/ pc'[a] \in {"heartbeat", "layer2", "close"}
           \/ (pc[a] \in {"top", "layer2"} /\ ~ctxDone[a])
    BY <1>0, <1>4 DEF Resume, CheckAlive, Read, EndOfData, Write, RecordHeartbeat, CheckHeartbeat,
       Return, Goto, ControlTypeOK
  <2>3. QED
    BY <1>0, <2>1, <2>2 DEF Late, ControlTypeOK
<1>5. ASSUME NEW a \in Attempt, Close(a) \/ Fail(a) \/ WriteFails(a) \/ Respond(a) PROVE Late(b)'
  BY <1>0, <1>1, <1>5 DEF Close, Fail, WriteFails, Respond, Return, Goto, sdk, loop, ControlTypeOK
<1>6. ASSUME NEW a \in Attempt, DeliverHeartbeat(a) \/ ContextLost(a) PROVE Late(b)'
  BY <1>0, <1>1, <1>6 DEF DeliverHeartbeat, ContextLost, control, loop, SdkTypeOK
<1>7. CASE LossDetected \/ FalseTimeout \/ Cancel \/ UNCHANGED vars
  BY <1>1, <1>7 DEF LossDetected, FalseTimeout, Cancel, vars, control, sdk, loop
<1>8. CASE Crash
  BY <1>0, <1>1, <1>8 DEF Crash, ControlTypeOK
<1>9. QED
  BY <1>2, <1>3, <1>4, <1>5, <1>6, <1>7, <1>8, Steps DEF Local

(* Layers 1 and 2 (engine.go 59, 111): once its context is done an attempt takes *)
(* up at most one more item, whatever the reader is.                             *)
THEOREM Prompt == Spec => []StopsPromptly
<1>1. Init => ServerInv /\ PromptInv
  BY Attempts DEF Init, ServerInv, PromptInv, Late
<1>2. TypeOK /\ ItemInHand /\ ServerInv /\ PromptInv /\ [Next]_vars =>
        (TypeOK /\ ItemInHand /\ ServerInv /\ PromptInv)'
  BY TypeStep, ItemInHandStep, ServerStep, PromptStep
<1>3. PromptInv => StopsPromptly
  BY DEF PromptInv, Late, StopsPromptly
<1>4. QED
  BY <1>1, <1>2, <1>3, TypeInit, PTL DEF Spec

-------------------------------------------------------------------------------
(* What an attempt takes up.                                                     *)

Looping == {"top", "read", "process", "write", "heartbeat", "layer2", "tail"}

(* What attempt a has in hand, and will read, is past the checkpoint it got.     *)
Past(a) ==
  given[a] # None =>
    /\ \A i \in Elems(items[a]) \cup Elems(chunk[a]) : i > given[a].offset
    /\ pc[a] \in Looping => given[a].offset <= pos[a]

(* A step that hands nothing on to attempt a, gives it no new item and neither   *)
(* moves its reader back nor lets it begin.                                      *)
LEMMA PastFrame ==
  ASSUME NEW a \in Attempt, Past(a), given'[a] = given[a], pos'[a] = pos[a],
         Elems(items[a])' \cup Elems(chunk[a])' \subseteq Elems(items[a]) \cup Elems(chunk[a]),
         pc'[a] \in Looping => pc[a] \in Looping
  PROVE  Past(a)'
BY DEF Past

(* The item that is taken goes to the chunk or nowhere.                          *)
LEMMA TakePast ==
  ASSUME TypeOK, ItemInHand, NEW a \in Attempt, Keep(a) \/ Filter(a) \/ Skip(a) \/ Reject(a)
  PROVE  Elems(items'[a]) \cup Elems(chunk'[a]) \subseteq Elems(items[a]) \cup Elems(chunk[a])
<1>1. /\ items[a] \in Seq(Item) /\ items[a] # <<>> /\ items'[a] = Tail(items[a])
      /\ chunk[a] \in Seq(Item)
      /\ chunk'[a] = chunk[a] \/ chunk'[a] = Append(chunk[a], Head(items[a]))
  BY DEF Keep, Filter, Skip, Reject, Take, ItemInHand, TypeOK, LoopTypeOK
<1>2. Head(items[a]) \in Item /\ Head(items[a]) \in Elems(items[a])
  BY <1>1, ItemSequences, SequenceFacts DEF Elems
<1>3. Elems(items'[a]) \subseteq Elems(items[a])
  <2>1. /\ Len(Tail(items[a])) = Len(items[a]) - 1 /\ Len(items[a]) \in Nat
        /\ \A j \in 1..Len(Tail(items[a])) : Tail(items[a])[j] = items[a][j + 1]
    BY <1>1, <1>2, ItemSequences, SequenceFacts
  <2>2. \A j \in 1..Len(Tail(items[a])) : Tail(items[a])[j] \in Elems(items[a])
    BY <2>1 DEF Elems
  <2>3. QED
    BY <1>1, <2>2 DEF Elems
<1>4. Elems(chunk'[a]) \subseteq Elems(chunk[a]) \cup {Head(items[a])}
  <2>1. Elems(Append(chunk[a], Head(items[a]))) = Elems(chunk[a]) \cup {Head(items[a])}
    BY <1>1, <1>2, SequenceFacts
  <2>2. QED
    BY <1>1, <2>1
<1>5. QED
  BY <1>2, <1>3, <1>4

LEMMA PastStep ==
  ASSUME SafeConfig, Restartable, TypeOK, ItemInHand, ServerInv,
         \A a \in Attempt : ControlInv(a) /\ Past(a), [Next]_vars, NEW b \in Attempt
  PROVE  Past(b)'
<1>0. /\ ControlTypeOK /\ SdkTypeOK /\ LoopTypeOK /\ ServerTypeOK
      /\ ControlInv(b) /\ Past(b) /\ ~Shared /\ ReadSize = 1
  BY DEF TypeOK, SafeConfig
<1>1. ASSUME UNCHANGED <<given, loop>>, pc'[b] \in Looping => pc[b] \in Looping
      PROVE  Past(b)'
  BY <1>0, <1>1 DEF Past, loop
<1>2. ASSUME NEW a \in Attempt, Poll(a) PROVE Past(b)'
  <2>1. UNCHANGED loop /\ pc' = [pc EXCEPT ![a] = "resume"] /\ given' = [given EXCEPT ![a] = details]
        /\ pc[a] = "idle"
    BY <1>2 DEF Poll, Goto, ServerInv
  <2>2. CASE b = a
    <3>1. items[b] = <<>> /\ chunk[b] = <<>>
      BY <1>0, <2>1, <2>2 DEF ControlInv
    <3>2. Elems(items[b]) = {} /\ Elems(chunk[b]) = {} /\ pc'[b] = "resume"
      BY <1>0, <2>1, <2>2, <3>1, SequenceFacts0 DEF ControlTypeOK
    <3>3. QED
      BY <2>1, <3>2 DEF Past, Looping, loop
  <2>3. CASE b # a
    BY <1>0, <2>1, <2>3 DEF Past, loop, SdkTypeOK, ControlTypeOK
  <2>4. QED
    BY <2>2, <2>3
<1>3. ASSUME NEW a \in Attempt, Resume(a) PROVE Past(b)'
  <2>1. /\ UNCHANGED <<given, items, chunk>> /\ pc' = [pc EXCEPT ![a] = "top"]
        /\ pos' = IF given[a] # None THEN [pos EXCEPT ![a] = given[a].offset] ELSE pos
    BY <1>0, <1>3 DEF Resume, Goto, Inst, sdk
  <2>2. CASE b = a
    BY <1>0, <2>1, <2>2 DEF Past, LoopTypeOK, SdkTypeOK, ChunkProgress
  <2>3. CASE b # a
    BY <1>0, <2>1, <2>3 DEF Past, LoopTypeOK, ControlTypeOK
  <2>4. QED
    BY <2>2, <2>3
<1>4. ASSUME NEW a \in Attempt, Read(a) PROVE Past(b)'
  <2>1. /\ UNCHANGED <<given, chunk>> /\ pc[a] = "read" /\ pc' = [pc EXCEPT ![a] = "process"]
        /\ items' = [items EXCEPT ![a] = [j \in 1..1 |-> pos[a] + j]]
        /\ pos' = [pos EXCEPT ![a] = pos[a] + 1]
    BY <1>0, <1>4 DEF Read, Goto, Inst, sdk
  <2>2. CASE b = a
    <3>1. items'[b] = <<pos[b] + 1>> /\ pos'[b] = pos[b] + 1 /\ pos[b] \in Nat
      BY <1>0, <2>1, <2>2, ChunkEngineAssumption DEF LoopTypeOK
    <3>2. Elems(items'[b]) = {pos[b] + 1}
      BY <3>1 DEF Elems
    <3>3. given[b] # None => given[b].offset \in Nat /\ given[b].offset <= pos[b]
      BY <1>0, <2>1, <2>2, ChunkEngineAssumption DEF Past, Looping, SdkTypeOK, ChunkProgress
    <3>4. QED
      BY <1>0, <2>1, <3>1, <3>2, <3>3 DEF Past
  <2>3. CASE b # a
    BY <1>0, <2>1, <2>3 DEF Past, LoopTypeOK, ControlTypeOK
  <2>4. QED
    BY <2>2, <2>3
<1>5. ASSUME NEW a \in Attempt, Keep(a) \/ Filter(a) \/ Skip(a) \/ Reject(a) PROVE Past(b)'
  <2>1. /\ UNCHANGED <<given, pos>> /\ pc[a] = "process"
        /\ \E l \in {"write", "top", "close"} : pc' = [pc EXCEPT ![a] = l]
        /\ \A d \in Attempt \ {a} : items'[d] = items[d] /\ chunk'[d] = chunk[d]
    BY <1>0, <1>5 DEF Keep, Filter, Skip, Reject, Take, Return, Goto, sdk, LoopTypeOK
  <2>2. CASE b = a
    BY <1>0, <1>5, <2>1, <2>2, TakePast, PastFrame DEF Looping
  <2>3. CASE b # a
    BY <1>0, <2>1, <2>3 DEF Past, ControlTypeOK
  <2>4. QED
    BY <2>2, <2>3
<1>6. ASSUME NEW a \in Attempt, Write(a) PROVE Past(b)'
  <2>1. /\ UNCHANGED <<given, items, pos>> /\ chunk' = [chunk EXCEPT ![a] = <<>>]
        /\ pc[a] \in Looping /\ \E l \in {"close", "heartbeat"} : pc' = [pc EXCEPT ![a] = l]
    BY <1>6 DEF Write, Return, Goto, sdk, Looping
  <2>2. Elems(chunk'[b]) \subseteq Elems(chunk[b])
    BY <1>0, <2>1, SequenceFacts0 DEF LoopTypeOK
  <2>3. pc'[b] \in Looping => pc[b] \in Looping
    BY <1>0, <2>1 DEF ControlTypeOK
  <2>4. QED
    BY <1>0, <2>1, <2>2, <2>3 DEF Past
<1>7. ASSUME NEW a \in Attempt, \/ CheckAlive(a) \/ EndOfData(a) \/ RecordHeartbeat(a) \/ CheckHeartbeat(a)
                               \/ Close(a) \/ Fail(a) \/ WriteFails(a) \/ Respond(a)
      PROVE  Past(b)'
  <2>1. UNCHANGED <<given, loop>>
    BY <1>7 DEF CheckAlive, EndOfData, RecordHeartbeat, CheckHeartbeat, Close, Fail, WriteFails, Respond, sdk
  <2>2. /\ \E l \in Looping \cup {"close", "ret", "done"} : pc' = [pc EXCEPT ![a] = l]
        /\ pc'[a] \in Looping => pc[a] \in Looping
    BY <1>0, <1>7 DEF CheckAlive, EndOfData, RecordHeartbeat, CheckHeartbeat, Close, Fail, WriteFails,
       Respond, Return, Goto, Looping, ControlTypeOK
  <2>3. QED
    BY <1>0, <1>1, <2>1, <2>2 DEF ControlTypeOK
<1>8. ASSUME NEW a \in Attempt, DeliverHeartbeat(a) \/ ContextLost(a) PROVE Past(b)'
  BY <1>1, <1>8 DEF DeliverHeartbeat, ContextLost, control
<1>9. CASE LossDetected \/ FalseTimeout \/ Cancel \/ UNCHANGED vars
  BY <1>1, <1>9 DEF LossDetected, FalseTimeout, Cancel, vars, control, sdk
<1>10. CASE Crash
  <2>1. UNCHANGED <<given, items, chunk, pos>> /\ (pc'[b] = "dead" \/ pc'[b] = pc[b])
    BY <1>0, <1>10 DEF Crash
  <2>2. QED
    BY <1>0, <2>1 DEF Past, Looping
<1>11. QED
  BY <1>2, <1>3, <1>4, <1>5, <1>6, <1>7, <1>8, <1>9, <1>10, Steps DEF Local

PastInv == SafeConfig /\ Restartable => \A a \in Attempt : Past(a)

(* A retry does not run again what its checkpoint covers (engine.go 42-53), not  *)
(* even in a zombie.                                                             *)
THEOREM NotRerun == Spec => []CommittedNotRerun
<1>1. Init => PastInv
  BY DEF Init, PastInv, Past
<1>2. TypeOK /\ ItemInHand /\ IInv /\ PastInv /\ [Next]_vars => PastInv'
  <2> SUFFICES ASSUME TypeOK, ItemInHand, IInv, PastInv, [Next]_vars, SafeConfig, Restartable,
                      NEW b \in Attempt
               PROVE  Past(b)'
    BY DEF PastInv, SafeConfig
  <2>1. ServerInv /\ \A a \in Attempt : ControlInv(a) /\ Past(a)
    BY DEF IInv, PastInv
  <2>2. QED
    BY <2>1, PastStep
<1>3. PastInv => CommittedNotRerun
  BY DEF PastInv, Past, CommittedNotRerun
<1>4. QED
  BY <1>1, <1>2, <1>3, TypeCorrect, Inductive, PTL DEF Spec

-------------------------------------------------------------------------------
(* What attempts report.                                                         *)

(* The current attempt began at the server's checkpoint and is past it, with the *)
(* heartbeat that is on its way in between.                                      *)
Between(a) ==
  /\ pc[a] = "resume" => given[a] = details
  /\ pc[a] \in Looping /\ details # None => details.offset <= pos[a]
  /\ pc[a] \in Looping /\ hbBuf[a] # None => hbBuf[a].offset <= pos[a]
  /\ hbBuf[a] # None /\ details # None => details.offset <= hbBuf[a].offset

ReportInv ==
  /\ \A a \in Attempt : pc[a] \in {"idle", "resume"} => hbBuf[a] = None
  /\ status = "started" => Between(attempt)

LEMMA ReportStep ==
  ASSUME SafeConfig, Restartable, TypeOK, ServerInv, ReportInv, [Next]_vars
  PROVE  /\ ReportInv'
         /\ details # None => details' # None /\ details'.offset >= details.offset
<1> DEFINE Onward == details # None => details' # None /\ details'.offset >= details.offset
           NoneYet == \A a \in Attempt : pc[a] \in {"idle", "resume"} => hbBuf[a] = None
<1>0. /\ ControlTypeOK /\ SdkTypeOK /\ LoopTypeOK /\ ServerTypeOK /\ attempt \in Attempt
      /\ ~Shared /\ NoneYet
      /\ \A a \in Attempt : pos[a] \in Nat /\ (hbBuf[a] # None => hbBuf[a].offset \in Nat)
      /\ details # None => details.offset \in Nat
  BY SMTT(40), ChunkEngineAssumption
     DEF TypeOK, SafeConfig, ReportInv, ServerTypeOK, SdkTypeOK, LoopTypeOK, ChunkProgress
<1>1. details' = details => Onward
  BY <1>0
<1>2. ASSUME NEW a \in Attempt, Poll(a) PROVE ReportInv' /\ Onward
  <2>1. /\ status = "scheduled" /\ a = attempt /\ pc[a] = "idle" /\ hbBuf[a] = None
        /\ UNCHANGED <<attempt, details, hbBuf, pos>>
        /\ pc' = [pc EXCEPT ![a] = "resume"] /\ given' = [given EXCEPT ![a] = details]
    BY <1>0, <1>2 DEF Poll, Goto, loop, ServerInv
  <2>2. NoneYet'
    BY <1>0, <2>1 DEF ControlTypeOK
  <2>3. Between(attempt)'
    BY <1>0, <2>1 DEF Between, Looping, ControlTypeOK, SdkTypeOK
  <2>4. QED
    BY <1>1, <2>1, <2>2, <2>3 DEF ReportInv
<1>3. ASSUME NEW a \in Attempt, Local(a) PROVE ReportInv' /\ Onward
  <2>1. UNCHANGED <<status, attempt, details, given>>
    BY <1>3, LocalServer DEF server
  <2>2. /\ \A d \in Attempt \ {a} : pc'[d] = pc[d] /\ hbBuf'[d] = hbBuf[d] /\ pos'[d] = pos[d]
        /\ pc'[a] \notin {"idle", "resume"}
    <3>1. \E l \in Looping \cup {"close", "ret"} : pc' = [pc EXCEPT ![a] = l]
      <4>1. CASE Resume(a) \/ CheckAlive(a) \/ Read(a) \/ EndOfData(a)
        BY <4>1 DEF Resume, CheckAlive, Read, EndOfData, Return, Goto, Looping
      <4>2. CASE Keep(a) \/ Filter(a) \/ Skip(a) \/ Reject(a)
        BY <4>2 DEF Keep, Filter, Skip, Reject, Return, Goto, Looping
      <4>3. CASE Write(a) \/ RecordHeartbeat(a) \/ CheckHeartbeat(a)
        BY <4>3 DEF Write, RecordHeartbeat, CheckHeartbeat, Return, Goto, Looping
      <4>4. CASE Close(a) \/ Fail(a) \/ WriteFails(a)
        BY <4>4 DEF Close, Fail, WriteFails, Return, Goto, Looping
      <4>5. QED
        BY <1>3, <4>1, <4>2, <4>3, <4>4 DEF Local
    <3>2. \A d \in Attempt \ {a} : hbBuf'[d] = hbBuf[d] /\ pos'[d] = pos[d]
      <4>1. CASE Resume(a) \/ Read(a)
        <5>1. hbBuf' = hbBuf /\ \E p : pos' = pos \/ pos' = [pos EXCEPT ![Inst(a)] = p]
          <6>1. CASE Resume(a)
            BY <6>1 DEF Resume, sdk
          <6>2. CASE Read(a)
            BY <6>2 DEF Read, sdk
          <6>3. QED
            BY <4>1, <6>1, <6>2
        <5>2. Inst(a) = a
          BY <1>0 DEF Inst
        <5>3. PICK p : pos' = pos \/ pos' = [pos EXCEPT ![a] = p]
          BY <5>1, <5>2
        <5>4. \A d \in Attempt \ {a} : pos'[d] = pos[d]
          BY <1>0, <5>3 DEF LoopTypeOK
        <5>5. QED
          BY <5>1, <5>4
      <4>2. CASE RecordHeartbeat(a)
        BY <1>0, <4>2 DEF RecordHeartbeat, Inst, loop, SdkTypeOK
      <4>3. CASE Keep(a) \/ Filter(a) \/ Skip(a) \/ Reject(a)
        BY <4>3 DEF Keep, Filter, Skip, Reject, Take, sdk
      <4>4. CASE CheckAlive(a) \/ EndOfData(a) \/ Write(a) \/ CheckHeartbeat(a)
        BY <4>4 DEF CheckAlive, EndOfData, Write, CheckHeartbeat, sdk, loop
      <4>5. CASE Close(a) \/ Fail(a) \/ WriteFails(a)
        BY <4>5 DEF Close, Fail, WriteFails, sdk, loop
      <4>6. QED
        BY <1>3, <4>1, <4>2, <4>3, <4>4, <4>5 DEF Local
    <3>3. QED
      BY <1>0, <3>1, <3>2 DEF ControlTypeOK, Looping
  <2>3. NoneYet'
    BY <1>0, <2>2
  <2>4. ASSUME status = "started", a = attempt PROVE Between(a)'
    <3>1. Between(a)
      BY <2>4 DEF ReportInv
    <3>2. CASE Resume(a)
      <4>1. /\ pc[a] = "resume" /\ hbBuf' = hbBuf /\ hbBuf[a] = None
            /\ given[a] # None => pos'[a] = given[a].offset
        BY <1>0, <3>2 DEF Resume, Inst, sdk, LoopTypeOK
      <4>2. QED
        BY <1>0, <2>1, <2>2, <3>1, <4>1 DEF Between
    <3>3. CASE RecordHeartbeat(a)
      <4>1. /\ pc[a] = "heartbeat" /\ pos' = pos
            /\ hbBuf'[a] # None /\ hbBuf'[a].offset = pos[a]
        <5>1. hbBuf'[a] = [processed |-> processed[a], filtered |-> filtered[a],
                           skipped |-> skipped[a], offset |-> pos[a]]
          BY <1>0, <3>3 DEF RecordHeartbeat, Inst, SdkTypeOK
        <5>2. hbBuf'[a] \in ChunkProgress
          BY <1>0, <5>1 DEF ChunkProgress, LoopTypeOK
        <5>3. QED
          BY <3>3, <5>1, <5>2, ChunkEngineAssumption DEF RecordHeartbeat, loop
      <4>2. QED
        BY <1>0, <2>1, <2>2, <3>1, <4>1 DEF Between, Looping
    <3>4. CASE ~Resume(a) /\ ~RecordHeartbeat(a)
      <4>1. hbBuf' = hbBuf /\ pos'[a] >= pos[a] /\ pos'[a] \in Nat
            /\ (pc'[a] \in Looping => pc[a] \in Looping)
        <5>1. CASE Read(a)
          <6>1. PICK k \in 1..ReadSize : pos' = [pos EXCEPT ![a] = pos[a] + k]
            BY <1>0, <5>1 DEF Read, Inst
          <6>2. k \in Nat /\ pos'[a] = pos[a] + k /\ pos[a] \in Nat
            BY <1>0, <6>1, ChunkEngineAssumption DEF LoopTypeOK
          <6>3. hbBuf' = hbBuf /\ pc[a] \in Looping
            BY <5>1 DEF Read, sdk, Looping
          <6>4. QED
            BY <6>2, <6>3
        <5>2. CASE ~Read(a)
          <6>1. hbBuf' = hbBuf /\ pos' = pos
            BY <1>3, <3>4, <5>2 DEF Local, CheckAlive, EndOfData, Keep, Filter, Skip, Reject, Take,
               Write, CheckHeartbeat, Close, Fail, WriteFails, sdk, loop
          <6>2. pc'[a] \in Looping => pc[a] \in Looping
            BY <1>0, <1>3, <3>4, <5>2 DEF Local, CheckAlive, EndOfData, Keep, Filter, Skip, Reject,
               Take, Write, CheckHeartbeat, Close, Fail, WriteFails, Return, Goto, ControlTypeOK, Looping
          <6>3. QED
            BY <1>0, <6>1, <6>2
        <5>3. QED
          BY <5>1, <5>2
      <4>2. QED
        BY <1>0, <2>1, <2>2, <3>1, <4>1 DEF Between
    <3>5. QED
      BY <3>2, <3>3, <3>4
  <2>5. ASSUME status = "started", a # attempt PROVE Between(attempt)'
    BY <1>0, <2>1, <2>2, <2>5 DEF ReportInv, Between
  <2>6. QED
    BY <1>1, <2>1, <2>3, <2>4, <2>5 DEF ReportInv
<1>4. ASSUME NEW a \in Attempt, Respond(a) PROVE ReportInv' /\ Onward
  <2>1. /\ details' = details /\ UNCHANGED <<given, pos>>
        /\ pc' = [pc EXCEPT ![a] = "done"] /\ hbBuf' = [hbBuf EXCEPT ![a] = None]
        /\ status' = "started" => UNCHANGED <<status, attempt>> /\ ~(status = "started" /\ a = attempt)
    BY <1>4 DEF Respond, Goto, Current, Retry, server, loop
  <2>2. NoneYet'
    BY <1>0, <2>1 DEF ControlTypeOK, SdkTypeOK
  <2>3. status' = "started" => Between(attempt)'
    BY <1>0, <2>1 DEF ReportInv, Between, ControlTypeOK, SdkTypeOK
  <2>4. QED
    BY <1>1, <2>1, <2>2, <2>3 DEF ReportInv
<1>5. ASSUME NEW a \in Attempt, DeliverHeartbeat(a) PROVE ReportInv' /\ Onward
  <2>1. /\ UNCHANGED <<status, attempt, given, pos, pc>> /\ hbBuf[a] # None
        /\ hbBuf' = [hbBuf EXCEPT ![a] = None]
        /\ details' = IF Current(a) THEN hbBuf[a] ELSE details
        /\ pc[a] # "resume"
    BY <1>0, <1>5 DEF DeliverHeartbeat, control, loop
  <2>2. NoneYet'
    BY <1>0, <2>1 DEF SdkTypeOK
  <2>3. CASE Current(a)
    <3>1. status = "started" /\ a = attempt /\ Between(a)
      BY <2>3 DEF Current, ReportInv
    <3>2. Onward
      BY <1>0, <2>1, <2>3, <3>1 DEF Between
    <3>3. Between(attempt)'
      BY <1>0, <2>1, <2>3, <3>1 DEF Between, SdkTypeOK
    <3>4. QED
      BY <2>2, <3>2, <3>3 DEF ReportInv
  <2>4. CASE ~Current(a)
    <3>1. status = "started" => Between(attempt)'
      BY <1>0, <2>1, <2>4 DEF Current, ReportInv, Between, SdkTypeOK
    <3>2. QED
      BY <1>1, <2>1, <2>2, <2>4, <3>1 DEF ReportInv
  <2>5. QED
    BY <2>3, <2>4
<1>6. ASSUME NEW a \in Attempt, ContextLost(a) PROVE ReportInv' /\ Onward
  <2>1. UNCHANGED <<status, attempt, details, given, pos, pc>> /\ hbBuf' = [hbBuf EXCEPT ![a] = None]
    BY <1>6 DEF ContextLost, server, control, loop
  <2>2. NoneYet' /\ (status = "started" => Between(attempt)')
    BY <1>0, <2>1 DEF ReportInv, Between, SdkTypeOK
  <2>3. QED
    BY <1>1, <2>1, <2>2 DEF ReportInv
<1>7. CASE LossDetected \/ FalseTimeout
  <2>1. UNCHANGED <<details, pc, hbBuf>> /\ status' # "started"
    BY <1>7 DEF LossDetected, FalseTimeout, Retry, control, sdk
  <2>2. QED
    BY <1>0, <1>1, <2>1 DEF ReportInv
<1>8. CASE Cancel \/ UNCHANGED vars
  <2>1. UNCHANGED <<attempt, details, pc, hbBuf, given, pos>> /\ (status' = "started" => status = "started")
    BY <1>8 DEF Cancel, vars, server, control, sdk, loop
  <2>2. QED
    BY <1>0, <1>1, <2>1 DEF ReportInv, Between
<1>9. CASE Crash
  <2>1. /\ UNCHANGED <<status, attempt, details, given, pos>>
        /\ \A a \in Attempt : hbBuf'[a] = None /\ pc'[a] \notin Looping \cup {"resume"}
    BY <1>0, <1>9 DEF Crash, server, Live, Looping, ControlTypeOK
  <2>2. QED
    BY <1>0, <1>1, <2>1 DEF ReportInv, Between
<1>10. QED
  BY <1>2, <1>3, <1>4, <1>5, <1>6, <1>7, <1>8, <1>9, Steps

(* The checkpoint the server holds never moves back, whichever attempts          *)
(* heartbeat and however late (engine.go 108).                                   *)
THEOREM Monotonic == Spec => CheckpointMonotonic
<1> DEFINE Inv == SafeConfig /\ Restartable => ReportInv
<1>1. Init => Inv
  BY DEF Init, ReportInv
<1>2. TypeOK /\ IInv /\ Inv /\ [Next]_vars => Inv'
  BY ReportStep DEF IInv, SafeConfig
<1>3. TypeOK /\ IInv /\ Inv /\ [Next]_vars =>
        (SafeConfig /\ Restartable /\ details # None =>
           details' # None /\ details'.offset >= details.offset)
  BY ReportStep DEF IInv
<1>4. Spec => [](TypeOK /\ IInv)
  BY TypeCorrect, Inductive, PTL
<1>5. Spec => []Inv
  BY <1>1, <1>2, <1>4, PTL DEF Spec
<1>6. QED
  BY <1>3, <1>4, <1>5, PTL DEF Spec, CheckpointMonotonic
================================================================================
