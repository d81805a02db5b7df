-------------------------- MODULE ExecInstancesProof --------------------------
(* Proofs about the instances of a chunk phase, for any number of calls that     *)
(* overlap and of failures.                                                      *)
EXTENDS ExecInstances, TLAPS

-------------------------------------------------------------------------------
(* Roles and instances.                                                          *)

LEMMA Roles ==
  /\ \A i \in 1..3 : Order[i] \in Role
  /\ \A r \in Role : \E i \in 1..3 : r = Order[i]
  /\ \A i, j \in 1..3 : Order[i] = Order[j] => i = j
BY DEF Order, Role

LEMMA Calls == \A c \in Call : c \in 1..MaxCalls /\ c \in 0..MaxCalls /\ c # 0
BY ExecInstancesAssumption DEF Call

LEMMA InstanceOf ==
  ASSUME NEW c \in Call, NEW r \in Role
  PROVE  Inst(c, r) \in Instances
BY Calls, ExecInstancesAssumption DEF Inst, Instances

-------------------------------------------------------------------------------
(* Type correctness.                                                             *)

PCs == ({"idle", "loop", "done"} \X (0..1)) \cup ({"resolve", "close"} \X (1..3))

(* The role a call is at.                                                        *)
LEMMA AtRole ==
  ASSUME TypeOK, NEW c \in Call, At(c, "resolve") \/ At(c, "close")
  PROVE  pc[c][2] \in 1..3 /\ RoleAt(c) = Order[pc[c][2]] /\ RoleAt(c) \in Role
<1>1. pc[c] \in PCs
  BY DEF TypeOK, PCs
<1>2. pc[c][2] \in 1..3
  BY <1>1 DEF At, PCs
<1>3. QED
  BY <1>2, Roles DEF RoleAt

(* A fault is counted.                                                           *)
LEMMA FaultTypes ==
  ASSUME TypeOK, NEW c \in Call, NEW what \in {"factory", "loop", "panic", "close"},
         Fine \/ Goes(c, what)
  PROVE  /\ bad' \in [Call -> SUBSET {"factory", "loop", "panic", "close"}]
         /\ faults' \in 0..MaxFaults
BY ExecInstancesAssumption DEF TypeOK, Fine, Goes

LEMMA CloseTypes ==
  ASSUME TypeOK, NEW c \in Call, At(c, "close"), closes' = Counted(c)
  PROVE  closes' \in [Instances -> Nat]
BY AtRole, InstanceOf DEF TypeOK, Counted

LEMMA TypeStep == TypeOK /\ [Next]_vars => TypeOK'
<1> SUFFICES ASSUME TypeOK, [Next]_vars PROVE TypeOK'
  OBVIOUS
<1>1. CASE UNCHANGED vars
  BY <1>1 DEF vars, TypeOK
<1>2. ASSUME NEW c \in Call, Begin(c) PROVE TypeOK'
  <2>1. bad' \in [Call -> SUBSET {"factory", "loop", "panic", "close"}] /\ faults' \in 0..MaxFaults
    BY <1>2, FaultTypes DEF Begin
  <2>2. pc' \in [Call -> PCs]
    BY <1>2 DEF Begin, GoTo, TypeOK, PCs
  <2>3. QED
    BY <1>2, <2>1, <2>2 DEF Begin, TypeOK, PCs
<1>3. ASSUME NEW c \in Call, Resolve(c) PROVE TypeOK'
  <2>1. bad' \in [Call -> SUBSET {"factory", "loop", "panic", "close"}] /\ faults' \in 0..MaxFaults
    BY <1>3, FaultTypes DEF Resolve
  <2>2. pc[c][2] \in 1..3
    BY <1>3, AtRole DEF Resolve
  <2>3. pc' \in [Call -> PCs]
    BY <1>3, <2>2 DEF Resolve, GoTo, TypeOK, PCs
  <2>4. QED
    BY <1>3, <2>1, <2>3 DEF Resolve, TypeOK, PCs
<1>4. ASSUME NEW c \in Call, FactoryFails(c) PROVE TypeOK'
  <2>1. bad' \in [Call -> SUBSET {"factory", "loop", "panic", "close"}] /\ faults' \in 0..MaxFaults
    BY <1>4, FaultTypes DEF FactoryFails
  <2>2. pc' \in [Call -> PCs] /\ res' \in [Call -> {"none", "ok", "factory", "loop", "panic", "close"}]
    BY <1>4 DEF FactoryFails, GoTo, TypeOK, PCs
  <2>3. QED
    BY <1>4, <2>1, <2>2 DEF FactoryFails, TypeOK, PCs
<1>5. ASSUME NEW c \in Call, LoopEnds(c) \/ LoopFails(c) \/ Panics(c) PROVE TypeOK'
  <2>1. bad' \in [Call -> SUBSET {"factory", "loop", "panic", "close"}] /\ faults' \in 0..MaxFaults
    BY <1>5, FaultTypes DEF LoopEnds, LoopFails, LoopFailsTo, Panics
  <2>2. pc' \in [Call -> PCs]
    BY <1>5 DEF LoopEnds, LoopFails, LoopFailsTo, Panics, GoTo, TypeOK, PCs
  <2>3. res' \in [Call -> {"none", "ok", "factory", "loop", "panic", "close"}]
    BY <1>5 DEF LoopEnds, LoopFails, LoopFailsTo, Panics, TypeOK
  <2>4. UNCHANGED <<factory, closer, closes>>
    BY <1>5 DEF LoopEnds, LoopFails, LoopFailsTo, Panics
  <2>5. QED
    BY <2>1, <2>2, <2>3, <2>4 DEF TypeOK, PCs
<1>6. ASSUME NEW c \in Call, Close(c) \/ CloseFails(c) PROVE TypeOK'
  <2>1. /\ bad' \in [Call -> SUBSET {"factory", "loop", "panic", "close"}] /\ faults' \in 0..MaxFaults
        /\ closes' \in [Instances -> Nat]
    BY <1>6, FaultTypes, CloseTypes DEF Close, CloseUpTo, CloseFails, CloseFailsWith
  <2>2. pc[c][2] \in 1..3
    BY <1>6, AtRole DEF Close, CloseUpTo, CloseFails, CloseFailsWith
  <2>3. pc' \in [Call -> PCs]
    BY <1>6, <2>2 DEF Close, CloseUpTo, CloseFails, CloseFailsWith, GoTo, TypeOK, PCs
  <2>4. res' \in [Call -> {"none", "ok", "factory", "loop", "panic", "close"}]
    BY <1>6 DEF Close, CloseUpTo, CloseFails, CloseFailsWith, TypeOK
  <2>5. UNCHANGED <<factory, closer>>
    BY <1>6 DEF Close, CloseUpTo, CloseFails, CloseFailsWith
  <2>6. QED
    BY <2>1, <2>3, <2>4, <2>5 DEF TypeOK, PCs
<1>7. QED
  BY <1>1, <1>2, <1>3, <1>4, <1>5, <1>6 DEF Next

(* Every variable keeps its type.                                                *)
THEOREM TypeCorrect == Spec => []TypeOK
<1>1. Init => TypeOK
  BY ExecInstancesAssumption DEF Init, TypeOK
<1>2. QED
  BY <1>1, TypeStep, PTL DEF Spec

-------------------------------------------------------------------------------
(* What has been closed.                                                         *)

(* Call c has yet to go past the role that is i-th in the order.                 *)
Ahead(c, i) ==
  \/ pc[c][1] \in {"idle", "resolve", "loop"}
  \/ At(c, "close") /\ pc[c][2] <= i

(* closeExecInstances closes what factories made for this call, each once as it  *)
(* goes past its role ...                                                        *)
ClosedTimes(c, i, n) ==
  /\ n <= 1
  /\ Ahead(c, i) => n = 0
  /\ ~Ahead(c, i) /\ bad[c] \subseteq {"loop"} /\ Order[i] \in closer \cap factory => n = 1

OwnClosed == \A c \in Call, i \in 1..3 : ClosedTimes(c, i, closes[<<Order[i], c>>])

(* ... and what is shared only if it has a Close.                                *)
SharedOpen == closer \subseteq factory => \A r \in Role : closes[<<r, 0>>] = 0

(* The error a call will return, along its way.                                  *)
Errors ==
  \A c \in Call :
    /\ At(c, "done") => /\ res[c] = "ok" <=> bad[c] = {}
                        /\ "loop" \in bad[c] => res[c] = "loop"
    /\ ~At(c, "done") => \/ res[c] = "none" /\ bad[c] = {}
                         \/ At(c, "close") /\ res[c] = "loop" /\ bad[c] = {"loop"}

IInv == TypeOK /\ OwnClosed /\ SharedOpen /\ Errors

(* A step of one call leaves the others where they are.                          *)
LEMMA OneCall ==
  ASSUME TypeOK, NEW c \in Call,
         \/ Begin(c) \/ Resolve(c) \/ FactoryFails(c)
         \/ LoopEnds(c) \/ LoopFails(c) \/ Panics(c)
         \/ Close(c) \/ CloseFails(c)
  PROVE  /\ UNCHANGED <<factory, closer>>
         /\ \A d \in Call \ {c} : pc'[d] = pc[d] /\ res'[d] = res[d] /\ bad'[d] = bad[d]
BY DEF TypeOK, Begin, Resolve, FactoryFails, LoopEnds, LoopFails, LoopFailsTo, Panics, Close,
       CloseUpTo, CloseFails, CloseFailsWith, GoTo, Goes, Fine

(* Before its closing a call closes nothing.                                     *)
LEMMA WorkStep ==
  ASSUME IInv, NEW c \in Call,
         \/ Begin(c) \/ Resolve(c) \/ FactoryFails(c)
         \/ LoopEnds(c) \/ LoopFails(c) \/ Panics(c)
  PROVE  OwnClosed' /\ SharedOpen' /\ Errors'
<1>1. /\ TypeOK /\ UNCHANGED <<factory, closer, closes>>
      /\ pc[c][1] \in {"idle", "resolve", "loop"}
  BY DEF IInv, Begin, Resolve, FactoryFails, LoopEnds, LoopFails, LoopFailsTo, Panics, At
<1>2. \A d \in Call \ {c} : pc'[d] = pc[d] /\ res'[d] = res[d] /\ bad'[d] = bad[d]
  BY <1>1, OneCall
<1>3. res[c] = "none" /\ bad[c] = {}
  BY <1>1 DEF IInv, Errors, At
<1>4. \/ pc'[c][1] \in {"resolve", "loop"} /\ res'[c] = "none" /\ bad'[c] = {}
      \/ pc'[c] = <<"close", 1>> /\ res'[c] = "none" /\ bad'[c] = {}
      \/ pc'[c] = <<"close", 1>> /\ res'[c] = "loop" /\ bad'[c] = {"loop"}
      \/ pc'[c] = <<"done", 0>> /\ res'[c] = "factory" /\ bad'[c] = {"factory"}
      \/ pc'[c] = <<"done", 0>> /\ res'[c] = "panic" /\ bad'[c] = {"panic"}
  BY <1>1, <1>3 DEF TypeOK, Begin, Resolve, FactoryFails, LoopEnds, LoopFails, LoopFailsTo, Panics,
                    GoTo, Goes, Fine
<1>5. SharedOpen'
  BY <1>1 DEF IInv, SharedOpen
<1>6. Errors'
  BY <1>2, <1>4 DEF IInv, Errors, At
<1>7. OwnClosed'
  <2> SUFFICES ASSUME NEW d \in Call, NEW i \in 1..3
               PROVE  ClosedTimes(d, i, closes[<<Order[i], d>>])'
    BY DEF OwnClosed
  <2>1. ClosedTimes(d, i, closes[<<Order[i], d>>])
    BY DEF IInv, OwnClosed
  <2>2. CASE d # c
    BY <1>1, <1>2, <2>1, <2>2 DEF ClosedTimes, Ahead, At
  <2>3. CASE d = c
    <3>1. closes[<<Order[i], c>>] = 0
      BY <1>1, <2>1, <2>3 DEF ClosedTimes, Ahead
    <3>2. Ahead(c, i)' \/ "factory" \in bad'[c] \/ "panic" \in bad'[c]
      BY <1>4 DEF Ahead, At
    <3>3. QED
      BY <1>1, <2>3, <3>1, <3>2 DEF ClosedTimes
  <2>4. QED
    BY <2>2, <2>3
<1>8. QED
  BY <1>5, <1>6, <1>7

(* A step of the closing counts at most the instance of the role it is at.       *)
LEMMA CloseCounts ==
  ASSUME TypeOK, NEW c \in Call, At(c, "close"), closes' = Counted(c)
  PROVE  LET k == pc[c][2]
         IN  /\ \A x \in Instances : x # Inst(c, Order[k]) => closes'[x] = closes[x]
             /\ Order[k] \in closer => closes'[Inst(c, Order[k])] = closes[Inst(c, Order[k])] + 1
             /\ Order[k] \notin closer => closes' = closes
BY AtRole, InstanceOf DEF Counted, TypeOK

LEMMA CloseStep ==
  ASSUME IInv, NEW c \in Call, Close(c) \/ CloseFails(c)
  PROVE  OwnClosed' /\ SharedOpen' /\ Errors'
<1> DEFINE k == pc[c][2]
<1>1. /\ TypeOK /\ UNCHANGED <<factory, closer>> /\ At(c, "close") /\ closes' = Counted(c)
      /\ k \in 1..3 /\ Order[k] \in Role
  BY AtRole, Roles DEF IInv, Close, CloseUpTo, CloseFails, CloseFailsWith
<1>2. \A d \in Call \ {c} : pc'[d] = pc[d] /\ res'[d] = res[d] /\ bad'[d] = bad[d]
  BY <1>1, OneCall
<1>3. \/ res[c] = "none" /\ bad[c] = {}
      \/ res[c] = "loop" /\ bad[c] = {"loop"}
  BY <1>1 DEF IInv, Errors, At
<1>4. \/ k < 3 /\ pc'[c] = <<"close", k + 1>> /\ res'[c] = res[c] /\ bad'[c] = bad[c]
      \/ /\ k = 3 /\ pc'[c] = <<"done", 0>> /\ bad'[c] = bad[c]
         /\ res'[c] = IF res[c] = "none" THEN "ok" ELSE res[c]
      \/ /\ pc'[c] = <<"done", 0>> /\ bad'[c] = bad[c] \cup {"close"}
         /\ res'[c] = IF res[c] = "none" THEN "close" ELSE res[c]
  BY <1>1 DEF TypeOK, Close, CloseUpTo, CloseFails, CloseFailsWith, GoTo, Goes, Fine
<1>5. Errors'
  BY <1>2, <1>3, <1>4 DEF IInv, Errors, At
<1>6. SharedOpen'
  <2> SUFFICES ASSUME closer \subseteq factory, NEW r \in Role PROVE closes'[<<r, 0>>] = 0
    BY <1>1 DEF SharedOpen
  <2>1. closes[<<r, 0>>] = 0 /\ <<r, 0>> \in Instances
    BY ExecInstancesAssumption DEF IInv, SharedOpen, Instances
  <2>2. CASE Order[k] \in closer
    <3>1. Inst(c, Order[k]) = <<Order[k], c>> /\ c # 0
      BY <2>2, Calls DEF Inst
    <3>2. QED
      BY <1>1, <2>1, <3>1, CloseCounts
  <2>3. CASE Order[k] \notin closer
    BY <1>1, <2>1, <2>3, CloseCounts
  <2>4. QED
    BY <2>2, <2>3
<1>7. OwnClosed'
  <2> SUFFICES ASSUME NEW d \in Call, NEW i \in 1..3
               PROVE  ClosedTimes(d, i, closes[<<Order[i], d>>])'
    BY DEF OwnClosed
  <2>1. <<Order[i], d>> \in Instances /\ d # 0
    BY Roles, Calls DEF Instances
  <2>2. ClosedTimes(d, i, closes[<<Order[i], d>>])
    BY DEF IInv, OwnClosed
  <2>3. CASE d # c
    <3>1. <<Order[i], d>> # Inst(c, Order[k])
      BY <2>1, <2>3 DEF Inst
    <3>2. closes'[<<Order[i], d>>] = closes[<<Order[i], d>>]
      BY <1>1, <2>1, <3>1, CloseCounts
    <3>3. QED
      BY <1>1, <1>2, <2>2, <2>3, <3>2 DEF ClosedTimes, Ahead, At
  <2>4. CASE d = c /\ i # k
    <3>1. <<Order[i], d>> # Inst(c, Order[k])
      BY <1>1, <2>1, <2>4, Roles DEF Inst
    <3>2. closes'[<<Order[i], d>>] = closes[<<Order[i], d>>]
      BY <1>1, <2>1, <3>1, CloseCounts
    <3>3. bad'[c] \subseteq {"loop"} => bad[c] \subseteq {"loop"} /\ (Ahead(c, i)' <=> Ahead(c, i))
      BY <1>1, <1>4, <2>4 DEF Ahead, At
    <3>4. Ahead(c, i)' => Ahead(c, i)
      BY <1>1, <1>4, <2>4 DEF Ahead, At
    <3>5. QED
      BY <1>1, <2>2, <2>4, <3>2, <3>3, <3>4 DEF ClosedTimes
  <2>5. CASE d = c /\ i = k
    <3>1. Ahead(c, i) /\ ~Ahead(c, i)'
      BY <1>1, <1>4, <2>5 DEF Ahead, At
    <3>2. closes[<<Order[i], c>>] = 0
      BY <2>2, <2>5, <3>1 DEF ClosedTimes
    <3>3. CASE Order[i] \in closer \cap factory
      <4>1. Inst(c, Order[k]) = <<Order[i], c>>
        BY <2>5, <3>3 DEF Inst
      <4>2. closes'[<<Order[i], c>>] = 1
        BY <1>1, <2>5, <3>2, <3>3, <4>1, CloseCounts
      <4>3. QED
        BY <2>5, <3>1, <4>2 DEF ClosedTimes
    <3>4. CASE Order[i] \notin closer
      <4>1. closes' = closes
        BY <1>1, <2>5, <3>4, CloseCounts
      <4>2. QED
        BY <1>1, <2>5, <3>1, <3>2, <3>4, <4>1 DEF ClosedTimes
    <3>5. CASE Order[i] \notin factory
      <4>1. <<Order[i], c>> # Inst(c, Order[k])
        BY <2>1, <2>5, <3>5 DEF Inst
      <4>2. closes'[<<Order[i], c>>] = 0
        BY <1>1, <2>1, <2>5, <3>2, <4>1, CloseCounts
      <4>3. QED
        BY <1>1, <2>5, <3>1, <3>5, <4>2 DEF ClosedTimes
    <3>6. QED
      BY <3>3, <3>4, <3>5
  <2>6. QED
    BY <2>3, <2>4, <2>5
<1>8. QED
  BY <1>5, <1>6, <1>7

LEMMA Invariant == Spec => []IInv
<1>1. Init => IInv
  <2> SUFFICES ASSUME Init PROVE IInv
    OBVIOUS
  <2>1. TypeOK
    BY ExecInstancesAssumption DEF Init, TypeOK
  <2>2. OwnClosed
    <3> SUFFICES ASSUME NEW c \in Call, NEW i \in 1..3
                 PROVE  ClosedTimes(c, i, closes[<<Order[i], c>>])
      BY DEF OwnClosed
    <3>1. <<Order[i], c>> \in Instances
      BY Roles, Calls DEF Instances
    <3>2. closes[<<Order[i], c>>] = 0 /\ pc[c][1] = "idle"
      BY <3>1 DEF Init
    <3>3. QED
      BY <3>2 DEF ClosedTimes, Ahead
  <2>3. SharedOpen
    BY ExecInstancesAssumption DEF Init, SharedOpen, Instances
  <2>4. Errors
    BY DEF Init, Errors, At
  <2>5. QED
    BY <2>1, <2>2, <2>3, <2>4 DEF IInv
<1>2. IInv /\ [Next]_vars => IInv'
  <2> SUFFICES ASSUME IInv, [Next]_vars PROVE IInv'
    OBVIOUS
  <2>1. TypeOK'
    BY TypeStep DEF IInv
  <2>2. OwnClosed' /\ SharedOpen' /\ Errors'
    <3>1. CASE UNCHANGED vars
      BY <3>1 DEF vars, IInv, OwnClosed, ClosedTimes, SharedOpen, Errors, Ahead, At
    <3>2. CASE Next
      BY <3>2, WorkStep, CloseStep DEF Next
    <3>3. QED
      BY <3>1, <3>2
  <2>3. QED
    BY <2>1, <2>2 DEF IInv
<1>3. QED
  BY <1>1, <1>2, PTL DEF Spec

(* With a factory for every role that has a Close, nothing in use has been       *)
(* closed, and nothing is closed twice (phase.go 128-170, 798-807).              *)
THEOREM LifetimesHold == Spec => []Lifetimes
<1>1. IInv => Lifetimes
  <2> SUFFICES ASSUME IInv, closer \subseteq factory
               PROVE  UsableInLoop /\ \A x \in Instances : closes[x] <= 1
    BY DEF Lifetimes
  <2>1. \A r \in Role : closes[<<r, 0>>] = 0
    BY DEF IInv, SharedOpen
  <2>2. \A c \in Call, r \in Role :
          closes[<<r, c>>] <= 1 /\ (At(c, "loop") => closes[<<r, c>>] = 0)
    <3> SUFFICES ASSUME NEW c \in Call, NEW r \in Role
                 PROVE  closes[<<r, c>>] <= 1 /\ (At(c, "loop") => closes[<<r, c>>] = 0)
      OBVIOUS
    <3>1. PICK i \in 1..3 : r = Order[i]
      BY Roles
    <3>2. ClosedTimes(c, i, closes[<<r, c>>])
      BY <3>1 DEF IInv, OwnClosed
    <3>3. QED
      BY <3>2 DEF ClosedTimes, Ahead, At
  <2>3. UsableInLoop
    BY <2>1, <2>2 DEF UsableInLoop, Own, Inst
  <2>4. \A x \in Instances : closes[x] <= 1
    <3>1. \A c \in 0..MaxCalls : c = 0 \/ c \in Call
      BY ExecInstancesAssumption DEF Call
    <3>2. QED
      BY <2>1, <2>2, <3>1 DEF Instances
  <2>5. QED
    BY <2>3, <2>4
<1>2. QED
  BY <1>1, Invariant, PTL

(* What the factories of a call opened is closed when it returns, unless a       *)
(* factory, a Close or a panic went wrong.                                       *)
THEOREM AllClosed == Spec => []NothingLeftOpen
<1>1. IInv => NothingLeftOpen
  <2> SUFFICES ASSUME IInv, NEW c \in Call, At(c, "done"), bad[c] \subseteq {"loop"},
                      NEW r \in closer \cap factory
               PROVE  closes[Inst(c, r)] = 1
    BY DEF NothingLeftOpen
  <2>1. PICK i \in 1..3 : r = Order[i]
    BY Roles DEF IInv, TypeOK
  <2>2. ClosedTimes(c, i, closes[<<r, c>>])
    BY <2>1 DEF IInv, OwnClosed
  <2>3. QED
    BY <2>1, <2>2 DEF ClosedTimes, Ahead, At, Inst
<1>2. QED
  BY <1>1, Invariant, PTL

(* A call returns ok only if nothing went wrong, and the loop's error if there   *)
(* is one.                                                                       *)
THEOREM ErrorsReported == Spec => []ErrorReported
<1>1. IInv => ErrorReported
  BY DEF IInv, Errors, ErrorReported
<1>2. QED
  BY <1>1, Invariant, PTL
===============================================================================
