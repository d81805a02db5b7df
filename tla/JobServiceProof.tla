---------------------------- MODULE JobServiceProof ----------------------------
(* Proofs about jobs as a service, for every catalog, every parameters and       *)
(* every number of calls, process starts and failures.                           *)
EXTENDS JobService, FiniteSetTheorems, SequenceTheorems, Induction, TLAPS

-------------------------------------------------------------------------------
(* The derivation of IDs.                                                        *)

(* Whatever order the keys of a map are found in, each is found.                 *)
LEMMA KeysFound ==
  ASSUME NEW S, IsFiniteSet(S), NEW keys \in SetToSeqs(S)
  PROVE  ToSet(keys) = S
<1> DEFINE D == 1..Cardinality(S)
<1>1. Cardinality(S) \in Nat
  BY FS_CardinalityType
<1>2. keys \in Injection(D, S)
  BY DEF SetToSeqs, Injection, IsInjective
<1>3. Cardinality(D) = Cardinality(S)
  BY <1>1, FS_Interval
<1>4. keys \in Surjection(D, S)
  BY <1>2, <1>3, FS_Injection
<1>5. QED
  BY <1>4 DEF Surjection, ToSet

(* sort.Strings makes one sequence of all orders of the same keys.               *)
LEMMA OrderForgotten ==
  ASSUME NEW k, NEW l, ToSet(k) = ToSet(l)
  PROVE  SortStrings(k) = SortStrings(l)
BY DEF SortStrings

(* IDSpec derives one ID from the parameters, whatever order Go ranges over the  *)
(* map in (id.go 51, 65).                                                        *)
THEOREM Deterministic ==
  ASSUME NEW prefix, NEW identity, IsFiniteSet(DOMAIN identity),
         NEW id1 \in WorkflowIDs(prefix, identity), NEW id2 \in WorkflowIDs(prefix, identity)
  PROVE  id1 = id2
<1>1. CASE DOMAIN identity = {}
  BY <1>1 DEF WorkflowIDs
<1>2. CASE DOMAIN identity # {}
  <2>1. PICK k \in SetToSeqs(DOMAIN identity) : id1 = <<prefix, Serialize(identity, SortStrings(k))>>
    BY <1>2 DEF WorkflowIDs
  <2>2. PICK l \in SetToSeqs(DOMAIN identity) : id2 = <<prefix, Serialize(identity, SortStrings(l))>>
    BY <1>2 DEF WorkflowIDs
  <2>3. SortStrings(k) = SortStrings(l)
    BY KeysFound, OrderForgotten
  <2>4. QED
    BY <2>1, <2>2, <2>3
<1>3. QED
  BY <1>1, <1>2
-------------------------------------------------------------------------------
(* The invariant.                                                                *)

(* What a call found out stays what IDSpec says of its parameters ...            *)
Derived ==
  \A k \in Call :
    /\ call[k].params \in Params \/ call[k].st = "new"
    /\ call[k].st \in {"new", "error", "derived", "started", "refused"}
    /\ call[k].st \in {"derived", "started", "refused"} =>
         call[k].id \in WorkflowIDs(jobs[call[k].job].name,
                                   Identity(call[k].params, jobs[call[k].job].nonIdentity))

(* ... the last execution under an ID was started by a call that derived it ...  *)
ByItsCall ==
  \A id \in DOMAIN exec :
    /\ DOMAIN exec[id] = {"status", "by", "left"}
    /\ exec[id].by \in Call
    /\ call[exec[id].by].id = id /\ call[exec[id].by].st = "started"

(* ... and one that completed is the last one under its ID for ever.             *)
CompletedIsLast ==
  \A k \in finished :
    /\ k \in Call /\ call[k].st = "started"
    /\ call[k].id \in DOMAIN exec
    /\ exec[call[k].id].by = k /\ exec[call[k].id].status = "completed"

Records ==
  /\ DOMAIN call = Call
  /\ \A k \in Call : DOMAIN call[k] = {"st", "job", "params", "id", "by"}

IInv == Records /\ Derived /\ ByItsCall /\ CompletedIsLast

(* There are finitely many keys.                                                 *)
LEMMA KeysFinite ==
  ASSUME NEW s \in Seq(STRING)
  PROVE  IsFiniteSet(ToSet(s))
<1>1. ToSet(s) = {s[i] : i \in 1..Len(s)} /\ Len(s) \in Nat
  BY DEF ToSet
<1>2. IsFiniteSet(1..Len(s))
  BY <1>1, FS_Interval
<1>3. s \in Surjection(1..Len(s), ToSet(s))
  BY <1>1 DEF Surjection
<1>4. QED
  BY <1>2, <1>3, FS_Surjection

(* Two starts with the same identity parameters derive one ID.                   *)
LEMMA SameIdentitySameID ==
  ASSUME NEW k \in Call, NEW l \in Call, Derived, call[k].st # "new", call[l].st # "new",
         call[k].st # "error", call[l].st # "error", IdentityOf(k) = IdentityOf(l)
  PROVE  call[k].id = call[l].id
<1> DEFINE id(m) == Identity(call[m].params, jobs[call[m].job].nonIdentity)
<1>1. jobs[call[k].job].name = jobs[call[l].job].name /\ id(k) = id(l)
  BY DEF IdentityOf
<1>2. IsFiniteSet(DOMAIN id(k))
  <2>1. DOMAIN id(k) \subseteq ToSet(Keys)
    BY JobServiceAssumption DEF Derived, Identity
  <2>2. IsFiniteSet(ToSet(Keys))
    BY IDSpecAssumption, KeysFinite
  <2>3. QED
    BY <2>1, <2>2, FS_Subset
<1>3. /\ call[k].id \in WorkflowIDs(jobs[call[k].job].name, id(k))
      /\ call[l].id \in WorkflowIDs(jobs[call[k].job].name, id(k))
  BY <1>1 DEF Derived
<1>4. QED
  BY <1>2, <1>3, Deterministic

-------------------------------------------------------------------------------
(* One run per identity.                                                         *)

LEMMA IdentityInit == Init => IInv
<1> SUFFICES ASSUME Init PROVE IInv
  OBVIOUS
<1>1. Records /\ Derived
  BY DEF Init, Records, Derived
<1>2. ByItsCall /\ CompletedIsLast
  BY DEF Init, ByItsCall, CompletedIsLast
<1>3. QED
  BY <1>1, <1>2 DEF IInv

(* Deriving an ID concerns a call that has done nothing yet.                     *)
LEMMA DeriveStep ==
  ASSUME IInv, NEW k \in Call, Derive(k)
  PROVE  IInv'
<1>1. PICK j \in DOMAIN jobs, p \in Params :
        \E id \in WorkflowIDs(jobs[j].name, Identity(p, jobs[j].nonIdentity)) :
          call' = [call EXCEPT ![k] = [st |-> IF id = NoID THEN "error" ELSE "derived",
                                       job |-> j, params |-> p, id |-> id, by |-> 0]]
  BY DEF Derive
<1>2. PICK id \in WorkflowIDs(jobs[j].name, Identity(p, jobs[j].nonIdentity)) :
        call' = [call EXCEPT ![k] = [st |-> IF id = NoID THEN "error" ELSE "derived",
                                     job |-> j, params |-> p, id |-> id, by |-> 0]]
  BY <1>1
<1>3. /\ call[k].st = "new" /\ \A l \in Call \ {k} : call'[l] = call[l]
      /\ call'[k] = [st |-> IF id = NoID THEN "error" ELSE "derived",
                     job |-> j, params |-> p, id |-> id, by |-> 0]
      /\ DOMAIN call' = Call
      /\ UNCHANGED <<jobs, exec, finished>>
  BY <1>2 DEF Derive, IInv, Records
<1>4. Records'
  BY <1>3 DEF IInv, Records
<1>5. Derived'
  BY <1>3 DEF IInv, Derived
<1>6. ByItsCall'
  BY <1>3 DEF IInv, ByItsCall
<1>7. CompletedIsLast'
  BY <1>3 DEF IInv, CompletedIsLast
<1>8. QED
  BY <1>4, <1>5, <1>6, <1>7 DEF IInv

(* A start is refused while the last run is running and for ever when it         *)
(* completed; else it takes the place of that run.                               *)
LEMMA ExecuteStep ==
  ASSUME IInv, NEW k \in Call, Execute(k)
  PROVE  IInv'
<1> DEFINE id == call[k].id
           refused == id \in DOMAIN exec /\ exec[id].status \in {"running", "completed"}
<1>1. /\ call[k].st = "derived" /\ UNCHANGED <<jobs, finished>>
      /\ IF refused
           THEN call' = [call EXCEPT ![k].st = "refused", ![k].by = exec[id].by] /\ UNCHANGED exec
           ELSE /\ call' = [call EXCEPT ![k].st = "started", ![k].by = k]
                /\ exec' = [i \in DOMAIN exec \cup {id} |-> IF i # id THEN exec[i] ELSE
                              [status |-> "running", by |-> k,
                               left |-> Scheduled(call[k].job) \cup {0}]]
  BY DEF Execute, ExecuteUnder, process
<1>2. /\ \A l \in Call \ {k} : call'[l] = call[l]
      /\ call'[k].job = call[k].job /\ call'[k].params = call[k].params /\ call'[k].id = id
      /\ DOMAIN call'[k] = DOMAIN call[k] /\ DOMAIN call' = Call
      /\ call'[k].st = IF refused THEN "refused" ELSE "started"
  BY <1>1 DEF IInv, Records
<1>3. Records'
  BY <1>2 DEF IInv, Records
<1>4. Derived'
  BY <1>1, <1>2 DEF IInv, Derived
<1>5. CASE refused
  <2>1. UNCHANGED <<exec, finished>>
    BY <1>1, <1>5
  <2>2. ByItsCall'
    BY <1>1, <1>2, <1>5, <2>1 DEF IInv, ByItsCall
  <2>3. CompletedIsLast'
    BY <1>1, <1>2, <1>5, <2>1 DEF IInv, CompletedIsLast
  <2>4. QED
    BY <1>3, <1>4, <2>2, <2>3 DEF IInv
<1>6. CASE ~refused
  <2>1. /\ DOMAIN exec' = DOMAIN exec \cup {id}
        /\ \A i \in DOMAIN exec \ {id} : exec'[i] = exec[i]
        /\ exec'[id] = [status |-> "running", by |-> k, left |-> Scheduled(call[k].job) \cup {0}]
    BY <1>1, <1>6
  <2>2. ByItsCall'
    BY <1>1, <1>2, <1>6, <2>1 DEF IInv, ByItsCall
  <2>3. \A l \in finished : l # k /\ call[l].id # id
    BY <1>1, <1>6 DEF IInv, CompletedIsLast
  <2>4. CompletedIsLast'
    BY <1>1, <1>2, <2>1, <2>3 DEF IInv, CompletedIsLast
  <2>5. QED
    BY <1>3, <1>4, <2>2, <2>4 DEF IInv
<1>7. QED
  BY <1>5, <1>6

(* What the server does to a run that is going on.                               *)
LEMMA RunStep ==
  ASSUME IInv, NEW id \in DOMAIN exec, Dispatch(id) \/ Completes(id) \/ Fails(id)
  PROVE  IInv'
<1>1. /\ UNCHANGED <<jobs, call>> /\ exec[id].status = "running"
      /\ finished' = finished \/ (finished' = finished \cup {exec[id].by} /\ Completes(id))
  BY DEF Dispatch, Completes, Fails, IsRunning
<1>2. /\ DOMAIN exec' = DOMAIN exec
      /\ \A i \in DOMAIN exec \ {id} : exec'[i] = exec[i]
      /\ DOMAIN exec'[id] = DOMAIN exec[id] /\ exec'[id].by = exec[id].by
      /\ Completes(id) => exec'[id].status = "completed"
  BY DEF Dispatch, Completes, Fails, IInv, ByItsCall
<1>3. Records' /\ Derived'
  BY <1>1 DEF IInv, Records, Derived
<1>4. ByItsCall'
  BY <1>1, <1>2 DEF IInv, ByItsCall
<1>5. CompletedIsLast'
  <2>1. \A k \in finished : call[k].id # id
    BY <1>1 DEF IInv, CompletedIsLast
  <2>2. CASE finished' = finished
    BY <1>1, <1>2, <2>1, <2>2 DEF IInv, CompletedIsLast
  <2>3. CASE finished' = finished \cup {exec[id].by} /\ Completes(id)
    BY <1>1, <1>2, <2>1, <2>3 DEF IInv, CompletedIsLast, ByItsCall
  <2>4. QED
    BY <1>1, <2>2, <2>3
<1>6. QED
  BY <1>3, <1>4, <1>5 DEF IInv

LEMMA IdentityStep == IInv /\ [Next]_vars => IInv'
<1> SUFFICES ASSUME IInv, [Next]_vars PROVE IInv'
  OBVIOUS
<1>1. CASE Boot \/ Register \/ OnStart \/ WorkerStarts \/ OnStop \/ ProcessEnds
  <2>1. UNCHANGED <<jobs, call, exec, finished>>
    BY <1>1 DEF Boot, Register, OnStart, WorkerStarts, OnStop, ProcessEnds, Outside
  <2>2. QED
    BY <2>1 DEF IInv, Records, Derived, ByItsCall, CompletedIsLast
<1>2. CASE \E k \in Call : Derive(k) \/ Execute(k)
  BY <1>2, DeriveStep, ExecuteStep
<1>3. CASE \E id \in DOMAIN exec : Dispatch(id) \/ Completes(id) \/ Fails(id)
  BY <1>3, RunStep
<1>4. CASE UNCHANGED vars
  BY <1>4 DEF vars, IInv, Records, Derived, ByItsCall, CompletedIsLast
<1>5. QED
  BY <1>1, <1>2, <1>3, <1>4 DEF Next

LEMMA IdentityInvariant == Spec => []IInv
BY IdentityInit, IdentityStep, PTL DEF Spec

(* Of all starts with the same identity parameters at most one has a run that    *)
(* completed or is running (job.go 90).                                          *)
THEOREM OneRun == Spec => []OneRunPerIdentity
<1>1. IInv => OneRunPerIdentity
  <2> SUFFICES ASSUME IInv,
                      NEW k \in finished \cup {exec[id].by : id \in {i \in DOMAIN exec : IsRunning(i)}},
                      NEW l \in finished \cup {exec[id].by : id \in {i \in DOMAIN exec : IsRunning(i)}},
                      IdentityOf(k) = IdentityOf(l)
               PROVE  k = l
    BY DEF OneRunPerIdentity
  <2>1. /\ k \in Call /\ call[k].st = "started" /\ call[k].id \in DOMAIN exec
        /\ exec[call[k].id].by = k
    BY DEF IInv, CompletedIsLast, ByItsCall
  <2>2. /\ l \in Call /\ call[l].st = "started" /\ call[l].id \in DOMAIN exec
        /\ exec[call[l].id].by = l
    BY DEF IInv, CompletedIsLast, ByItsCall
  <2>3. call[k].id = call[l].id
    BY <2>1, <2>2, SameIdentitySameID DEF IInv
  <2>4. QED
    BY <2>1, <2>2, <2>3
<1>2. QED
  BY <1>1, IdentityInvariant, PTL

-------------------------------------------------------------------------------
(* What an ID says of the parameters it was derived from.                        *)

(* The first n keys can be put in order: those of them that are in S.            *)
Arranged(s, S, n) ==
  /\ s \in Seq(S) /\ InOrder(s)
  /\ \A i, j \in 1..Len(s) : s[i] = s[j] => i = j
  /\ {s[i] : i \in 1..Len(s)} = {Keys[i] : i \in 1..n} \cap S

LEMMA KeysAre ==
  /\ Len(Keys) \in Nat /\ DOMAIN Keys = 1..Len(Keys) /\ ToSet(Keys) = {Keys[i] : i \in 1..Len(Keys)}
  /\ \A i \in 1..Len(Keys) : Keys[i] \in STRING
  /\ \A i, j \in 1..Len(Keys) : Keys[i] = Keys[j] => i = j
BY IDSpecAssumption DEF IsInjective, ToSet

LEMMA ArrangeNext ==
  ASSUME NEW S, S \subseteq ToSet(Keys), NEW n \in Nat, n + 1 <= Len(Keys), NEW s, Arranged(s, S, n)
  PROVE  \E t : Arranged(t, S, n + 1)
<1> DEFINE k == Keys[n + 1]
<1>1. \A x : x \in {Keys[i] : i \in 1..(n + 1)} <=> x \in {Keys[i] : i \in 1..n} \/ x = k
  OBVIOUS
<1>2. CASE k \notin S
  BY <1>1, <1>2 DEF Arranged
<1>3. CASE k \in S
  <2>1. PICK t : t = Append(s, k)
    OBVIOUS
  <2>2. /\ Len(s) \in Nat /\ t \in Seq(S) /\ Len(t) = Len(s) + 1 /\ t[Len(s) + 1] = k
        /\ \A i \in 1..Len(s) : t[i] = s[i]
    BY <1>3, <2>1 DEF Arranged
  <2>3. \A i \in 1..Len(s) : \E j \in 1..n : s[i] = Keys[j]
    BY DEF Arranged
  <2>4. \A i \in 1..Len(s) : s[i] # k
    BY <2>3, KeysAre
  <2>5. InOrder(t)
    <3> SUFFICES ASSUME NEW i \in 1..Len(t), NEW j \in 1..Len(t), NEW a \in 1..Len(Keys),
                        NEW b \in 1..Len(Keys), t[i] = Keys[a], t[j] = Keys[b], i < j
                 PROVE  a < b
      BY <2>2, KeysAre DEF InOrder
    <3>1. i \in 1..Len(s)
      BY <2>2
    <3>2. CASE j \in 1..Len(s)
      <4>1. t[i] = s[i] /\ t[j] = s[j]
        BY <2>2, <3>1, <3>2
      <4>2. s \in Seq(S)
        BY DEF Arranged
      <4>3. DOMAIN s = 1..Len(s) /\ DOMAIN Keys = 1..Len(Keys)
        BY <4>2, KeysAre
      <4>4. InOrder(s)
        BY DEF Arranged
      <4>5. QED
        BY <3>1, <3>2, <4>1, <4>4, <4>3 DEF InOrder
    <3>3. CASE j = Len(s) + 1
      <4>1. b = n + 1
        BY <2>2, <3>3, KeysAre
      <4>2. PICK c \in 1..n : s[i] = Keys[c]
        BY <2>3, <3>1
      <4>3. a = c
        BY <2>2, <3>1, <4>2, KeysAre
      <4>4. QED
        BY <4>1, <4>2, <4>3
    <3>4. j \in 1..Len(s) \/ j = Len(s) + 1
      BY <2>2
    <3>5. QED
      BY <3>2, <3>3, <3>4
  <2>6. \A i, j \in 1..Len(t) : t[i] = t[j] => i = j
    BY <2>2, <2>4 DEF Arranged
  <2>7. {t[i] : i \in 1..Len(t)} = {s[i] : i \in 1..Len(s)} \cup {k}
    BY <2>2
  <2>8. {t[i] : i \in 1..Len(t)} = {Keys[i] : i \in 1..(n + 1)} \cap S
    BY <1>1, <1>3, <2>7 DEF Arranged
  <2>9. QED
    BY <2>2, <2>5, <2>6, <2>8 DEF Arranged
<1>4. QED
  BY <1>2, <1>3

LEMMA CanArrange ==
  ASSUME NEW S, S \subseteq ToSet(Keys)
  PROVE  \E s : Arranged(s, S, Len(Keys))
<1> DEFINE G == {n \in Nat : n <= Len(Keys) => \E s : Arranged(s, S, n)}
<1>1. 0 \in G
  <2>1. PICK s : s = <<>>
    OBVIOUS
  <2>2. s \in Seq(S) /\ Len(s) = 0 /\ DOMAIN s = {}
    BY <2>1
  <2>3. Arranged(s, S, 0)
    BY <2>2 DEF Arranged, InOrder
  <2>4. QED
    BY <2>3
<1>2. ASSUME NEW n \in Nat, n \in G PROVE n + 1 \in G
  BY <1>2, ArrangeNext, KeysAre
<1>3. Nat \subseteq G
  <2> HIDE DEF G
  <2>1. QED
    BY <1>1, <1>2, NatSteps
<1>4. QED
  BY <1>3, KeysAre

(* Sorting keeps the keys.                                                       *)
LEMMA SortedAre ==
  ASSUME NEW keys, ToSet(keys) \subseteq ToSet(Keys)
  PROVE  LET s == SortStrings(keys)
         IN  Len(s) \in Nat /\ DOMAIN s = 1..Len(s) /\ ToSet(s) = ToSet(keys) /\ s \in Seq(STRING)
<1> DEFINE S == ToSet(keys)
<1>1. IsFiniteSet(S)
  BY KeysFinite, IDSpecAssumption, FS_Subset
<1>2. PICK s : Arranged(s, S, Len(Keys))
  BY CanArrange
<1>3. Len(s) \in Nat /\ s \in [1..Len(s) -> S] /\ {s[i] : i \in 1..Len(s)} = S
  BY <1>2, KeysAre DEF Arranged
<1>4. s \in Surjection(1..Len(s), S) /\ s \in Injection(1..Len(s), S)
  BY <1>2, <1>3 DEF Surjection, Injection, IsInjective, Arranged
<1>5. Cardinality(S) = Len(s)
  <2>1. IsFiniteSet(1..Len(s)) /\ Cardinality(1..Len(s)) = Len(s)
    BY <1>3, FS_Interval
  <2>2. QED
    BY <1>4, <2>1, FS_Surjection
<1>6. s \in SetToSeqs(S)
  BY <1>3, <1>2, <1>5 DEF SetToSeqs, Arranged
<1>7. SortStrings(keys) \in SetToSeqs(S)
  BY <1>2, <1>6 DEF SortStrings, Arranged
<1>8. PICK t : t = SortStrings(keys)
  OBVIOUS
<1>9. ToSet(t) = S
  BY <1>1, <1>7, <1>8, KeysFound
<1>10. t \in [1..Len(s) -> S]
  BY <1>5, <1>7, <1>8 DEF SetToSeqs
<1>11. S \subseteq STRING
  BY KeysAre
<1>12. Len(t) = Len(s) /\ t \in Seq(STRING)
  BY <1>3, <1>10, <1>11
<1>13. QED
  BY <1>3, <1>8, <1>9, <1>10, <1>12

(* Concatenation, and the concatenation of sequences one after the other.        *)
Then(u, v) == u \o v

Joins(w, u, v, W) ==
  /\ w \in Seq(W)
  /\ Len(u) \in Nat /\ Len(v) \in Nat /\ Len(w) = Len(u) + Len(v)
  /\ \A p \in 1..Len(u) : w[p] = u[p]
  /\ \A p \in 1..Len(v) : w[Len(u) + p] = v[p]

LEMMA ThenIs ==
  ASSUME NEW W, NEW u \in Seq(W), NEW v \in Seq(W)
  PROVE  Joins(Then(u, v), u, v, W)
<1>1. /\ Then(u, v) \in Seq(W) /\ Len(Then(u, v)) = Len(u) + Len(v)
      /\ \A i \in 1..(Len(u) + Len(v)) : Then(u, v)[i] = IF i <= Len(u) THEN u[i] ELSE v[i - Len(u)]
  BY ConcatProperties DEF Then
<1>2. Len(u) \in Nat /\ Len(v) \in Nat
  OBVIOUS
<1>3. \A p \in 1..Len(u) : Then(u, v)[p] = u[p]
  BY <1>1, <1>2
<1>4. ASSUME NEW p \in 1..Len(v) PROVE Then(u, v)[Len(u) + p] = v[p]
  <2>1. Len(u) + p \in 1..(Len(u) + Len(v)) /\ ~(Len(u) + p <= Len(u)) /\ Len(u) + p - Len(u) = p
    BY <1>2
  <2>2. QED
    BY <1>1, <2>1
<1>5. QED
  BY <1>1, <1>2, <1>3, <1>4 DEF Joins

Accumulates(f, L, ss) == f = [i \in 1..L |-> IF i = 1 THEN ss[i] ELSE Then(f[i - 1], ss[i])]

LEMMA AccumulatorIs ==
  ASSUME NEW W, NEW L \in Nat \ {0}, NEW ss, \A i \in 1..L : ss[i] \in Seq(W)
  PROVE  \E f \in [1..L -> Seq(W)] : Accumulates(f, L, ss)
<1>1. PICK up : up = [i \in 2..L |-> i - 1]
  OBVIOUS
<1>2. PICK make : make = [x \in (2..L) \X Seq(W) |-> Then(x[2], ss[x[1]])]
  OBVIOUS
<1>3. \A n \in 2..L : up[n] \in 1..L /\ up[n] < n
  BY <1>1
<1>4. ss[1] \in Seq(W)
  OBVIOUS
<1>5. make \in [(2..L) \X Seq(W) -> Seq(W)]
  <2>1. ASSUME NEW x \in (2..L) \X Seq(W) PROVE Then(x[2], ss[x[1]]) \in Seq(W)
    <3>1. PICK u \in Seq(W), v \in Seq(W) : u = x[2] /\ v = ss[x[1]]
      OBVIOUS
    <3>2. Joins(Then(u, v), u, v, W)
      BY ThenIs
    <3>3. QED
      BY <3>1, <3>2 DEF Joins
  <2>2. QED
    BY <1>2, <2>1
<1>6. PICK f \in [1..L -> Seq(W)] : FromAbove(f, L, ss[1], make, up)
  BY <1>3, <1>4, <1>5, UpTheTree
<1>7. ASSUME NEW i \in 1..L PROVE f[i] = IF i = 1 THEN ss[i] ELSE Then(f[i - 1], ss[i])
  <2>1. CASE i = 1
    BY <1>6, <2>1 DEF FromAbove
  <2>2. CASE i # 1
    <3>1. i \in 2..L /\ i - 1 \in 1..L /\ up[i] = i - 1
      BY <1>1, <2>2
    <3>2. f[i] = make[<<i, f[up[i]]>>]
      BY <1>6, <2>2 DEF FromAbove
    <3>3. PICK u \in Seq(W) : u = f[i - 1]
      BY <3>1
    <3>4. <<i, u>> \in (2..L) \X Seq(W)
      BY <3>1, <3>3
    <3>5. make[<<i, u>>] = Then(u, ss[i])
      BY <1>2, <3>4
    <3>6. QED
      BY <2>2, <3>1, <3>2, <3>3, <3>5
  <2>3. QED
    BY <2>1, <2>2
<1>8. Accumulates(f, L, ss)
  BY <1>7 DEF Accumulates
<1>9. QED
  BY <1>8

LEMMA AccumulatorUnique ==
  ASSUME NEW L \in Nat \ {0}, NEW ss, NEW f, NEW g, Accumulates(f, L, ss), Accumulates(g, L, ss)
  PROVE  f[L] = g[L]
<1>1. \A i \in 1..L : /\ i = 1 => f[i] = ss[i] /\ g[i] = ss[i]
                      /\ i # 1 => f[i] = Then(f[i - 1], ss[i]) /\ g[i] = Then(g[i - 1], ss[i])
  BY DEF Accumulates
<1> DEFINE S == {n \in Nat : \A i \in 1..L : i <= n => f[i] = g[i]}
<1>2. 0 \in S
  OBVIOUS
<1>3. ASSUME NEW n \in Nat, n \in S PROVE n + 1 \in S
  <2>1. ASSUME NEW i \in 1..L, i = n + 1 PROVE f[i] = g[i]
    <3>1. i # 1 => f[i - 1] = g[i - 1]
      BY <1>3, <2>1
    <3>2. QED
      BY <1>1, <3>1
  <2>2. QED
    BY <1>3, <2>1
<1>4. L \in S
  <2> HIDE DEF S
  <2>1. QED
    BY <1>2, <1>3, NatSteps
<1>5. QED
  BY <1>4

LEMMA FlatteningIs ==
  ASSUME NEW W, NEW L \in Nat \ {0}, NEW ss, ss \in [1..L -> Seq(W)]
  PROVE  \E f \in [1..L -> Seq(W)] : Accumulates(f, L, ss) /\ FlattenSeq(ss) = f[L]
<1>1. PICK f \in [1..L -> Seq(W)] : Accumulates(f, L, ss)
  BY AccumulatorIs
<1>2. Len(ss) = L
  OBVIOUS
<1>3. PICK flat : flat = CHOOSE g : g = [i \in 1..L |-> IF i = 1 THEN ss[i] ELSE g[i - 1] \o ss[i]]
  OBVIOUS
<1>4. FlattenSeq(ss) = flat[L]
  BY <1>2, <1>3 DEF FlattenSeq
<1>5. Accumulates(flat, L, ss)
  BY <1>1, <1>3 DEF Accumulates, Then
<1>6. QED
  BY <1>1, <1>4, <1>5, AccumulatorUnique

(* The i-th pair of a word, from z to e ...                                      *)
Sep(i) == IF i = 1 THEN 0 ELSE 1
PairAt(word, i, z, e, k, t) ==
  /\ e = z + Sep(i) + 2 + Len(t)
  /\ i # 1 => word[z + 1] = "&"
  /\ word[z + Sep(i) + 1] = k
  /\ \A p \in 1..Len(t) : word[z + Sep(i) + 2 + p] = t[p]

(* ... of which it has n, the i-th from o[i - 1] to o[i].                        *)
Encodes(word, n, key, text, o) ==
  /\ o \in [0..n -> Nat] /\ o[0] = 0 /\ o[n] = Len(word)
  /\ \A i \in 1..n : PairAt(word, i, o[i - 1], o[i], key[i], text[i])

Pair(i, key, text) == (IF i = 1 THEN <<>> ELSE <<"&">>) \o <<key[i], "=">> \o text[i]

Words == STRING \cup {"=", "&"}

Spells(s, i, k, t) ==
  /\ s \in Seq(Words) /\ Len(s) = Sep(i) + 2 + Len(t)
  /\ i # 1 => s[1] = "&"
  /\ s[Sep(i) + 1] = k
  /\ \A p \in 1..Len(t) : s[Sep(i) + 2 + p] = t[p]

LEMMA PairIs ==
  ASSUME NEW i, NEW key, NEW text, NEW k \in STRING, NEW t \in Seq(STRING), key[i] = k, text[i] = t
  PROVE  Spells(Pair(i, key, text), i, k, t)
<1>1. t \in Seq(Words) /\ Len(t) \in Nat
  BY DEF Words
<1>2. PICK kv : kv = <<k, "=">>
  OBVIOUS
<1>3. kv \in Seq(Words) /\ Len(kv) = 2 /\ kv[1] = k
  BY <1>2 DEF Words
<1>4. PICK head : head = IF i = 1 THEN kv ELSE Then(<<"&">>, kv)
  OBVIOUS
<1>5. head \in Seq(Words) /\ Len(head) = Sep(i) + 2 /\ (i # 1 => head[1] = "&") /\ head[Sep(i) + 1] = k
  <2>1. CASE i = 1
    <3>1. head = kv
      BY <1>4, <2>1
    <3>2. Sep(i) = 0 /\ Sep(i) + 2 = 2 /\ Sep(i) + 1 = 1
      BY <2>1 DEF Sep
    <3>3. Len(head) = 2 /\ head[1] = k /\ head \in Seq(Words)
      BY <1>3, <3>1
    <3>4. QED
      BY <2>1, <3>2, <3>3
  <2>2. CASE i # 1
    <3>1. PICK amp : amp = <<"&">>
      OBVIOUS
    <3>2. amp \in Seq(Words) /\ Len(amp) = 1 /\ amp[1] = "&"
      BY <3>1 DEF Words
    <3>3. head = Then(amp, kv)
      BY <1>4, <2>2, <3>1
    <3>4. Joins(Then(amp, kv), amp, kv, Words)
      BY <1>3, <3>2, ThenIs
    <3>5. head \in Seq(Words) /\ Len(head) = 3 /\ head[1] = "&" /\ head[2] = k
      BY <1>3, <3>2, <3>3, <3>4 DEF Joins
    <3>6. Sep(i) = 1
      BY <2>2 DEF Sep
    <3>7. QED
      BY <3>5, <3>6
  <2>3. QED
    BY <2>1, <2>2
<1>6. Pair(i, key, text) = Then(head, t)
  <2>1. CASE i = 1
    <3>1. <<>> \o kv = kv
      BY <1>3
    <3>2. QED
      BY <1>2, <1>4, <2>1, <3>1 DEF Pair, Then
  <2>2. CASE i # 1
    BY <1>2, <1>4, <2>2 DEF Pair, Then
  <2>3. QED
    BY <2>1, <2>2
<1>7. PICK s : s = Pair(i, key, text)
  OBVIOUS
<1>8. Joins(Then(head, t), head, t, Words)
  BY <1>1, <1>5, ThenIs
<1>9. /\ s \in Seq(Words) /\ Len(s) = Len(head) + Len(t)
      /\ \A p \in 1..Len(head) : s[p] = head[p]
      /\ \A p \in 1..Len(t) : s[Len(head) + p] = t[p]
  BY <1>6, <1>7, <1>8 DEF Joins
<1>10. Len(head) \in Nat /\ Sep(i) \in {0, 1} /\ Sep(i) + 1 \in 1..Len(head) /\ 1 \in 1..Len(head)
  BY <1>5 DEF Sep
<1>11. QED
  BY <1>1, <1>5, <1>7, <1>9, <1>10 DEF Spells

(* What has been accumulated stays where it is.                                  *)
Begins(u, v) == Len(u) <= Len(v) /\ \A p \in 1..Len(u) : v[p] = u[p]

LEMMA BeginsOn ==
  ASSUME NEW W, NEW u \in Seq(W), NEW v \in Seq(W), NEW w \in Seq(W), Begins(u, v), Begins(v, w)
  PROVE  Begins(u, w)
<1>1. Len(u) \in Nat /\ Len(v) \in Nat /\ Len(w) \in Nat
  OBVIOUS
<1>2. QED
  BY <1>1 DEF Begins

LEMMA StaysThere ==
  ASSUME NEW W, NEW L \in Nat \ {0}, NEW ss, \A i \in 1..L : ss[i] \in Seq(W),
         NEW f, \A i \in 1..L : f[i] \in Seq(W), Accumulates(f, L, ss), NEW a \in 1..L
  PROVE  Begins(f[a], f[L])
<1> DEFINE S == {n \in Nat : a + n <= L => Begins(f[a], f[a + n])}
<1>1. 0 \in S
  BY DEF Begins
<1>2. ASSUME NEW n \in Nat, n \in S PROVE n + 1 \in S
  <2> SUFFICES ASSUME a + (n + 1) <= L PROVE Begins(f[a], f[a + (n + 1)])
    OBVIOUS
  <2>1. PICK b : b = a + n
    OBVIOUS
  <2>2. b \in 1..L /\ b + 1 \in 1..L /\ b + 1 # 1 /\ b + 1 - 1 = b /\ a + (n + 1) = b + 1
    BY <2>1
  <2>3. Begins(f[a], f[b])
    BY <1>2, <2>1, <2>2
  <2>4. f[b + 1] = Then(f[b], ss[b + 1])
    BY <2>2 DEF Accumulates
  <2>5. PICK u \in Seq(W) : u = f[b]
    BY <2>2
  <2>6. PICK v \in Seq(W) : v = ss[b + 1]
    BY <2>2
  <2>7. Joins(Then(u, v), u, v, W)
    BY ThenIs
  <2>8. Begins(u, Then(u, v))
    BY <2>7 DEF Begins, Joins
  <2>9. Begins(f[a], u) /\ f[a] \in Seq(W)
    BY <2>3, <2>5
  <2>10. Then(u, v) \in Seq(W)
    BY <2>7 DEF Joins
  <2>11. Begins(f[a], Then(u, v))
    BY <2>9, <2>8, <2>10, BeginsOn
  <2>12. QED
    BY <2>2, <2>4, <2>5, <2>6, <2>11
<1>3. L - a \in S
  <2> HIDE DEF S
  <2>1. L - a \in Nat
    OBVIOUS
  <2>2. QED
    BY <1>1, <1>2, <2>1, NatSteps
<1>4. a + (L - a) = L /\ a + (L - a) <= L
  OBVIOUS
<1>5. QED
  BY <1>3, <1>4

LEMMA FlattenedPairs ==
  ASSUME NEW L \in Nat \ {0}, NEW key, NEW text, NEW ss,
         \A i \in 1..L : key[i] \in STRING /\ text[i] \in Seq(STRING),
         ss = [i \in 1..L |-> Pair(i, key, text)]
  PROVE  \E o : Encodes(FlattenSeq(ss), L, key, text, o)
<1>1. ASSUME NEW i \in 1..L
      PROVE  ss[i] = Pair(i, key, text) /\ ss[i] \in Seq(Words) /\ Spells(ss[i], i, key[i], text[i])
  <2>1. ss[i] = Pair(i, key, text)
    OBVIOUS
  <2>2. Spells(Pair(i, key, text), i, key[i], text[i])
    BY PairIs
  <2>3. QED
    BY <2>1, <2>2 DEF Spells
<1>2. ss \in [1..L -> Seq(Words)]
  BY <1>1
<1>3. PICK f \in [1..L -> Seq(Words)] : Accumulates(f, L, ss) /\ FlattenSeq(ss) = f[L]
  BY <1>2, FlatteningIs, Zenon
<1>4. PICK word : word = FlattenSeq(ss)
  OBVIOUS
<1>5. PICK o : o = [i \in 0..L |-> IF i = 0 THEN 0 ELSE Len(f[i])]
  OBVIOUS
<1>6. \A i \in 1..L : f[i] \in Seq(Words) /\ Len(f[i]) \in Nat /\ o[i] = Len(f[i])
  BY <1>5
<1>7. o \in [0..L -> Nat] /\ o[0] = 0 /\ o[L] = Len(word)
  BY <1>3, <1>4, <1>5, <1>6
<1>8. ASSUME NEW i \in 1..L
      PROVE  /\ o[i] = o[i - 1] + Len(ss[i])
             /\ \A p \in 1..Len(ss[i]) : f[i][o[i - 1] + p] = ss[i][p]
  <2>1. CASE i = 1
    <3>1. f[i] = ss[i] /\ o[i - 1] = 0 /\ Len(ss[i]) \in Nat
      BY <1>3, <1>6, <1>7, <2>1 DEF Accumulates
    <3>2. QED
      BY <1>6, <3>1
  <2>2. CASE i # 1
    <3>1. f[i] = Then(f[i - 1], ss[i]) /\ i - 1 \in 1..L
      BY <1>3, <2>2 DEF Accumulates
    <3>2. PICK u \in Seq(Words) : u = f[i - 1]
      BY <1>6, <3>1
    <3>3. PICK v \in Seq(Words) : v = ss[i]
      BY <1>1
    <3>4. o[i - 1] = Len(u) /\ o[i] = Len(Then(u, v)) /\ f[i] = Then(u, v)
      BY <1>6, <3>1, <3>2, <3>3
    <3>5. Joins(Then(u, v), u, v, Words)
      BY ThenIs
    <3>6. QED
      BY <3>3, <3>4, <3>5 DEF Joins
  <2>3. QED
    BY <2>1, <2>2
<1>9. ASSUME NEW i \in 1..L
      PROVE  o[i - 1] \in Nat /\ \A p \in 1..Len(ss[i]) : word[o[i - 1] + p] = ss[i][p]
  <2>1. Begins(f[i], f[L])
    BY <1>1, <1>3, <1>6, StaysThere
  <2>2. o[i - 1] \in Nat /\ Len(ss[i]) \in Nat
    BY <1>1, <1>7
  <2>3. Len(f[i]) = o[i - 1] + Len(ss[i]) /\ word = f[L]
    BY <1>3, <1>4, <1>6, <1>8
  <2>4. ASSUME NEW p \in 1..Len(ss[i]) PROVE word[o[i - 1] + p] = ss[i][p]
    <3>1. o[i - 1] + p \in 1..Len(f[i])
      <4>1. PICK z \in Nat, n \in Nat, m \in Nat : z = o[i - 1] /\ n = Len(ss[i]) /\ m = Len(f[i])
        BY <1>6, <2>2
      <4>2. m = z + n /\ p \in 1..n
        BY <2>3, <2>4, <4>1
      <4>3. z + p \in 1..m
        BY <4>2
      <4>4. QED
        BY <4>1, <4>3
    <3>2. word[o[i - 1] + p] = f[i][o[i - 1] + p]
      BY <2>1, <2>3, <3>1 DEF Begins
    <3>3. QED
      BY <1>8, <3>2
  <2>5. QED
    BY <2>2, <2>4
<1>10. ASSUME NEW i \in 1..L PROVE PairAt(word, i, o[i - 1], o[i], key[i], text[i])
  <2>1. PICK k \in STRING : k = key[i]
    OBVIOUS
  <2>2. PICK t \in Seq(STRING) : t = text[i]
    OBVIOUS
  <2>3. PICK s : s = ss[i]
    OBVIOUS
  <2>4. PICK z : z = o[i - 1]
    OBVIOUS
  <2>5. PICK d : d = Sep(i)
    OBVIOUS
  <2>6. Spells(s, i, k, t)
    BY <1>1, <2>1, <2>2, <2>3
  <2>7. /\ Len(s) = d + 2 + Len(t)
        /\ i # 1 => s[1] = "&"
        /\ s[d + 1] = k
        /\ \A p \in 1..Len(t) : s[d + 2 + p] = t[p]
    BY <2>5, <2>6 DEF Spells
  <2>8. z \in Nat /\ \A p \in 1..Len(s) : word[z + p] = s[p]
    BY <1>9, <2>3, <2>4
  <2>9. Len(t) \in Nat /\ d \in {0, 1} /\ (i # 1 => d = 1) /\ d + 1 \in 1..Len(s)
    BY <2>5, <2>7 DEF Sep
  <2>10. o[i] = z + Len(s)
    BY <1>8, <2>3, <2>4
  <2>11. o[i] = z + d + 2 + Len(t)
    BY <2>7, <2>8, <2>9, <2>10
  <2>12. i # 1 => word[z + 1] = "&"
    BY <2>7, <2>8, <2>9
  <2>13. word[z + d + 1] = k
    <3>1. z + d + 1 = z + (d + 1)
      BY <2>8, <2>9
    <3>2. QED
      BY <2>7, <2>8, <2>9, <3>1
  <2>14. ASSUME NEW p \in 1..Len(t) PROVE word[z + d + 2 + p] = t[p]
    <3>1. d + 2 + p \in 1..Len(s) /\ z + d + 2 + p = z + (d + 2 + p)
      BY <2>7, <2>8, <2>9
    <3>2. QED
      BY <2>7, <2>8, <3>1
  <2>15. QED
    BY <2>1, <2>2, <2>4, <2>5, <2>11, <2>12, <2>13, <2>14 DEF PairAt
<1>11. Encodes(word, L, key, text, o)
  BY <1>7, <1>10 DEF Encodes
<1>12. QED
  BY <1>4, <1>11

(* A pair begins within the word.                                                *)
LEMMA OffsetsWithin ==
  ASSUME NEW word, NEW L \in Nat \ {0}, NEW key, NEW text, NEW o, Encodes(word, L, key, text, o),
         \A i \in 1..L : Len(text[i]) \in Nat, NEW j \in 0..L
  PROVE  o[j] <= Len(word)
<1> DEFINE S == {n \in Nat : n <= L => o[L - n] <= o[L]}
<1>1. o[L] \in Nat /\ o[L] = Len(word)
  BY DEF Encodes
<1>2. 0 \in S
  BY <1>1
<1>3. ASSUME NEW n \in Nat, n \in S PROVE n + 1 \in S
  <2> SUFFICES ASSUME n + 1 <= L PROVE o[L - (n + 1)] <= o[L]
    OBVIOUS
  <2>1. PICK i : i = L - n
    OBVIOUS
  <2>2. i \in 1..L /\ L - (n + 1) = i - 1 /\ i - 1 \in 0..L /\ i \in 0..L /\ o[i] <= o[L]
    BY <1>3, <2>1
  <2>3. o[i] = o[i - 1] + Sep(i) + 2 + Len(text[i]) /\ o[i] \in Nat /\ o[i - 1] \in Nat
    BY <2>2 DEF Encodes, PairAt
  <2>4. Sep(i) \in {0, 1} /\ Len(text[i]) \in Nat
    BY <2>2 DEF Sep
  <2>5. o[i - 1] <= o[i]
    BY <2>3, <2>4
  <2>6. QED
    BY <1>1, <2>2, <2>3, <2>5
<1>4. L - j \in S
  <2> HIDE DEF S
  <2>1. L - j \in Nat
    OBVIOUS
  <2>2. QED
    BY <1>2, <1>3, <2>1, NatSteps
<1>5. L - (L - j) = j /\ L - j <= L
  OBVIOUS
<1>6. QED
  BY <1>1, <1>4, <1>5

(* A text without separators ends where the next pair begins, or the word.       *)
Escaped(text, n) ==
  \A i \in 1..n : text[i] \in Seq(STRING) /\ \A p \in 1..Len(text[i]) : text[i][p] \notin {"=", "&"}

LEMMA TextEnds ==
  ASSUME NEW word,
         NEW L \in Nat \ {0}, NEW key, NEW text, NEW o, Encodes(word, L, key, text, o), Escaped(text, L),
         NEW M \in Nat \ {0}, NEW kez, NEW tezt, NEW q, Encodes(word, M, kez, tezt, q), Escaped(tezt, M),
         NEW i \in 1..L, i \in 1..M, o[i - 1] = q[i - 1]
  PROVE  Len(tezt[i]) <= Len(text[i])
<1> SUFFICES ASSUME ~(Len(tezt[i]) <= Len(text[i])) PROVE FALSE
  OBVIOUS
<1>1. PICK s \in Seq(STRING) : s = text[i]
  BY DEF Escaped
<1>2. PICK t \in Seq(STRING) : t = tezt[i]
  BY DEF Escaped
<1>3. Len(s) \in Nat /\ Len(t) \in Nat /\ Len(s) + 1 \in 1..Len(t)
  BY <1>1, <1>2
<1>4. PICK z \in Nat : z = o[i - 1]
  <2>1. o \in [0..L -> Nat]
    BY DEF Encodes
  <2>2. i - 1 \in 0..L
    OBVIOUS
  <2>3. QED
    BY <2>1, <2>2
<1>5. PICK d \in {0, 1} : d = Sep(i)
  BY DEF Sep
<1>6. PairAt(word, i, z, o[i], key[i], s) /\ PairAt(word, i, z, q[i], kez[i], t)
  BY <1>1, <1>2, <1>4 DEF Encodes
<1>7. o[i] = z + d + 2 + Len(s) /\ q[i] = z + d + 2 + Len(t)
  BY <1>5, <1>6 DEF PairAt
<1>8. word[z + d + 2 + (Len(s) + 1)] = t[Len(s) + 1] /\ t[Len(s) + 1] \notin {"=", "&"}
  <2>1. word[z + d + 2 + (Len(s) + 1)] = t[Len(s) + 1]
    BY <1>3, <1>5, <1>6 DEF PairAt
  <2>2. t[Len(s) + 1] \notin {"=", "&"}
    BY <1>2, <1>3 DEF Escaped
  <2>3. QED
    BY <2>1, <2>2
<1>9. z + d + 2 + (Len(s) + 1) = o[i] + 1
  BY <1>3, <1>7
<1>10. CASE i = L
  <2>1. o[i] = Len(word)
    BY <1>10 DEF Encodes
  <2>2. \A m \in 1..M : Len(tezt[m]) \in Nat
    BY DEF Escaped
  <2>3. i \in 0..M
    OBVIOUS
  <2>4. q[i] <= Len(word)
    BY <2>2, <2>3, OffsetsWithin
  <2>5. QED
    BY <1>3, <1>7, <2>1, <2>4
<1>11. CASE i # L
  <2>1. i + 1 \in 1..L /\ i + 1 # 1 /\ i + 1 - 1 = i
    BY <1>11
  <2>2. PICK j : j = i + 1
    OBVIOUS
  <2>3. PairAt(word, j, o[j - 1], o[j], key[j], text[j])
    BY <2>1, <2>2 DEF Encodes
  <2>4. word[o[i] + 1] = "&"
    BY <2>1, <2>2, <2>3 DEF PairAt
  <2>5. QED
    BY <1>8, <1>9, <2>4
<1>12. QED
  BY <1>10, <1>11

(* A word is the text of one sequence of pairs.                                  *)
LEMMA Decodes ==
  ASSUME NEW word,
         NEW L \in Nat \ {0}, NEW key, NEW text, NEW o, Encodes(word, L, key, text, o), Escaped(text, L),
         NEW M \in Nat \ {0}, NEW kez, NEW tezt, NEW q, Encodes(word, M, kez, tezt, q), Escaped(tezt, M)
  PROVE  L = M /\ \A i \in 1..L : key[i] = kez[i] /\ text[i] = tezt[i]
<1> DEFINE S == {n \in Nat : n <= L /\ n <= M => o[n] = q[n]}
<1>1. ASSUME NEW i \in 1..L, i \in 1..M, o[i - 1] = q[i - 1]
      PROVE  o[i] = q[i] /\ key[i] = kez[i] /\ text[i] = tezt[i]
  <2>1. PICK s \in Seq(STRING) : s = text[i]
    BY DEF Escaped
  <2>2. PICK t \in Seq(STRING) : t = tezt[i]
    BY <1>1 DEF Escaped
  <2>3. Len(t) <= Len(s)
    <3>1. Len(tezt[i]) <= Len(text[i])
      BY <1>1, TextEnds
    <3>2. QED
      BY <2>1, <2>2, <3>1
  <2>4. Len(s) <= Len(t)
    <3>1. Len(text[i]) <= Len(tezt[i])
      BY <1>1, TextEnds
    <3>2. QED
      BY <2>1, <2>2, <3>1
  <2>5. Len(s) = Len(t) /\ Len(s) \in Nat
    BY <2>3, <2>4
  <2>6. PICK z : z = o[i - 1]
    OBVIOUS
  <2>7. PairAt(word, i, z, o[i], key[i], s) /\ PairAt(word, i, z, q[i], kez[i], t)
    BY <1>1, <2>1, <2>2, <2>6 DEF Encodes
  <2>8. o[i] = q[i]
    BY <2>5, <2>7 DEF PairAt
  <2>9. key[i] = kez[i]
    BY <2>7 DEF PairAt
  <2>10. ASSUME NEW p \in 1..Len(s) PROVE s[p] = t[p]
    <3>1. word[z + Sep(i) + 2 + p] = s[p] /\ word[z + Sep(i) + 2 + p] = t[p]
      BY <2>5, <2>7 DEF PairAt
    <3>2. QED
      BY <3>1
  <2>11. s = t
    BY <2>5, <2>10, SeqEqual
  <2>12. QED
    BY <2>1, <2>2, <2>8, <2>9, <2>11
<1>2. 0 \in S
  BY DEF Encodes
<1>3. ASSUME NEW n \in Nat, n \in S PROVE n + 1 \in S
  <2> SUFFICES ASSUME n + 1 <= L, n + 1 <= M PROVE o[n + 1] = q[n + 1]
    OBVIOUS
  <2>1. n + 1 \in 1..L /\ n + 1 \in 1..M /\ o[n + 1 - 1] = q[n + 1 - 1]
    BY <1>3
  <2>2. QED
    BY <1>1, <2>1
<1>4. \A n \in Nat : n <= L /\ n <= M => o[n] = q[n]
  <2>1. Nat \subseteq S
    <3> HIDE DEF S
    <3>1. QED
      BY <1>2, <1>3, NatSteps
  <2>2. QED
    BY <2>1
<1>5. L = M
  <2>1. /\ o[L] = Len(word) /\ q[M] = Len(word)
        /\ \A i \in 0..L : o[i] \in Nat
        /\ \A i \in 0..M : q[i] \in Nat
    BY DEF Encodes
  <2>2. \A i \in 1..L : o[i] = o[i - 1] + Sep(i) + 2 + Len(text[i])
    BY DEF Encodes, PairAt
  <2>3. \A i \in 1..M : q[i] = q[i - 1] + Sep(i) + 2 + Len(tezt[i])
    BY DEF Encodes, PairAt
  <2>4. /\ \A i \in 1..L : Len(text[i]) \in Nat
        /\ \A i \in 1..M : Len(tezt[i]) \in Nat
    BY DEF Escaped
  <2>5. CASE L < M
    <3>1. o[L] = q[L] /\ L + 1 \in 1..M /\ L + 1 - 1 = L /\ L \in 0..M /\ L + 1 \in 0..M
      BY <1>4, <2>5
    <3>2. q[L + 1] <= Len(word)
      BY <2>4, <3>1, OffsetsWithin
    <3>3. q[L + 1] = q[L] + Sep(L + 1) + 2 + Len(tezt[L + 1]) /\ Sep(L + 1) \in {0, 1}
      BY <2>3, <3>1 DEF Sep
    <3>4. q[L + 1] > q[L]
      BY <2>1, <2>4, <3>1, <3>3
    <3>5. QED
      BY <2>1, <3>1, <3>2, <3>4
  <2>6. CASE M < L
    <3>1. o[M] = q[M] /\ M + 1 \in 1..L /\ M + 1 - 1 = M /\ M \in 0..L /\ M + 1 \in 0..L
      BY <1>4, <2>6
    <3>2. o[M + 1] <= Len(word)
      BY <2>4, <3>1, OffsetsWithin
    <3>3. o[M + 1] = o[M] + Sep(M + 1) + 2 + Len(text[M + 1]) /\ Sep(M + 1) \in {0, 1}
      BY <2>2, <3>1 DEF Sep
    <3>4. o[M + 1] > o[M]
      BY <2>1, <2>4, <3>1, <3>3
    <3>5. QED
      BY <2>1, <3>1, <3>2, <3>4
  <2>7. QED
    BY <2>5, <2>6
<1>6. ASSUME NEW i \in 1..L PROVE key[i] = kez[i] /\ text[i] = tezt[i]
  <2>1. i \in 1..M /\ o[i - 1] = q[i - 1]
    BY <1>4, <1>5
  <2>2. QED
    BY <1>1, <2>1
<1>7. QED
  BY <1>5, <1>6

(* Parameters that Serialize writes so that they can be read again.              *)
Legible(a) ==
  /\ a = [k \in DOMAIN a |-> a[k]] /\ DOMAIN a \subseteq ToSet(Keys)
  /\ \A k \in DOMAIN a : a[k] \in [type : STRING, text : Seq(STRING)]
  /\ Plain(a)

(* A word has the pairs of the parameters a.                                     *)
Tells(word, a) ==
  \E L \in Nat \ {0} : \E key, text, o :
    /\ Encodes(word, L, key, text, o) /\ Escaped(text, L)
    /\ DOMAIN a = {key[i] : i \in 1..L}
    /\ \A i \in 1..L : text[i] = a[key[i]].text

LEMMA SerializedIs ==
  ASSUME NEW a, Legible(a), DOMAIN a # {}, NEW keys \in SetToSeqs(DOMAIN a)
  PROVE  Tells(Serialize(a, SortStrings(keys)), a)
<1>1. ToSet(keys) = DOMAIN a
  <2>1. IsFiniteSet(DOMAIN a)
    BY KeysFinite, IDSpecAssumption, FS_Subset DEF Legible
  <2>2. QED
    BY <2>1, KeysFound
<1>2. PICK s : s = SortStrings(keys)
  OBVIOUS
<1>3. Len(s) \in Nat /\ DOMAIN s = 1..Len(s) /\ ToSet(s) = DOMAIN a /\ s \in Seq(STRING)
  BY <1>1, <1>2, SortedAre DEF Legible
<1>4. PICK L : L = Len(s)
  OBVIOUS
<1>5. DOMAIN a = {s[i] : i \in 1..L} /\ L \in Nat \ {0}
  <2>1. DOMAIN a = {s[i] : i \in 1..L} /\ L \in Nat
    BY <1>3, <1>4 DEF ToSet
  <2>2. PICK x : x \in DOMAIN a
    OBVIOUS
  <2>3. \E i \in 1..L : x = s[i]
    BY <2>1, <2>2
  <2>4. QED
    BY <2>1, <2>3
<1>6. PICK text : text = [i \in 1..L |-> a[s[i]].text]
  OBVIOUS
<1>7. \A i \in 1..L : s[i] \in DOMAIN a /\ s[i] \in STRING /\ text[i] = a[s[i]].text
  BY <1>3, <1>4, <1>5, <1>6
<1>8. \A i \in 1..L : text[i] \in Seq(STRING)
  BY <1>7 DEF Legible
<1>9. Escaped(text, L)
  <2>1. ASSUME NEW i \in 1..L, NEW p \in 1..Len(text[i]) PROVE text[i][p] \notin {"=", "&"}
    <3>1. PICK t \in Seq(STRING) : t = text[i]
      BY <1>8
    <3>2. {"=", "&"} \cap ToSet(t) = {}
      BY <1>7, <3>1 DEF Legible, Plain
    <3>3. t[p] \in ToSet(t)
      BY <2>1, <3>1 DEF ToSet
    <3>4. QED
      BY <3>1, <3>2, <3>3
  <2>2. QED
    BY <1>8, <2>1 DEF Escaped
<1>10. PICK ss : ss = [i \in 1..L |-> Pair(i, s, text)]
  OBVIOUS
<1>11. Serialize(a, s) = FlattenSeq(ss)
  <2>1. \A i \in 1..L : Pair(i, s, text) = (IF i = 1 THEN <<>> ELSE <<"&">>) \o <<s[i], "=">> \o a[s[i]].text
    BY <1>7 DEF Pair
  <2>2. ss = [i \in DOMAIN s |-> (IF i = 1 THEN <<>> ELSE <<"&">>) \o <<s[i], "=">> \o a[s[i]].text]
    BY <1>3, <1>4, <1>10, <2>1
  <2>3. QED
    BY <2>2 DEF Serialize
<1>12. \E o : Encodes(FlattenSeq(ss), L, s, text, o)
  BY <1>5, <1>7, <1>8, <1>10, FlattenedPairs
<1>13. QED
  <2>1. PICK o : Encodes(Serialize(a, SortStrings(keys)), L, s, text, o)
    BY <1>2, <1>11, <1>12
  <2>2. QED
    BY <1>5, <1>7, <1>9, <2>1 DEF Tells

(* Two starts that derive one ID have the same job and the same identity, for    *)
(* parameters that keep to strings and need no escaping (id.go 45-84).           *)
THEOREM SameIDSameIdentity ==
  ASSUME NEW prefix, NEW a, Legible(a), NEW other, NEW b, Legible(b), NEW id, id # NoID,
         id \in WorkflowIDs(prefix, a), id \in WorkflowIDs(other, b)
  PROVE  prefix = other /\ a = b
<1>1. DOMAIN a # {} /\ DOMAIN b # {}
  BY DEF WorkflowIDs
<1>2. PICK k \in SetToSeqs(DOMAIN a) : id = <<prefix, Serialize(a, SortStrings(k))>>
  BY <1>1 DEF WorkflowIDs
<1>3. PICK l \in SetToSeqs(DOMAIN b) : id = <<other, Serialize(b, SortStrings(l))>>
  BY <1>1 DEF WorkflowIDs
<1>4. PICK word : word = Serialize(a, SortStrings(k))
  OBVIOUS
<1>5. prefix = other /\ word = Serialize(b, SortStrings(l))
  BY <1>2, <1>3, <1>4
<1>6. PICK L \in Nat \ {0} : \E key, text, o :
        /\ Encodes(word, L, key, text, o) /\ Escaped(text, L)
        /\ DOMAIN a = {key[i] : i \in 1..L}
        /\ \A i \in 1..L : text[i] = a[key[i]].text
  <2>1. Tells(word, a)
    BY <1>1, <1>4, SerializedIs
  <2>2. QED
    BY <2>1 DEF Tells
<1>7. PICK M \in Nat \ {0} : \E kez, tezt, q :
        /\ Encodes(word, M, kez, tezt, q) /\ Escaped(tezt, M)
        /\ DOMAIN b = {kez[i] : i \in 1..M}
        /\ \A i \in 1..M : tezt[i] = b[kez[i]].text
  <2>1. Tells(word, b)
    BY <1>1, <1>5, SerializedIs
  <2>2. QED
    BY <2>1 DEF Tells
<1>8. PICK key, text, o :
        /\ Encodes(word, L, key, text, o) /\ Escaped(text, L)
        /\ DOMAIN a = {key[i] : i \in 1..L}
        /\ \A i \in 1..L : text[i] = a[key[i]].text
  BY <1>6
<1>9. PICK kez, tezt, q :
        /\ Encodes(word, M, kez, tezt, q) /\ Escaped(tezt, M)
        /\ DOMAIN b = {kez[i] : i \in 1..M}
        /\ \A i \in 1..M : tezt[i] = b[kez[i]].text
  BY <1>7
<1>10. L = M /\ \A i \in 1..L : key[i] = kez[i] /\ text[i] = tezt[i]
  BY <1>8, <1>9, Decodes
<1>11. DOMAIN a = DOMAIN b
  BY <1>8, <1>9, <1>10
<1>12. ASSUME NEW x \in DOMAIN a PROVE a[x] = b[x]
  <2>1. PICK i \in 1..L : x = key[i]
    BY <1>8
  <2>2. a[x].text = b[x].text
    BY <1>8, <1>9, <1>10, <2>1
  <2>3. a[x].type = b[x].type
    BY <1>11 DEF Legible, Plain
  <2>4. a[x] \in [type : STRING, text : Seq(STRING)] /\ b[x] \in [type : STRING, text : Seq(STRING)]
    BY <1>11 DEF Legible
  <2>5. QED
    BY <2>2, <2>3, <2>4
<1>13. a = b
  BY <1>11, <1>12 DEF Legible
<1>14. QED
  BY <1>5, <1>13

-------------------------------------------------------------------------------
(* The answers to clients.                                                       *)

(* A refused call was shown the run of one that started under its ID.            *)
Answered ==
  \A k \in Call :
    /\ call[k].st \in {"derived", "started", "refused"} => call[k].id # NoID
    /\ call[k].st = "started" => call[k].by = k
    /\ call[k].st = "refused" =>
         call[k].by \in Call /\ call[call[k].by].id = call[k].id /\ call[call[k].by].st = "started"

LEMMA AnsweredStep == IInv /\ Answered /\ [Next]_vars => Answered'
<1> SUFFICES ASSUME IInv, Answered, [Next]_vars PROVE Answered'
  OBVIOUS
<1>1. CASE UNCHANGED call
  BY <1>1 DEF Answered
<1>2. ASSUME NEW k \in Call, Derive(k) PROVE Answered'
  <2>1. PICK j \in DOMAIN jobs, p \in Params :
          \E id \in WorkflowIDs(jobs[j].name, Identity(p, jobs[j].nonIdentity)) :
            call' = [call EXCEPT ![k] = [st |-> IF id = NoID THEN "error" ELSE "derived",
                                         job |-> j, params |-> p, id |-> id, by |-> 0]]
    BY <1>2 DEF Derive
  <2>2. PICK id \in WorkflowIDs(jobs[j].name, Identity(p, jobs[j].nonIdentity)) :
          call' = [call EXCEPT ![k] = [st |-> IF id = NoID THEN "error" ELSE "derived",
                                       job |-> j, params |-> p, id |-> id, by |-> 0]]
    BY <2>1
  <2>3. /\ call[k].st = "new" /\ \A l \in Call \ {k} : call'[l] = call[l]
        /\ call'[k].st \in {"error", "derived"} /\ call'[k].id = id
        /\ call'[k].st = "derived" => id # NoID
    BY <1>2, <2>2 DEF Derive, IInv, Records
  <2>4. ASSUME NEW l \in Call, call[l].st = "refused"
        PROVE  call[l].by \in Call /\ call[l].by # k
    BY <2>3, <2>4 DEF Answered
  <2>5. QED
    BY <2>3, <2>4 DEF Answered
<1>3. ASSUME NEW k \in Call, Execute(k) PROVE Answered'
  <2> DEFINE id == call[k].id
  <2>1. /\ call[k].st = "derived" /\ DOMAIN call = Call
        /\ DOMAIN call[k] = {"st", "job", "params", "id", "by"}
        /\ \/ id \in DOMAIN exec /\ call' = [call EXCEPT ![k].st = "refused", ![k].by = exec[id].by]
           \/ call' = [call EXCEPT ![k].st = "started", ![k].by = k]
    BY <1>3 DEF Execute, ExecuteUnder, IInv, Records
  <2>2. /\ \A l \in Call \ {k} : call'[l] = call[l]
        /\ call'[k].id = id
        /\ \/ id \in DOMAIN exec /\ call'[k].st = "refused" /\ call'[k].by = exec[id].by
           \/ call'[k].st = "started" /\ call'[k].by = k
    BY <2>1
  <2>3. id # NoID
    BY <2>1 DEF Answered
  <2>4. ASSUME NEW l \in Call \ {k}, call[l].st = "refused"
        PROVE  call[l].by \in Call \ {k} /\ call[call[l].by].id = call[l].id /\ call[call[l].by].st = "started"
    BY <2>1, <2>4 DEF Answered
  <2>5. id \in DOMAIN exec => /\ exec[id].by \in Call \ {k}
                             /\ call[exec[id].by].id = id /\ call[exec[id].by].st = "started"
    BY <2>1 DEF IInv, ByItsCall
  <2>6. QED
    BY <2>2, <2>3, <2>4, <2>5 DEF Answered
<1>4. QED
  BY <1>1, <1>2, <1>3 DEF Next, vars, Boot, Register, OnStart, WorkerStarts, OnStop, ProcessEnds, Outside,
     Dispatch, Completes, Fails

(* A client is told that it started the job only if it did, and that it is there *)
(* already only for a run of the same job and identity (job.go 90-108).          *)
THEOREM AnswersAreTrue == Spec => []AnswersTrue
<1>1. Init => Answered
  BY DEF Init, Answered
<1>2. IInv /\ Answered => AnswersTrue
  <2> SUFFICES ASSUME IInv, Answered, NEW k \in Call, call[k].st = "refused",
                      Plain(call[k].params), Plain(call[call[k].by].params)
               PROVE  IdentityOf(k) = IdentityOf(call[k].by)
    BY DEF AnswersTrue, Answered
  <2>1. PICK b \in Call : b = call[k].by /\ call[b].id = call[k].id /\ call[b].st = "started" /\ call[k].id # NoID
    BY DEF Answered
  <2> DEFINE job(m) == jobs[call[m].job]
             identity(m) == Identity(call[m].params, job(m).nonIdentity)
  <2>2. ASSUME NEW m \in {k, b} PROVE Legible(identity(m))
    <3>1. call[m].params \in Params /\ Plain(call[m].params)
      BY <2>1 DEF IInv, Derived
    <3>2. PICK p : p = call[m].params
      OBVIOUS
    <3>3. PICK non : non = job(m).nonIdentity
      OBVIOUS
    <3>4. /\ DOMAIN p \subseteq ToSet(Keys)
          /\ \A x \in DOMAIN p : p[x] \in [type : STRING, text : Seq(STRING)]
      BY <3>1, <3>2, JobServiceAssumption
    <3>5. Legible(Identity(p, non))
      BY <3>1, <3>2, <3>4 DEF Legible, Identity, Plain
    <3>6. QED
      BY <3>2, <3>3, <3>5
  <2>3. call[k].id \in WorkflowIDs(job(k).name, identity(k)) /\ call[k].id \in WorkflowIDs(job(b).name, identity(b))
    BY <2>1 DEF IInv, Derived
  <2>4. job(k).name = job(b).name /\ identity(k) = identity(b)
    <3> HIDE DEF identity
    <3>1. Legible(identity(k)) /\ Legible(identity(b))
      BY <2>2
    <3>2. QED
      BY <2>1, <2>3, <3>1, SameIDSameIdentity
  <2>5. QED
    BY <2>1, <2>4 DEF IdentityOf
<1>3. QED
  BY <1>1, <1>2, AnsweredStep, IdentityInvariant, PTL DEF Spec

-------------------------------------------------------------------------------
(* The client and the worker of a process.                                       *)

(* The client is open until its OnStop hook has run; before it that of the       *)
(* worker has, and a worker that was stopped does not poll again.                *)
HooksInOrder ==
  /\ host \in {"off", "building", "up", "stopping"} /\ hooks \in Nat
  /\ host = "off" => worker = "none" /\ ~spawned
  /\ host \in {"building", "up"} => client = "open" /\ hooks = 0
  /\ host = "building" => worker = "new" /\ ~spawned
  /\ host = "stopping" =>
       /\ hooks = 0 => client = "open"
       /\ hooks = 1 => client = "open" /\ worker = "stopped"
       /\ hooks >= 1 => worker = "stopped"

LEMMA HooksStep == HooksInOrder /\ [Next]_vars => HooksInOrder'
<1> SUFFICES ASSUME HooksInOrder, [Next]_vars PROVE HooksInOrder'
  OBVIOUS
<1>1. CASE Boot
  BY <1>1 DEF Boot, HooksInOrder
<1>2. CASE Register
  BY <1>2 DEF Register, Exit, HooksInOrder
<1>3. CASE OnStart
  BY <1>3 DEF OnStart, HooksInOrder
<1>4. CASE WorkerStarts
  BY <1>4 DEF WorkerStarts, Exit, HooksInOrder
<1>5. CASE OnStop
  <2>1. /\ host \in {"up", "stopping"} /\ hooks \in {0, 1}
        /\ host' = "stopping" /\ hooks' = hooks + 1 /\ UNCHANGED spawned
        /\ hooks = 0 => worker' = "stopped" /\ UNCHANGED client
        /\ hooks = 1 => UNCHANGED worker
    BY <1>5 DEF OnStop, Hooks, HooksInOrder
  <2>2. QED
    BY <2>1 DEF HooksInOrder
<1>6. CASE ProcessEnds
  BY <1>6 DEF ProcessEnds, Exit, HooksInOrder
<1>7. CASE \E k \in Call : Derive(k) \/ Execute(k)
  BY <1>7 DEF Derive, Execute, ExecuteUnder, process, HooksInOrder
<1>8. CASE \E id \in DOMAIN exec : Dispatch(id) \/ Completes(id) \/ Fails(id)
  BY <1>8 DEF Dispatch, Completes, Fails, process, HooksInOrder
<1>9. CASE UNCHANGED vars
  BY <1>9 DEF vars, process, HooksInOrder
<1>10. QED
  BY <1>1, <1>2, <1>3, <1>4, <1>5, <1>6, <1>7, <1>8, <1>9 DEF Next

(* A worker polls only while the client it was made from is open                 *)
(* (adapter/fx/module.go 52-69).                                                 *)
THEOREM ClientStaysOpen == Spec => []ClientOutlivesWorker
<1>1. Init => HooksInOrder
  BY DEF Init, HooksInOrder
<1>2. HooksInOrder => ClientOutlivesWorker
  BY DEF HooksInOrder, ClientOutlivesWorker
<1>3. QED
  BY <1>1, <1>2, HooksStep, PTL DEF Spec

-------------------------------------------------------------------------------
(* The code of a worker.                                                         *)

(* The phases reached from the root, by an equation.                             *)
LEMMA ReachedBy ==
  ASSUME NEW L \in Nat \ {0}, NEW below, DOMAIN below = 1..L,
         \A n \in 1..L : \A m \in below[n] : m \in 1..L /\ m > n
  PROVE  \E f : /\ f = [n \in 1..L |-> {n} \cup UNION {f[m] : m \in below[n]}]
                /\ Reach(below) = f[1]
<1> DEFINE f == CHOOSE f : f = [n \in DOMAIN below |-> {n} \cup UNION {f[m] : m \in below[n]}]
           own == [n \in 1..L |-> {n}]
<1>1. PICK g : FromBelow(g, L, own, below)
  <2> HIDE DEF own, f
  <2>1. L \in Nat
    OBVIOUS
  <2>2. QED
    BY <2>1, DownTheTree
<1>2. g = [n \in DOMAIN below |-> {n} \cup UNION {g[m] : m \in below[n]}]
  BY <1>1 DEF FromBelow
<1>3. f = [n \in DOMAIN below |-> {n} \cup UNION {f[m] : m \in below[n]}]
  BY <1>2
<1>4. Reach(below) = f[1]
  BY DEF Reach
<1>5. QED
  BY <1>3, <1>4

(* More phases under each phase, more phases below the root.                     *)
LEMMA ReachesMore ==
  ASSUME NEW L \in Nat \ {0}, NEW few, NEW many, DOMAIN few = 1..L, DOMAIN many = 1..L,
         \A n \in 1..L : few[n] \subseteq many[n],
         \A n \in 1..L : \A m \in many[n] : m \in 1..L /\ m > n
  PROVE  Reach(few) \subseteq Reach(many) /\ Reach(many) \subseteq 1..L
<1>1. PICK f : /\ f = [n \in 1..L |-> {n} \cup UNION {f[m] : m \in few[n]}]
               /\ Reach(few) = f[1]
  <2>1. \A n \in 1..L : \A m \in few[n] : m \in 1..L /\ m > n
    OBVIOUS
  <2>2. QED
    BY <2>1, ReachedBy
<1>2. PICK g : /\ g = [n \in 1..L |-> {n} \cup UNION {g[m] : m \in many[n]}]
               /\ Reach(many) = g[1]
  BY ReachedBy
<1> DEFINE S == {k \in Nat : \A n \in 1..L : n > L - k => f[n] \subseteq g[n] /\ g[n] \subseteq 1..L}
<1>3. 0 \in S
  OBVIOUS
<1>4. ASSUME NEW k \in Nat, k \in S PROVE k + 1 \in S
  <2>1. ASSUME NEW n \in 1..L, n > L - (k + 1) PROVE f[n] \subseteq g[n] /\ g[n] \subseteq 1..L
    <3>1. \A m \in many[n] : m \in 1..L /\ f[m] \subseteq g[m] /\ g[m] \subseteq 1..L
      BY <1>4, <2>1
    <3>2. f[n] = {n} \cup UNION {f[m] : m \in few[n]} /\ g[n] = {n} \cup UNION {g[m] : m \in many[n]}
      BY <1>1, <1>2
    <3>3. f[n] \subseteq g[n]
      BY <3>1, <3>2
    <3>4. g[n] \subseteq 1..L
      BY <3>1, <3>2
    <3>5. QED
      BY <3>3, <3>4
  <2>2. QED
    BY <2>1
<1>5. L \in S
  <2> HIDE DEF S
  <2>1. QED
    BY <1>3, <1>4, NatSteps
<1>6. QED
  BY <1>1, <1>2, <1>5

(* CollectDefs and CollectWorkflowDefs forget none of the phases that run and    *)
(* runShard come to (job.go 54-76, phase.go 156-520).                            *)
LEMMA CollectedAll ==
  ASSUME jobs \in Catalogs, NEW j \in DOMAIN jobs
  PROVE  Scheduled(j) \cup {0} \subseteq Definitions(j)
<1> DEFINE L == Len(Tree(j))
           few == [n \in DOMAIN Tree(j) |-> Runs(Tree(j)[n])]
           many == [n \in DOMAIN Tree(j) |-> Under(Tree(j)[n], Fields)]
<1>1. L \in Nat \ {0} /\ DOMAIN Tree(j) = 1..L
  BY JobServiceAssumption DEF Tree
<1>2. \A n \in 1..L : few[n] \subseteq many[n]
  BY <1>1 DEF Runs, Under, Fields
<1>3. \A n \in 1..L : \A m \in many[n] : m \in 1..L /\ m > n
  <2>1. \A n \in 1..L : \A f \in Fields : \A m \in ToSet(Tree(j)[n][f]) : m \in 1..L /\ m > n
    BY <1>1, JobServiceAssumption DEF Tree, Fields
  <2>2. QED
    BY <1>1, <2>1 DEF Under
<1>4. Reach(few) \subseteq Reach(many)
  <2> HIDE DEF L
  <2>1. DOMAIN few = 1..L /\ DOMAIN many = 1..L
    BY <1>1
  <2> HIDE DEF few, many
  <2>2. QED
    BY <1>1, <1>2, <1>3, <2>1, ReachesMore
<1>5. QED
  BY <1>4 DEF Scheduled, Definitions, Collect, Walk

(* The jobs of the process that are not still to be registered have their phases *)
(* under the names of these.                                                     *)
Holds(j) == \A n \in Definitions(j) : Key(j, n) \in DOMAIN reg /\ reg[Key(j, n)] = <<j, n>>
Pending(j) == \E i \in 1..Len(todo) : todo[i] = j
Registered ==
  /\ HooksInOrder
  /\ jobs \in Catalogs
  /\ todo \in Seq(DOMAIN jobs)
  /\ host \in {"up", "stopping"} => todo = <<>>
  /\ host # "off" => \A j \in DOMAIN jobs : Pending(j) \/ Holds(j)

LEMMA RegisterStep ==
  ASSUME Registered, Register, NEW h, h = Head(todo), ~Duplicate(h)
  PROVE  \A j \in DOMAIN jobs : (Pending(j) \/ Holds(j)) => (Pending(j) \/ Holds(j))'
<1> DEFINE keys == {Key(h, n) : n \in Definitions(h)}
<1>1. todo' = Tail(todo) /\ todo # <<>> /\ jobs' = jobs
  BY DEF Register, Outside
<1>2. reg' = [key \in keys \cup DOMAIN reg |->
                IF key \in keys THEN <<h, CHOOSE n \in Definitions(h) : Key(h, n) = key>> ELSE reg[key]]
  BY DEF Register
<1>3. \A n \in Definitions(h) : Key(h, n) \notin DOMAIN reg
  BY DEF Duplicate
<1>4. \A n, m \in Definitions(h) : Key(h, n) = Key(h, m) => n = m
  BY DEF Duplicate
<1>5. \A j, n : Key(j, n)' = Key(j, n) /\ Definitions(j)' = Definitions(j)
  BY <1>1 DEF Key, Definitions, Collect, Walk, Tree
<1>6. Holds(h)'
  <2>1. ASSUME NEW n \in Definitions(h) PROVE Key(h, n) \in DOMAIN reg' /\ reg'[Key(h, n)] = <<h, n>>
    <3>1. Key(h, n) \in keys
      OBVIOUS
    <3>2. (CHOOSE m \in Definitions(h) : Key(h, m) = Key(h, n)) = n
      BY <1>4
    <3>3. QED
      BY <1>2, <3>1, <3>2
  <2>2. QED
    BY <1>1, <1>5, <2>1 DEF Holds
<1>7. ASSUME NEW j \in DOMAIN jobs, Holds(j) PROVE Holds(j)'
  <2>1. ASSUME NEW n \in Definitions(j) PROVE Key(j, n) \in DOMAIN reg' /\ reg'[Key(j, n)] = <<j, n>>
    <3>1. Key(j, n) \in DOMAIN reg /\ reg[Key(j, n)] = <<j, n>>
      BY <1>7 DEF Holds
    <3>2. Key(j, n) \notin keys
      BY <1>3, <3>1
    <3>3. QED
      BY <1>2, <3>1, <3>2
  <2>2. QED
    BY <1>1, <1>5, <2>1 DEF Holds
<1>8. ASSUME NEW j \in DOMAIN jobs, Pending(j) PROVE j = h \/ Pending(j)'
  <2>1. PICK i \in 1..Len(todo) : todo[i] = j
    BY <1>8 DEF Pending
  <2>2. CASE i = 1
    BY <1>1, <2>1, <2>2 DEF Registered
  <2>3. CASE i # 1
    <3>1. i - 1 \in 1..Len(Tail(todo)) /\ Tail(todo)[i - 1] = todo[i]
      BY <1>1, <2>1, <2>3 DEF Registered
    <3>2. QED
      BY <1>1, <2>1, <3>1 DEF Pending
  <2>4. QED
    BY <2>2, <2>3
<1>9. QED
  BY <1>6, <1>7, <1>8

LEMMA RegisteredStep == Registered /\ [Next]_vars => Registered'
<1> SUFFICES ASSUME Registered, [Next]_vars PROVE Registered'
  OBVIOUS
<1>1. HooksInOrder'
  BY HooksStep DEF Registered
<1>2. UNCHANGED jobs
  BY DEF Next, vars, Boot, Register, OnStart, WorkerStarts, OnStop, ProcessEnds, Outside, Derive,
         Execute, ExecuteUnder, Dispatch, Completes, Fails
<1>3. UNCHANGED <<todo, reg>> =>
        todo' \in Seq(DOMAIN jobs) /\ \A j \in DOMAIN jobs : (Pending(j) \/ Holds(j)) => (Pending(j) \/ Holds(j))'
  BY <1>2 DEF Registered, Pending, Holds, Key, Definitions, Collect, Walk, Tree
<1>4. CASE Boot
  <2>1. todo' = [i \in DOMAIN jobs |-> i] /\ host' = "building" /\ DOMAIN jobs = 1..Len(jobs) /\ Len(jobs) \in Nat
    BY <1>4, JobServiceAssumption DEF Boot, Registered
  <2>2. todo' \in Seq(DOMAIN jobs) /\ Len(todo') = Len(jobs)
    BY <2>1
  <2>3. \A j \in DOMAIN jobs : Pending(j)'
    BY <2>1, <2>2 DEF Pending
  <2>4. QED
    BY <1>1, <1>2, <2>1, <2>2, <2>3 DEF Registered
<1>5. CASE Exit /\ host # "off"
  BY <1>1, <1>2, <1>5 DEF Exit, Registered
<1>6. CASE Register /\ ~Duplicate(Head(todo))
  <2>1. todo' = Tail(todo) /\ todo # <<>> /\ host = "building" /\ host' = host
    BY <1>6 DEF Register
  <2>2. todo' \in Seq(DOMAIN jobs)
    BY <2>1 DEF Registered
  <2>3. PICK h : h = Head(todo)
    OBVIOUS
  <2>4. \A j \in DOMAIN jobs : (Pending(j) \/ Holds(j))'
    BY <1>6, <2>1, <2>3, RegisterStep DEF Registered
  <2>5. QED
    BY <1>1, <1>2, <2>1, <2>2, <2>4 DEF Registered
<1>7. CASE OnStart
  BY <1>1, <1>2, <1>3, <1>7 DEF OnStart, Registered
<1>8. CASE OnStop
  BY <1>1, <1>2, <1>3, <1>8 DEF OnStop, Registered
<1>9. CASE UNCHANGED <<host, todo, reg>>
  BY <1>1, <1>2, <1>3, <1>9 DEF Registered
<1>10. QED
  BY <1>4, <1>5, <1>6, <1>7, <1>8, <1>9
     DEF Next, vars, Register, WorkerStarts, ProcessEnds, Derive, Execute, ExecuteUnder, Dispatch, Completes, Fails, process, Registered, HooksInOrder

(* A worker that polls has, under every name a job of its process schedules, the *)
(* phase the job means (job.go 54-83).                                           *)
THEOREM WorkerHasTheCode == Spec => []RunsOwnCode
<1>1. Init => Registered
  BY DEF Init, Registered, HooksInOrder
<1>2. Registered => RunsOwnCode
  <2> SUFFICES ASSUME Registered, worker = "running", NEW j \in DOMAIN jobs, NEW n \in Scheduled(j) \cup {0}
               PROVE  Key(j, n) \in DOMAIN reg /\ reg[Key(j, n)] = <<j, n>>
    BY DEF RunsOwnCode
  <2>1. host \in {"up", "stopping"}
    BY DEF Registered, HooksInOrder
  <2>2. Holds(j)
    BY <2>1 DEF Registered, Pending
  <2>3. n \in Definitions(j)
    BY CollectedAll DEF Registered
  <2>4. QED
    BY <2>2, <2>3 DEF Holds
<1>3. QED
  BY <1>1, <1>2, RegisteredStep, PTL DEF Spec
===============================================================================
