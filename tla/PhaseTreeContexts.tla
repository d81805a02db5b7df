-------------------------- MODULE PhaseTreeContexts --------------------------
(* What a phase finds in its FlowCtx, through the clones and merges of Phase.run *)
(* and runShard: all that the steps before it put (Seen), and nothing but that   *)
(* and what is below it (Confined), in any tree: IDs and names may coincide, and *)
(* the client need not wait. Then what the flows and shards take from their      *)
(* steps (Accounted), and with it that every frame, FlowCtx and execution is     *)
(* what it is declared to be (TypeOK).                                           *)
EXTENDS PhaseTreeProof, FiniteSetTheorems

-------------------------------------------------------------------------------
(* Names and owners.                                                             *)

LEMMA PutNamesIs ==
  ASSUME NEW n \in Node
  PROVE  PutNames[n] = IF Mode(n) \in {"pipeline", "parallel"} THEN UNION {PutNames[c] : c \in Kids(n)} ELSE {Name(n)}
<1> DEFINE L == Len(Tree)
           own == [m \in 1..L |-> IF Mode(m) \in {"pipeline", "parallel"} THEN {} ELSE {Name(m)}]
           below == [m \in 1..L |-> IF Mode(m) \in {"pipeline", "parallel"} THEN Kids(m) ELSE {}]
           Eq(f) == f = [m \in Node |-> IF Mode(m) \in {"pipeline", "parallel"}
                                        THEN UNION {f[c] : c \in Kids(m)} ELSE {Name(m)}]
<1>1. \E f : Eq(f)
  <2>1. L \in Nat /\ \A m \in 1..L : \A c \in below[m] : c \in 1..L /\ c > m
    BY RootNode, NodeFacts, KidFacts DEF Node
  <2>2. PICK f : FromBelow(f, L, own, below)
    <3> HIDE DEF own, below, L
    <3>1. QED
      BY <2>1, DownTheTree
  <2>3. f = [m \in 1..L |-> own[m] \cup UNION {f[c] : c \in below[m]}]
    <3> HIDE DEF own, below, L
    <3>1. QED
      BY <2>2 DEF FromBelow
  <2>4. ASSUME NEW m \in Node
        PROVE own[m] \cup UNION {f[c] : c \in below[m]} =
                IF Mode(m) \in {"pipeline", "parallel"} THEN UNION {f[c] : c \in Kids(m)} ELSE {Name(m)}
    BY DEF Node
  <2>5. Eq(f)
    <3> HIDE DEF own, below
    <3>1. QED
      BY <2>3, <2>4 DEF Node
  <2>6. QED
    BY <2>5
<1>2. PutNames = CHOOSE f : Eq(f)
  BY DEF PutNames
<1>3. Eq(PutNames)
  <2> HIDE DEF Eq
  <2>1. QED
    BY <1>1, <1>2
<1>4. QED
  BY <1>3

(* A phase that composes puts what those that it calls put, a leaf or a shard    *)
(* its own name.                                                                 *)
Puts(a) == PutNames[a[1]]

LEMMA PutsOfCalls ==
  ASSUME NEW a \in Act, Mode(a[1]) \in {"pipeline", "parallel"}, NEW S, \A c \in Calls(a) : Puts(c) \subseteq S
  PROVE  Puts(a) \subseteq S
<1>1. a[1] \in Node /\ Mode(a[1]) # "shard"
  BY ActFacts
<1>2. Calls(a) = Subs(a)
  BY <1>1, StepCalls
<1>3. \A k \in Kids(a[1]) : PutNames[k] \subseteq S
  <2> SUFFICES ASSUME NEW k \in Kids(a[1]) PROVE PutNames[k] \subseteq S
    OBVIOUS
  <2>1. Sub(a, k) \in Calls(a) /\ Sub(a, k)[1] = k
    BY <1>2 DEF Subs, Sub
  <2>2. QED
    BY <2>1 DEF Puts
<1>4. Puts(a) = UNION {PutNames[k] : k \in Kids(a[1])}
  BY <1>1, PutNamesIs DEF Puts
<1>5. QED
  BY <1>3, <1>4

(* The phase whose frame holds the FlowCtx that a runs with: a itself or a phase *)
(* above it in the same workflow.                                                *)
LEMMA OwnIs ==
  ASSUME NEW a \in Act
  PROVE  Own[a] = Up(a, OwnNode[a[1]])
<1>1. Own = [c \in Act |-> Up(c, OwnNode[c[1]])]
  BY Table1 DEF Own
<1>2. QED
  BY <1>1

LEMMA OwnNodeAbove ==
  ASSUME NEW n \in Node
  PROVE  OwnNode[n] \in Node /\ n \in Desc[OwnNode[n]] /\ DomNode[OwnNode[n]] = DomNode[n]
<1> DEFINE S == {k \in Node : /\ OwnNode[k] \in Node /\ k \in Desc[OwnNode[k]]
                              /\ DomNode[OwnNode[k]] = DomNode[k]}
<1>1. 1 \in S
  BY OwnNodeIs, RootNode, DescSelf
<1>2. ASSUME NEW k \in Node \ {1}, Parent[k] \in S PROVE k \in S
  <2>1. CASE Clone(k)
    BY <2>1, OwnNodeIs, DescSelf
  <2>2. CASE ~Clone(k)
    <3>1. OwnNode[k] = OwnNode[Parent[k]] /\ DomNode[k] = DomNode[Parent[k]]
      BY <2>2, OwnNodeIs, DomNodeIs DEF Clone
    <3>2. k \in Desc[Parent[k]]
      BY ParentFacts, DescSelf
    <3>3. QED
      BY <1>2, <3>1, <3>2, DescTrans
  <2>3. QED
    BY <2>1, <2>2
<1>3. Node \subseteq S
  <2> HIDE DEF S
  <2>1. QED
    BY <1>1, <1>2, FromTheRoot
<1>4. QED
  BY <1>3

LEMMA OwnFacts ==
  ASSUME NEW a \in Act
  PROVE  Own[a] \in Act /\ AtOrBelow(a, Own[a]) /\ Dom[Own[a]] = Dom[a]
<1> DEFINE n == OwnNode[a[1]]
<1>1. a[1] \in Node /\ n \in Node /\ a[1] \in Desc[n] /\ DomNode[n] = DomNode[a[1]] /\ Own[a] = Up(a, n)
  BY ActFacts, OwnNodeAbove, OwnIs
<1> HIDE DEF n
<1>2. Own[a] \in Act /\ AtOrBelow(a, Own[a]) /\ Own[a][1] = n
  BY <1>1, UpAct
<1>3. CASE DomNode[n] = 0
  BY <1>1, <1>2, <1>3, DomIs
<1>4. CASE DomNode[n] # 0
  <2>1. DomNode[n] \in Node /\ n \in Desc[DomNode[n]]
    BY <1>1, <1>4, DomNodeFacts
  <2>2. QED
    BY <1>1, <1>2, <1>4, <2>1, DomIs, UpUp
<1>5. QED
  BY <1>2, <1>3, <1>4

(* A step of a pipeline shares the FlowCtx of its caller, a branch of a parallel *)
(* has its own.                                                                  *)
LEMMA OwnCalls ==
  ASSUME NEW a \in Act, NEW c \in Calls(a)
  PROVE  /\ Mode(a[1]) = "pipeline" => Own[c] = Own[a] /\ ~Handler(c[1]) /\ ~Partitioner(c[1])
         /\ Mode(a[1]) = "parallel" => Own[c] = c /\ ~Handler(c[1]) /\ ~Partitioner(c[1])
<1>1. c \in Act /\ AtOrBelow(c, a) /\ Parent[c[1]] = a[1] /\ c[1] \in Node \ {1} /\ a[1] \in Node
  BY CallFacts, ActFacts, KidFacts
<1>2. Mode(a[1]) # "shard" => ~Handler(c[1]) /\ ~Partitioner(c[1])
  BY <1>1 DEF Handler, Partitioner, IsShardPart
<1>3. CASE Mode(a[1]) = "pipeline"
  <2>1. OwnNode[c[1]] = OwnNode[a[1]]
    BY <1>1, <1>2, <1>3, OwnNodeIs DEF Clone, Flow
  <2>2. OwnNode[a[1]] \in Node /\ a[1] \in Desc[OwnNode[a[1]]]
    BY <1>1, OwnNodeAbove
  <2>3. QED
    BY <1>1, <1>2, <1>3, <2>1, <2>2, OwnIs, UpUp
<1>4. CASE Mode(a[1]) = "parallel"
  <2>1. OwnNode[c[1]] = c[1]
    BY <1>1, <1>4, OwnNodeIs DEF Clone
  <2>2. QED
    BY <1>1, <1>2, <1>4, <2>1, OwnIs, UpIs, BelowSelf
<1>5. QED
  BY <1>3, <1>4

-------------------------------------------------------------------------------
(* The stack of calls, in any tree.                                              *)

(* In a step that calls nothing but a top of a workflow it is kept.              *)
LEMMA StackOpens ==
  ASSUME Stack, NEW T,
         \A s \in T : s \in Act /\ \A e \in Act : Dom[e] = Dom[s] /\ AtOrBelow(s, e) => e = s,
         \A b \in Act : b \in Active' => (b \in Active \/ b \in T) /\ Alive(Dom[b])',
         \A b \in Act : Busy(b)' => Mode(b[1]) = "workflow" \/ (Busy(b) /\ frame'[b].at = frame[b].at),
         \A b \in Act : Busy(b) =>
           Busy(b)' \/ \A c \in Act : c \in Active' /\ AtOrBelow(c, b) /\ Dom[c] = Dom[b] => c = b
  PROVE  Stack'
<1>1. AtStep'
  <2> SUFFICES ASSUME NEW b \in Act, Busy(b)', Mode(b[1]) \in {"pipeline", "shard"}
      PROVE /\ Mode(b[1]) = "pipeline" =>
                 /\ frame'[b].at \in 1..Len(Tree[b[1]].steps)
                 /\ \A c \in Calls(b) : c \in Active' => c = Step(b, frame'[b].at)
            /\ Mode(b[1]) = "shard" =>
                 /\ frame'[b].at \in 0..Partitions(b)
                 /\ \A c \in Calls(b) : c \in Active' =>
                      c = IF frame'[b].at = 0 THEN Step(b, 1) ELSE HandlerOf(b, frame'[b].at)
    BY DEF AtStep
  <2>1. Busy(b) /\ frame'[b].at = frame[b].at
    OBVIOUS
  <2>2. \A c \in Calls(b) : c \in Act /\ AtOrBelow(c, b) /\ c # b /\ Dom[c] = Dom[b]
    BY CallFacts, DomCalls DEF Flow
  <2>3. \A c \in Calls(b) : c \in Active' => c \in Active
    BY <2>2
  <2>4. QED
    BY <2>1, <2>3 DEF Stack, AtStep
<1>2. CallersBusy'
  <2> SUFFICES ASSUME NEW e \in Act, NEW b \in Act, b \in Active', AtOrBelow(b, e), e # b, Dom[e] = Dom[b]
               PROVE  Busy(e)'
    BY DEF CallersBusy
  <2>1. b \in Active
    OBVIOUS
  <2>2. Busy(e)
    BY <2>1 DEF Stack, CallersBusy
  <2>3. QED
    BY <2>2
<1>3. DeadIdle'
  BY DEF DeadIdle, Active
<1>4. QED
  BY <1>1, <1>2, <1>3 DEF Stack

(* In particular when a workflow d closes, starts or starts over, the others are  *)
(* left alone.                                                                   *)
LEMMA StackElsewhere ==
  ASSUME Stack, NEW d, NEW T,
         \A s \in T : /\ s \in Act /\ Dom[s] = d /\ Alive(d)'
                      /\ \A e \in Act : Dom[e] = d /\ AtOrBelow(s, e) => e = s,
         \A b \in Act : b \in Active' => b \in T \/ (b \in Active /\ Dom[b] # d),
         \A b \in Act : Dom[b] # d /\ Alive(Dom[b]) => Alive(Dom[b])',
         \A b \in Act : Busy(b)' => Mode(b[1]) = "workflow" \/ (Busy(b) /\ frame'[b].at = frame[b].at),
         \A b \in Act : Busy(b) => Busy(b)' \/ Dom[b] = d
  PROVE  Stack'
<1>1. \A s \in T : s \in Act /\ \A e \in Act : Dom[e] = Dom[s] /\ AtOrBelow(s, e) => e = s
  OBVIOUS
<1>2. \A b \in Act : b \in Active' => (b \in Active \/ b \in T) /\ Alive(Dom[b])'
  BY DEF Stack, DeadIdle
<1>3. ASSUME NEW b \in Act, Busy(b), ~Busy(b)', NEW c \in Act, c \in Active', AtOrBelow(c, b), Dom[c] = Dom[b]
      PROVE  c = b
  <2>1. Dom[b] = d
    BY <1>3
  <2>2. c \in T
    BY <1>3, <2>1
  <2>3. QED
    BY <1>3, <2>1, <2>2
<1>4. QED
  BY <1>1, <1>2, <1>3, StackOpens

(* A phase that calls keeps it.                                                  *)
LEMMA CallsNowStack ==
  ASSUME Stack, NEW a \in Active, NEW C, CallsNow(a, C)
  PROVE  Stack'
<1>1. /\ a \in Act /\ Alive(Dom[a]) /\ Mode(a[1]) # "workflow" /\ Calls(a) \cap Active = {}
      /\ C \subseteq Calls(a) /\ Others(C \cup {a}) /\ UNCHANGED <<status, exec>>
      /\ frame'[a].st = "busy" /\ \A c \in C : frame'[c].st = "called"
  BY DEF CallsNow, Active
<1>2. \A c \in C : c \in Act /\ c \in Calls(a) /\ Dom[c] = Dom[a] /\ AtOrBelow(c, a) /\ c # a /\ c \notin Active
  BY <1>1, CallFacts, DomCalls DEF Flow
<1>3. \A b \in Act : b \in Active' => b \in Active \/ b \in C
  BY <1>1 DEF Active, Others, Same, Released
<1>4. \A b \in Act : Busy(b)' => b = a \/ (b \notin C /\ Busy(b) /\ frame'[b].at = frame[b].at)
  BY <1>1 DEF Busy, Others, Same, Released
<1>5. \A b \in Act : Busy(b) => Busy(b)'
  BY <1>1, <1>2 DEF Busy, Active, Others, Same, Released
<1>6. \A b \in Act : Alive(Dom[b])' <=> Alive(Dom[b])
  BY <1>1 DEF Alive, Running
<1>7. AtStep'
  <2> SUFFICES ASSUME NEW b \in Act, Busy(b)'
      PROVE /\ Mode(b[1]) = "pipeline" =>
                 /\ frame'[b].at \in 1..Len(Tree[b[1]].steps)
                 /\ \A c \in Calls(b) : c \in Active' => c = Step(b, frame'[b].at)
            /\ Mode(b[1]) = "shard" =>
                 /\ frame'[b].at \in 0..Partitions(b)
                 /\ \A c \in Calls(b) : c \in Active' =>
                      c = IF frame'[b].at = 0 THEN Step(b, 1) ELSE HandlerOf(b, frame'[b].at)
    BY DEF AtStep
  <2>1. CASE b = a
    <3>1. \A c \in Calls(a) : c \in Active' => c \in C
      BY <1>1, <1>3, CallFacts
    <3>2. QED
      BY <2>1, <3>1 DEF CallsNow
  <2>2. CASE b # a
    <3>1. Busy(b) /\ frame'[b].at = frame[b].at
      BY <1>4, <2>2
    <3>2. \A c \in Calls(b) : c \in Active' => c \in Active
      BY <1>1, <1>2, <1>3, <2>2, CallFacts, OneCaller
    <3>3. QED
      BY <3>1, <3>2 DEF Stack, AtStep
  <2>3. QED
    BY <2>1, <2>2
<1>8. CallersBusy'
  <2> SUFFICES ASSUME NEW e \in Act, NEW b \in Act, b \in Active', AtOrBelow(b, e), e # b, Dom[e] = Dom[b]
               PROVE  Busy(e)'
    BY DEF CallersBusy
  <2>1. CASE b \in Active
    BY <1>5, <2>1 DEF Stack, CallersBusy
  <2>2. CASE b \in C
    <3>1. AtOrBelow(a, e) /\ Dom[e] = Dom[a]
      BY <1>1, <1>2, <2>2, AboveCall
    <3>2. CASE e = a
      BY <1>1, <3>2 DEF Busy
    <3>3. CASE e # a
      BY <1>1, <1>5, <3>1, <3>3 DEF Stack, CallersBusy
    <3>4. QED
      BY <3>2, <3>3
  <2>3. QED
    BY <1>3, <2>1, <2>2
<1>9. DeadIdle'
  <2> SUFFICES ASSUME NEW b \in Act, b \in Active' PROVE Alive(Dom[b])'
    BY DEF DeadIdle, Active
  <2>1. CASE b \in Active
    BY <1>6, <2>1 DEF Stack, DeadIdle
  <2>2. CASE b \in C
    BY <1>1, <1>2, <1>6, <2>2
  <2>3. QED
    BY <1>3, <2>1, <2>2
<1>10. QED
  BY <1>7, <1>8, <1>9 DEF Stack

(* A phase that returns keeps it, and so does one that consumes a result.        *)
LEMMA ReturnedStack ==
  ASSUME Stack, NEW a \in Active, Returned(a)
  PROVE  Stack'
<1>1. /\ UNCHANGED <<status, exec>> /\ \A b \in Act \ {a} : Same(b) \/ Released(b)
      /\ frame'[a].st = "ok" /\ a \in Act /\ Alive(Dom[a])
  BY DEF Returned, Others, Active
<1>2. \A b \in Act : /\ b \in Active' => b \in Active /\ b # a
                     /\ Busy(b)' => Busy(b) /\ frame'[b].at = frame[b].at
                     /\ Busy(b) => Busy(b)' \/ b = a
  BY <1>1 DEF Active, Busy, Same, Released
<1>3. \A b \in Active : Alive(Dom[b])'
  BY <1>1 DEF Stack, DeadIdle, Alive, Running
<1>4. \A c \in Act : c \in Active' /\ AtOrBelow(c, a) /\ Dom[c] = Dom[a] => c = a
  <2>1. CASE Mode(a[1]) = "workflow"
    BY <1>1, <2>1, ChildIsTip DEF Children
  <2>2. CASE Mode(a[1]) # "workflow"
    BY <1>1, <1>2, <2>2, NoneBelow DEF Stack, Returned
  <2>3. QED
    BY <2>1, <2>2
<1>5. QED
  <2> DEFINE T == {}
  <2>1. \A s \in T : s \in Act /\ \A e \in Act : Dom[e] = Dom[s] /\ AtOrBelow(s, e) => e = s
    OBVIOUS
  <2>2. \A b \in Act : b \in Active' => (b \in Active \/ b \in T) /\ Alive(Dom[b])'
    BY <1>2, <1>3
  <2> HIDE DEF T
  <2>3. QED
    BY <1>2, <1>4, <2>1, <2>2, StackOpens

LEMMA QuietStack ==
  ASSUME Stack, Quiet
  PROVE  Stack'
<1>1. UNCHANGED <<status, exec>> /\ \A b \in Act : Same(b) \/ Released(b)
  BY DEF Quiet, Steady, Others
<1>2. \A b \in Act : (b \in Active' <=> b \in Active) /\ (Busy(b)' <=> Busy(b))
                     /\ (Busy(b)' => frame'[b].at = frame[b].at)
  BY <1>1 DEF Active, Busy, Same, Released
<1>3. \A b \in Active : Alive(Dom[b])'
  BY <1>1 DEF Stack, DeadIdle, Alive, Running
<1> DEFINE T == {}
<1>4. \A s \in T : s \in Act /\ \A e \in Act : Dom[e] = Dom[s] /\ AtOrBelow(s, e) => e = s
  OBVIOUS
<1> HIDE DEF T
<1>5. QED
  BY <1>2, <1>3, <1>4, StackOpens

LEMMA EffectStack ==
  ASSUME Stack, NEW a \in Act, Effect(a)
  PROVE  Stack'
<1>1. CASE Returned(a)
  BY <1>1, ReturnedStack DEF Returned
<1>2. ASSUME NEW C, CallsNow(a, C) PROVE Stack'
  BY <1>2, CallsNowStack DEF CallsNow
<1>3. CASE Quiet
  BY <1>3, QuietStack
<1>4. QED
  BY <1>1, <1>2, <1>3 DEF Effect

-------------------------------------------------------------------------------
(* The FlowCtxs.                                                                 *)

(* What the phases that a caller in progress has passed put is in its FlowCtx;   *)
(* what a branch put is in the clone of the branch until it has been merged.     *)
SeenInOrder(a) ==
  \A j \in 1..frame[a].at :
    (j = frame[a].at => frame[Step(a, j)].st = "ok") => Puts(Step(a, j)) \subseteq DOMAIN Ctx(a)
SeenAtOnce(a) ==
  \A b \in Calls(a) :
    /\ frame[b].st = "ok" => Puts(b) \subseteq DOMAIN frame[b].fc
    /\ frame[b].st = "idle" => Puts(b) \subseteq DOMAIN Ctx(a)
Seen ==
  \A a \in Act : Busy(a) =>
    /\ Mode(a[1]) = "pipeline" => SeenInOrder(a)
    /\ Mode(a[1]) = "parallel" => SeenAtOnce(a)

(* A step leaves everything in the FlowCtxs but those of frames R, which are     *)
(* idle or start anew; if one of them was in progress, its workflow is over.     *)
Growing(R) ==
  /\ R \subseteq Act
  /\ \A b \in Act \ R : DOMAIN frame[b].fc \subseteq DOMAIN frame'[b].fc
  /\ \A r \in R : /\ frame'[r].st \in {"idle", "called"}
                  /\ Busy(r) => \A x \in Act : Dom[x] = Dom[r] => ~Busy(x)'

(* So a phase in progress finds what it found before.                            *)
LEMMA CtxGrows ==
  ASSUME Stack, NEW R, Growing(R), NEW a \in Act, Busy(a), Busy(a)'
  PROVE  DOMAIN Ctx(a) \subseteq DOMAIN frame'[Own[a]].fc
<1>1. Own[a] \in Act /\ AtOrBelow(a, Own[a]) /\ Dom[Own[a]] = Dom[a]
  BY OwnFacts
<1>2. a \in Active
  BY DEF Busy, Active
<1>3. Busy(Own[a])
  BY <1>1, <1>2 DEF Stack, CallersBusy
<1>4. Own[a] \notin R
  BY <1>1, <1>3 DEF Growing
<1>5. QED
  BY <1>1, <1>4 DEF Growing, Ctx

(* A caller that goes on, or whose branches have just been called.               *)
Onwards(a) ==
  /\ Mode(a[1]) = "pipeline" =>
       /\ \A j \in 1..(frame'[a].at - 1) : Puts(Step(a, j)) \subseteq DOMAIN frame'[Own[a]].fc
       /\ frame'[a].at \in Nat /\ frame'[Step(a, frame'[a].at)].st = "called"
  /\ Mode(a[1]) = "parallel" => \A b \in Calls(a) : frame'[b].st = "called"

(* Seen is kept if who returns has put all, and who is merged has been merged.   *)
LEMMA SeenKeeps ==
  ASSUME Stack, Seen, NEW R, Growing(R),
         \A b \in Act : frame[b].st # "ok" /\ frame'[b].st = "ok" /\ ~Handler(b[1]) /\ ~Partitioner(b[1]) =>
           Puts(b) \subseteq DOMAIN frame'[Own[b]].fc,
         \A a \in Act : Mode(a[1]) = "parallel" /\ Busy(a)' =>
           \A b \in Calls(a) : frame[b].st # "idle" /\ frame'[b].st = "idle" =>
             Puts(b) \subseteq DOMAIN frame'[Own[a]].fc,
         \A a \in Act : Busy(a)' => (Busy(a) /\ frame'[a].at = frame[a].at) \/ Onwards(a)
  PROVE  Seen'
<1> SUFFICES ASSUME NEW a \in Act, Busy(a)'
             PROVE  /\ Mode(a[1]) = "pipeline" => SeenInOrder(a)'
                    /\ Mode(a[1]) = "parallel" => SeenAtOnce(a)'
  BY DEF Seen
<1>1. CASE Onwards(a)
  <2>1. CASE Mode(a[1]) = "pipeline"
    <3>1. PICK k \in Nat : k = frame'[a].at
      BY <1>1, <2>1 DEF Onwards
    <3>2. frame'[Step(a, k)].st # "ok" /\ \A j \in 1..(k - 1) : Puts(Step(a, j)) \subseteq DOMAIN frame'[Own[a]].fc
      BY <1>1, <2>1, <3>1 DEF Onwards
    <3>3. \A j \in 1..k : j = k \/ j \in 1..(k - 1)
      OBVIOUS
    <3>4. \A j \in 1..k : (j = k => frame'[Step(a, j)].st = "ok") => Puts(Step(a, j)) \subseteq DOMAIN frame'[Own[a]].fc
      BY <3>2, <3>3
    <3>5. QED
      BY <2>1, <3>1, <3>4 DEF SeenInOrder, Ctx, Puts
  <2>2. CASE Mode(a[1]) = "parallel"
    BY <1>1, <2>2 DEF Onwards, SeenAtOnce
  <2>3. QED
    BY <2>1, <2>2
<1>2. CASE Busy(a) /\ frame'[a].at = frame[a].at
  <2>1. DOMAIN Ctx(a) \subseteq DOMAIN frame'[Own[a]].fc
    BY <1>2, CtxGrows
  <2>2. CASE Mode(a[1]) = "pipeline"
    <3>1. SeenInOrder(a) /\ frame[a].at \in 1..Len(Tree[a[1]].steps)
      BY <1>2, <2>2 DEF Seen, Stack, AtStep
    <3>2. PICK k \in 1..Len(Tree[a[1]].steps) : k = frame[a].at
      BY <3>1
    <3>3. Step(a, k) \in Calls(a) /\ Step(a, k) \in Act
      BY <2>2, Steps
    <3>4. Own[Step(a, k)] = Own[a] /\ ~Handler(Step(a, k)[1]) /\ ~Partitioner(Step(a, k)[1])
      BY <2>2, <3>3, OwnCalls
    <3>5. \A j \in 1..k : (j = k => frame[Step(a, j)].st = "ok") => Puts(Step(a, j)) \subseteq DOMAIN Ctx(a)
      BY <3>1, <3>2 DEF SeenInOrder
    <3>6. \A j \in 1..k : (j = k => frame'[Step(a, j)].st = "ok") => Puts(Step(a, j)) \subseteq DOMAIN frame'[Own[a]].fc
      BY <2>1, <3>3, <3>4, <3>5
    <3>7. QED
      BY <1>2, <2>2, <3>2, <3>6 DEF SeenInOrder, Ctx, Puts
  <2>3. CASE Mode(a[1]) = "parallel"
    <3>1. SeenAtOnce(a)
      BY <1>2, <2>3 DEF Seen
    <3> SUFFICES ASSUME NEW b \in Calls(a)
                 PROVE  /\ frame'[b].st = "ok" => Puts(b) \subseteq DOMAIN frame'[b].fc
                        /\ frame'[b].st = "idle" => Puts(b) \subseteq DOMAIN frame'[Own[a]].fc
      BY <2>3 DEF SeenAtOnce, Ctx, Puts
    <3>2. b \in Act /\ Own[b] = b /\ ~Handler(b[1]) /\ ~Partitioner(b[1])
      BY <2>3, CallFacts, OwnCalls
    <3>3. ASSUME frame'[b].st = "ok" PROVE Puts(b) \subseteq DOMAIN frame'[b].fc
      <4>1. CASE frame[b].st = "ok"
        <5>1. b \notin R
          BY <3>3 DEF Growing
        <5>2. QED
          BY <3>1, <3>2, <4>1, <5>1 DEF SeenAtOnce, Growing
      <4>2. CASE frame[b].st # "ok"
        BY <3>2, <3>3, <4>2
      <4>3. QED
        BY <4>1, <4>2
    <3>4. ASSUME frame'[b].st = "idle" PROVE Puts(b) \subseteq DOMAIN frame'[Own[a]].fc
      <4>1. CASE frame[b].st = "idle"
        BY <2>1, <3>1, <4>1 DEF SeenAtOnce
      <4>2. CASE frame[b].st # "idle"
        BY <2>3, <3>4, <4>2
      <4>3. QED
        BY <4>1, <4>2
    <3>5. QED
      BY <3>3, <3>4
  <2>4. QED
    BY <2>2, <2>3
<1>3. QED
  BY <1>1, <1>2

-------------------------------------------------------------------------------
(* The steps of Phase.run.  A pipeline calls its first step.                     *)
LEMMA StartPipelineSeen ==
  ASSUME Shape, Stack, Seen, NEW a \in Active, StartPipeline(a)
  PROVE  Seen'
<1>1. a \in Act /\ Mode(a[1]) = "pipeline" /\ At(a, "called")
  BY DEF StartPipeline, Active
<1>2. /\ a[1] \in Node /\ frame[a].st = "called"
      /\ DOMAIN frame = Act /\ DOMAIN frame[a] = Fields /\ \A b \in Act : DOMAIN frame[b] = Fields
  BY <1>1, Here
<1>3. Calls(a) \cap Active = {}
  BY <1>1, <1>2, InactiveCalls DEF Busy
<1>4. CASE Kids(a[1]) = {}
  <2>1. frame' = [frame EXCEPT ![a].st = "ok"]
    BY <1>4 DEF StartPipeline
  <2>2. frame'[a].st = "ok" /\ (\A b \in Act : frame'[b].fc = frame[b].fc) /\ \A b \in Act \ {a} : frame'[b] = frame[b]
    BY <1>1, <1>2, <2>1 DEF Fields
  <2>3. Growing({})
    BY <2>2 DEF Growing
  <2>4. \A S : Puts(a) \subseteq S
    BY <1>1, <1>4, Steps, PutsOfCalls
  <2>5. \A b \in Act : frame[b].st # "ok" /\ frame'[b].st = "ok" => b = a
    BY <2>2
  <2>6. \A b \in Act : frame'[b].st = "idle" => frame[b].st = "idle"
    BY <2>2
  <2>7. \A b \in Act : Busy(b)' => Busy(b) /\ frame'[b].at = frame[b].at
    BY <2>2 DEF Busy
  <2>8. QED
    BY <2>3, <2>4, <2>5, <2>6, <2>7, CallFacts, SeenKeeps
<1>5. CASE Kids(a[1]) # {}
  <2> DEFINE s == Step(a, 1)
  <2>1. frame' = [frame EXCEPT ![a].st = "busy", ![a].at = 1, ![s] = Called]
    BY <1>5 DEF StartPipeline
  <2>2. s \in Calls(a) /\ s \in Act /\ s # a
    BY <1>1, <1>5, Steps
  <2>3. frame'[a].at = 1 /\ frame'[a].fc = frame[a].fc /\ frame'[a].st = "busy"
    BY <1>1, <1>2, <2>1, <2>2 DEF Fields
  <2>4. frame'[s].st = "called" /\ \A b \in Act \ {a, s} : frame'[b] = frame[b]
    BY <1>2, <2>1, <2>2, Records
  <2>5. Growing({s})
    BY <1>3, <2>2, <2>3, <2>4 DEF Growing, Busy, Active
  <2>6. Onwards(a)
    BY <1>1, <2>3, <2>4 DEF Onwards
  <2> HIDE DEF s
  <2>7. \A b \in Act : frame'[b].st = "ok" => frame[b].st = "ok"
    BY <2>3, <2>4
  <2>8. \A b \in Act : frame'[b].st = "idle" => frame[b].st = "idle"
    BY <2>3, <2>4
  <2>9. \A b \in Act : Busy(b)' => b = a \/ (Busy(b) /\ frame'[b].at = frame[b].at)
    BY <2>4 DEF Busy
  <2>10. QED
    BY <2>5, <2>6, <2>7, <2>8, <2>9, CallFacts, SeenKeeps
<1>6. QED
  BY <1>4, <1>5

(* It goes on over the output of the step that returned.                         *)
LEMMA StepPipelineSeen ==
  ASSUME Shape, Stack, Seen, NEW a \in Active, StepPipeline(a)
  PROVE  Seen'
<1> DEFINE L == Len(Tree[a[1]].steps)
           k == frame[a].at
<1>1. a \in Act /\ Mode(a[1]) = "pipeline" /\ At(a, "busy") /\ frame[Step(a, k)].st = "ok"
  BY DEF StepPipeline, StepPipelineTo, Active
<1>2. /\ a[1] \in Node /\ frame[a].st = "busy"
      /\ DOMAIN frame = Act /\ DOMAIN frame[a] = Fields /\ \A b \in Act : DOMAIN frame[b] = Fields
  BY <1>1, Here
<1>3. k \in 1..L /\ L \in Nat /\ \A b \in Calls(a) : b \in Active => b = Step(a, k)
  BY <1>1, <1>2, Steps DEF Stack, AtStep, Busy
<1>4. Calls(a) \cap Active = {}
  BY <1>1, <1>3 DEF Active
<1>5. \A j \in 1..k : Puts(Step(a, j)) \subseteq DOMAIN Ctx(a)
  <2>1. SeenInOrder(a)
    BY <1>1, <1>2 DEF Seen, Busy
  <2>2. QED
    BY <1>1, <2>1 DEF SeenInOrder
<1>6. Own[a] \in Act
  BY <1>1, OwnFacts
<1>7. CASE k + 1 > L
  <2>1. frame' = [frame EXCEPT ![a].st = "ok"]
    BY <1>7 DEF StepPipeline, StepPipelineTo
  <2>2. frame'[a].st = "ok" /\ (\A b \in Act : frame'[b].fc = frame[b].fc) /\ \A b \in Act \ {a} : frame'[b] = frame[b]
    BY <1>1, <1>2, <2>1 DEF Fields
  <2>3. Growing({})
    BY <2>2 DEF Growing
  <2>4. Puts(a) \subseteq DOMAIN frame'[Own[a]].fc
    <3>1. k = L
      BY <1>3, <1>7
    <3>2. \A c \in Calls(a) : Puts(c) \subseteq DOMAIN Ctx(a)
      BY <1>1, <1>5, <3>1, Steps
    <3>3. Puts(a) \subseteq DOMAIN Ctx(a)
      BY <1>1, <3>2, PutsOfCalls
    <3>4. QED
      BY <1>6, <2>2, <3>3 DEF Ctx
  <2>5. \A b \in Act : frame[b].st # "ok" /\ frame'[b].st = "ok" => b = a
    BY <2>2
  <2>6. \A b \in Act : frame'[b].st = "idle" => frame[b].st = "idle"
    BY <2>2
  <2>7. \A b \in Act : Busy(b)' => Busy(b) /\ frame'[b].at = frame[b].at
    BY <2>2 DEF Busy
  <2>8. QED
    BY <2>3, <2>4, <2>5, <2>6, <2>7, CallFacts, SeenKeeps
<1>8. CASE ~(k + 1 > L)
  <2> DEFINE s == Step(a, k + 1)
  <2>1. frame' = [frame EXCEPT ![a].at = k + 1, ![s] = Called]
    BY <1>8 DEF StepPipeline, StepPipelineTo
  <2>2. k + 1 \in 1..L /\ k + 1 \in Nat /\ k + 1 - 1 = k
    BY <1>3, <1>8
  <2>3. s \in Calls(a) /\ s \in Act /\ s # a
    BY <1>1, <2>2, Steps
  <2> HIDE DEF s, k
  <2>4. frame'[a].at = k + 1 /\ frame'[a].fc = frame[a].fc /\ frame'[a].st = "busy"
    BY <1>1, <1>2, <2>1, <2>3 DEF Fields
  <2>5. frame'[s].st = "called" /\ \A b \in Act \ {a, s} : frame'[b] = frame[b]
    BY <1>2, <2>1, <2>3, Records
  <2>6. Growing({s})
    BY <1>4, <2>3, <2>4, <2>5 DEF Growing, Busy, Active
  <2>7. Onwards(a)
    <3>1. Own[a] # s
      <4>1. AtOrBelow(a, Own[a]) /\ AtOrBelow(s, a)
        BY <1>1, <2>3, OwnFacts, CallFacts
      <4>2. QED
        BY <1>1, <1>6, <2>3, <4>1, Antisymmetric
    <3>2. frame'[Own[a]].fc = Ctx(a)
      BY <1>6, <2>4, <2>5, <3>1 DEF Ctx
    <3>3. s = Step(a, frame'[a].at)
      BY <2>4 DEF s
    <3>4. frame'[a].at - 1 = k /\ frame'[a].at \in Nat
      BY <1>3, <2>2, <2>4
    <3>5. \A j \in 1..k : Puts(Step(a, j)) \subseteq DOMAIN frame'[Own[a]].fc
      BY <1>5, <3>2
    <3>6. QED
      BY <1>1, <2>5, <3>3, <3>4, <3>5 DEF Onwards
  <2>8. \A b \in Act : frame'[b].st = "ok" => frame[b].st = "ok"
    BY <2>4, <2>5
  <2>9. \A b \in Act : frame'[b].st = "idle" => frame[b].st = "idle"
    BY <2>4, <2>5
  <2>10. \A b \in Act : Busy(b)' => b = a \/ (Busy(b) /\ frame'[b].at = frame[b].at)
    BY <2>5 DEF Busy
  <2>11. QED
    BY <2>6, <2>7, <2>8, <2>9, <2>10, CallFacts, SeenKeeps
<1>9. QED
  BY <1>7, <1>8

(* A parallel calls its branches, each with a clone.                             *)
LEMMA StartParallelSeen ==
  ASSUME Shape, Stack, Seen, NEW a \in Active, StartParallel(a)
  PROVE  Seen'
<1>1. a \in Act /\ Mode(a[1]) = "parallel" /\ At(a, "called")
  BY DEF StartParallel, Active
<1>2. /\ a[1] \in Node /\ frame[a].st = "called"
      /\ DOMAIN frame = Act /\ DOMAIN frame[a] = Fields /\ \A b \in Act : DOMAIN frame[b] = Fields
  BY <1>1, Here
<1>3. Calls(a) \cap Active = {}
  BY <1>1, <1>2, InactiveCalls DEF Busy
<1>4. Calls(a) = Subs(a) /\ Calls(a) \subseteq Act \ {a}
  BY <1>1, Steps
<1>5. frame' = [b \in Act |-> IF b \in Calls(a) THEN CalledWith(Ctx(a))
                             ELSE IF b # a THEN frame[b]
                             ELSE [frame[a] EXCEPT !.st = IF Calls(a) = {} THEN "ok" ELSE "busy"]]
  BY <1>4 DEF StartParallel
<1>6. /\ \A c \in Calls(a) : frame'[c].st = "called"
      /\ \A b \in Act \ (Calls(a) \cup {a}) : frame'[b] = frame[b]
      /\ frame'[a] = [frame[a] EXCEPT !.st = IF Calls(a) = {} THEN "ok" ELSE "busy"]
  BY <1>1, <1>4, <1>5, Records
<1>7. frame'[a].st = (IF Calls(a) = {} THEN "ok" ELSE "busy") /\ frame'[a].fc = frame[a].fc
  BY <1>2, <1>6 DEF Fields
<1>8. Growing(Calls(a))
  BY <1>1, <1>3, <1>4, <1>6, <1>7 DEF Growing, Busy, Active
<1>9. Onwards(a)
  BY <1>1, <1>6 DEF Onwards
<1>10. ASSUME NEW b \in Act, frame[b].st # "ok", frame'[b].st = "ok" PROVE \A S : Puts(b) \subseteq S
  <2>1. b = a /\ Calls(a) = {}
    BY <1>6, <1>7, <1>10
  <2>2. QED
    BY <1>1, <2>1, PutsOfCalls
<1>11. \A b \in Act : frame'[b].st = "idle" => frame[b].st = "idle"
  BY <1>6, <1>7
<1>12. \A b \in Act : Busy(b)' => b = a \/ (Busy(b) /\ frame'[b].at = frame[b].at)
  BY <1>6 DEF Busy
<1>13. QED
  BY <1>8, <1>9, <1>10, <1>11, <1>12, CallFacts, SeenKeeps

(* It merges the clone of a branch that returned.                                *)
LEMMA JoinParallelSeen ==
  ASSUME Shape, Stack, Seen, NEW a \in Active, NEW b \in Subs(a), JoinParallel(a, b)
  PROVE  Seen'
<1> DEFINE last == \A c \in Subs(a) \ {b} : frame[c].st = "idle"
           o == Own[a]
<1>1. a \in Act /\ Mode(a[1]) = "parallel" /\ At(a, "busy") /\ frame[b].st = "ok"
  BY DEF JoinParallel, JoinThen, Active
<1>2. /\ a[1] \in Node /\ frame[a].st = "busy"
      /\ DOMAIN frame = Act /\ DOMAIN frame[a] = Fields /\ \A c \in Act : DOMAIN frame[c] = Fields
  BY <1>1, Here
<1>3. Calls(a) = Subs(a) /\ b \in Calls(a) /\ b \in Act /\ b # a
  BY <1>1, Steps
<1>4. frame' = [frame EXCEPT ![o].fc = Merge(@, frame[b].fc),
                            ![b] = Idle,
                            ![a].st = IF last THEN "ok" ELSE "busy"]
  BY DEF JoinParallel, JoinThen
<1>5. o \in Act /\ o # b
  <2>1. AtOrBelow(a, o) /\ AtOrBelow(b, a) /\ o \in Act
    BY <1>1, <1>3, OwnFacts, CallFacts
  <2>2. QED
    BY <1>1, <1>3, <2>1, Antisymmetric
<1> HIDE DEF o
<1>6. \A c \in Act \ {o, a, b} : frame'[c] = frame[c]
  BY <1>2, <1>3, <1>4, <1>5
<1>7. frame'[b].st = "idle"
  BY <1>2, <1>3, <1>4, <1>5, Records
<1>8. frame'[a].at = frame[a].at /\ frame'[a].st = (IF last THEN "ok" ELSE "busy") /\ (a # o => frame'[a].fc = frame[a].fc)
  BY <1>1, <1>2, <1>3, <1>4, <1>5 DEF Fields
<1>9. frame'[o].fc = Merge(frame[o].fc, frame[b].fc) /\ (o # a => frame'[o].st = frame[o].st /\ frame'[o].at = frame[o].at)
  BY <1>1, <1>2, <1>3, <1>4, <1>5 DEF Fields
<1>10. DOMAIN frame'[o].fc = DOMAIN frame[o].fc \cup DOMAIN frame[b].fc
  BY <1>9 DEF Merge, Over
<1>11. Growing({b})
  <2>1. \A c \in Act \ {b} : DOMAIN frame[c].fc \subseteq DOMAIN frame'[c].fc
    BY <1>6, <1>8, <1>10
  <2>2. QED
    BY <1>1, <1>3, <1>7, <2>1 DEF Growing, Busy
<1>12. SeenAtOnce(a)
  BY <1>1, <1>2 DEF Seen, Busy
<1>13. Puts(b) \subseteq DOMAIN frame'[o].fc
  BY <1>1, <1>3, <1>10, <1>12 DEF SeenAtOnce
<1>14. ASSUME last PROVE Puts(a) \subseteq DOMAIN frame'[o].fc
  <2>1. \A c \in Calls(a) : Puts(c) \subseteq DOMAIN frame'[o].fc
    BY <1>3, <1>10, <1>12, <1>13, <1>14 DEF SeenAtOnce, Ctx, o
  <2>2. QED
    BY <1>1, <2>1, PutsOfCalls
<1>15. \A c \in Act : frame[c].st # "ok" /\ frame'[c].st = "ok" => c = a /\ last
  BY <1>6, <1>7, <1>8, <1>9
<1>16. \A c \in Act : frame[c].st # "idle" /\ frame'[c].st = "idle" => c = b
  BY <1>6, <1>8, <1>9
<1>17. \A c \in Act : Busy(c)' => Busy(c) /\ frame'[c].at = frame[c].at
  BY <1>2, <1>6, <1>7, <1>8, <1>9 DEF Busy
<1>18. \A c \in Act : b \in Calls(c) => c = a
  BY <1>1, <1>3, OneCaller
<1>19. QED
  <2>1. \A c \in Act : frame[c].st # "ok" /\ frame'[c].st = "ok" => Puts(c) \subseteq DOMAIN frame'[Own[c]].fc
    BY <1>14, <1>15 DEF o
  <2>2. \A c \in Act : \A e \in Calls(c) : frame[e].st # "idle" /\ frame'[e].st = "idle" => Puts(e) \subseteq DOMAIN frame'[Own[c]].fc
    BY <1>13, <1>16, <1>18, CallFacts DEF o
  <2>3. QED
    BY <1>11, <1>17, <2>1, <2>2, SeenKeeps

-------------------------------------------------------------------------------
(* A leaf or a shard returns with its output in the FlowCtx.                     *)
LEMMA PutSeen ==
  ASSUME Shape, Stack, Seen, NEW a \in Act, Mode(a[1]) \notin {"pipeline", "parallel"}, NEW v,
         frame' = [frame EXCEPT ![a].st = "ok", ![Own[a]].fc = Put(@, a[1], v)]
  PROVE  Seen'
<1> DEFINE o == Own[a]
<1>1. DOMAIN frame = Act /\ \A b \in Act : DOMAIN frame[b] = Fields
  BY DEF Shape, Frames
<1>2. o \in Act /\ a[1] \in Node
  BY OwnFacts, ActFacts
<1>3. frame' = [frame EXCEPT ![a].st = "ok", ![o].fc = Put(@, a[1], v)]
  OBVIOUS
<1> HIDE DEF o
<1>4. frame'[a].st = "ok" /\ frame'[o].fc = Put(frame[o].fc, a[1], v)
  BY <1>1, <1>2, <1>3 DEF Fields
<1>5. \A b \in Act \ {a} : frame'[b].st = frame[b].st /\ frame'[b].at = frame[b].at
  BY <1>1, <1>2, <1>3 DEF Fields
<1>6. \A b \in Act \ {o} : frame'[b].fc = frame[b].fc
  BY <1>1, <1>2, <1>3 DEF Fields
<1>7. DOMAIN frame'[o].fc = DOMAIN frame[o].fc \cup {Name(a[1])}
  BY <1>4 DEF Put, Over
<1>8. Growing({})
  BY <1>6, <1>7 DEF Growing
<1>9. Puts(a) \subseteq DOMAIN frame'[Own[a]].fc
  <2>1. Puts(a) = {Name(a[1])}
    BY <1>2, PutNamesIs DEF Puts
  <2>2. QED
    BY <1>7, <2>1 DEF o
<1>10. \A b \in Act : frame[b].st # "ok" /\ frame'[b].st = "ok" => b = a
  BY <1>5
<1>11. \A b \in Act : frame'[b].st = "idle" => frame[b].st = "idle"
  BY <1>4, <1>5
<1>12. \A b \in Act : Busy(b)' => Busy(b) /\ frame'[b].at = frame[b].at
  BY <1>4, <1>5 DEF Busy
<1>13. QED
  BY <1>8, <1>9, <1>10, <1>11, <1>12, CallFacts, SeenKeeps

LEMMA ReturnsSeen ==
  ASSUME Shape, Stack, Seen, NEW a \in Act, Mode(a[1]) \notin {"pipeline", "parallel"}, NEW v, Returns(a, v)
  PROVE  Seen'
<1>1. DOMAIN frame = Act /\ \A b \in Act : DOMAIN frame[b] = Fields
  BY DEF Shape, Frames
<1>2. CASE Handler(a[1]) \/ Partitioner(a[1])
  <2>1. frame' = [frame EXCEPT ![a].st = "ok", ![a].val = v]
    BY <1>2 DEF Returns
  <2>2. frame'[a].st = "ok" /\ (\A b \in Act : frame'[b].fc = frame[b].fc) /\ \A b \in Act \ {a} : frame'[b] = frame[b]
    BY <1>1, <2>1 DEF Fields
  <2>3. Growing({})
    BY <2>2 DEF Growing
  <2>4. \A b \in Act : frame[b].st # "ok" /\ frame'[b].st = "ok" => b = a
    BY <2>2
  <2>5. \A b \in Act : frame'[b].st = "idle" => frame[b].st = "idle"
    BY <2>2
  <2>6. \A b \in Act : Busy(b)' => Busy(b) /\ frame'[b].at = frame[b].at
    BY <2>2 DEF Busy
  <2>7. QED
    BY <1>2, <2>3, <2>4, <2>5, <2>6, CallFacts, SeenKeeps
<1>3. CASE ~(Handler(a[1]) \/ Partitioner(a[1]))
  <2>1. \E w : frame' = [frame EXCEPT ![a].st = "ok", ![Own[a]].fc = Put(@, a[1], w)]
    BY <1>3 DEF Returns
  <2>2. QED
    BY <2>1, PutSeen
<1>4. QED
  BY <1>2, <1>3

(* Frames that only change their state, to called or busy, put nothing.          *)
LEMMA CallsSeen ==
  ASSUME Shape, Stack, Seen, NEW a \in Act, Mode(a[1]) \notin {"pipeline", "parallel"},
         NEW R, Growing(R), \A b \in Act \ (R \cup {a}) : frame'[b].st = frame[b].st /\ frame'[b].at = frame[b].at,
         frame'[a].st = "busy",
         \A r \in R : frame'[r].st = "called" \/ Handler(r[1])
  PROVE  Seen'
<1>1. R \subseteq Act /\ \A r \in R : frame'[r].st \in {"idle", "called"}
  BY DEF Growing
<1>2. \A b \in Act : frame[b].st # "ok" => frame'[b].st # "ok"
  BY <1>1
<1>3. ASSUME NEW c \in Act, Mode(c[1]) = "parallel", NEW b \in Calls(c), frame[b].st # "idle", frame'[b].st = "idle"
      PROVE  FALSE
  <2>1. b \in Act /\ ~Handler(b[1])
    BY <1>3, CallFacts, OwnCalls
  <2>2. QED
    BY <1>1, <1>3, <2>1
<1>4. Onwards(a)
  BY DEF Onwards
<1>5. \A b \in Act : Busy(b)' => b = a \/ (Busy(b) /\ frame'[b].at = frame[b].at)
  BY <1>1 DEF Busy
<1>6. QED
  BY <1>2, <1>3, <1>4, <1>5, SeenKeeps

-------------------------------------------------------------------------------
(* The steps of runShard.  A shard calls its partitioner.                        *)
LEMMA StartShardSeen ==
  ASSUME Shape, Stack, Seen, NEW a \in Active, StartShard(a)
  PROVE  Seen'
<1> DEFINE s == Step(a, 1)
<1>1. a \in Act /\ Mode(a[1]) = "shard" /\ At(a, "called")
  BY DEF StartShard, IsShard, Active
<1>2. /\ a[1] \in Node /\ frame[a].st = "called"
      /\ DOMAIN frame = Act /\ DOMAIN frame[a] = Fields /\ \A b \in Act : DOMAIN frame[b] = Fields
  BY <1>1, Here
<1>3. Calls(a) \cap Active = {}
  BY <1>1, <1>2, InactiveCalls DEF Busy
<1>4. frame' = [frame EXCEPT ![a].st = "busy", ![a].at = 0, ![s] = Called]
  BY DEF StartShard
<1>5. s \in Calls(a) /\ s \in Act /\ s # a
  BY <1>1, ShardCalls
<1> HIDE DEF s
<1>6. frame'[a].st = "busy" /\ frame'[a].fc = frame[a].fc
  BY <1>1, <1>2, <1>4, <1>5 DEF Fields
<1>7. frame'[s].st = "called" /\ \A b \in Act \ {a, s} : frame'[b] = frame[b]
  BY <1>2, <1>4, <1>5, Records
<1>8. Growing({s})
  BY <1>3, <1>5, <1>6, <1>7 DEF Growing, Busy, Active
<1>9. QED
  BY <1>1, <1>6, <1>7, <1>8, CallsSeen

(* It calls the first handler with a clone, or has nothing to do.                *)
LEMMA PartitionedSeen ==
  ASSUME Shape, Stack, Seen, NEW a \in Active, Partitioned(a)
  PROVE  Seen' /\ Frames' /\ Stack'
<1> DEFINE s == Step(a, 1)
           h == HandlerOf(a, 1)
<1>1. a \in Act /\ Mode(a[1]) = "shard" /\ At(a, "busy") /\ frame[s].st = "ok" /\ frame[a].at = 0
      /\ UNCHANGED <<status, exec>>
  BY DEF Partitioned, IsShard, Active
<1>2. /\ a[1] \in Node /\ frame[a].st = "busy" /\ Alive(Dom[a])
      /\ DOMAIN frame = Act /\ DOMAIN frame[a] = Fields /\ \A b \in Act : DOMAIN frame[b] = Fields
  BY <1>1, Here
<1>3. Partitions(a) \in Nat /\ \A b \in Calls(a) : b \in Active => b = s
  BY <1>1, <1>2, ShardCalls DEF Stack, AtStep, Busy
<1>4. Calls(a) \cap Active = {}
  BY <1>1, <1>3 DEF Active
<1>5. CASE PutAgg(a, 0, 0)
  <2>1. Frames' /\ frame'[a].st = "ok" /\ Others({a})
    BY <1>1, <1>5, PutAggIs DEF Shape
  <2>2. Returned(a)
    BY <1>1, <1>2, <1>4, <2>1 DEF Returned
  <2>3. Stack'
    BY <2>2, ReturnedStack
  <2>4. Seen'
    BY <1>1, <1>5, PutSeen DEF PutAgg
  <2>5. QED
    BY <2>1, <2>3, <2>4
<1>6. CASE Partitions(a) # 0 /\ frame' = [frame EXCEPT ![a].at = 1, ![h] = CalledWith(Ctx(a))]
  <2>1. 1 \in 1..Partitions(a) /\ 1 \in 0..Partitions(a)
    BY <1>3, <1>6
  <2>2. h \in Calls(a) /\ h \in Act /\ h # a
    BY <1>1, <2>1, ShardCalls
  <2> HIDE DEF h, s
  <2>3. frame'[a].st = "busy" /\ frame'[a].at = 1 /\ frame'[a].fc = frame[a].fc
    BY <1>1, <1>2, <1>6, <2>2 DEF Fields
  <2>4. frame'[h].st = "called" /\ \A b \in Act \ {a, h} : frame'[b] = frame[b]
    BY <1>2, <1>6, <2>2, Records
  <2>5. Frames'
    BY <1>2, <1>6, <2>2, Records DEF Frames, Fields
  <2>6. {h} = {IF frame'[a].at = 0 THEN Step(a, 1) ELSE HandlerOf(a, frame'[a].at)}
    BY <2>3 DEF h
  <2>7. CallsNow(a, {h})
    BY <1>1, <1>2, <1>4, <2>1, <2>2, <2>3, <2>4, <2>6 DEF CallsNow, Others, Same, Released
  <2>8. Stack'
    BY <2>7, CallsNowStack
  <2>9. Growing({h})
    BY <1>4, <2>2, <2>3, <2>4 DEF Growing, Busy, Active
  <2>10. Seen'
    BY <1>1, <2>3, <2>4, <2>9, CallsSeen
  <2>11. QED
    BY <2>5, <2>8, <2>10
<1>7. QED
  BY <1>5, <1>6 DEF Partitioned

(* It leaves the clone of a handler that returned aside, and calls the next.     *)
LEMMA StepShardSeen ==
  ASSUME Shape, Stack, Seen, NEW a \in Active, StepShard(a)
  PROVE  Seen'
<1> DEFINE i == frame[a].at
           h == HandlerOf(a, i)
           g == HandlerOf(a, i + 1)
           P == Partitions(a)
<1>1. a \in Act /\ Mode(a[1]) = "shard" /\ At(a, "busy") /\ frame[h].st = "ok" /\ i > 0
  BY DEF StepShard, StepShardWith, IsShard, Active
<1>2. /\ a[1] \in Node /\ frame[a].st = "busy"
      /\ DOMAIN frame = Act /\ DOMAIN frame[a] = Fields /\ \A b \in Act : DOMAIN frame[b] = Fields
  BY <1>1, Here
<1>3. P \in Nat /\ i \in 0..P /\ \A b \in Calls(a) : b \in Active => b = IF i = 0 THEN Step(a, 1) ELSE h
  BY <1>1, <1>2, ShardCalls DEF Stack, AtStep, Busy
<1>4. i \in 1..P /\ i # 0
  BY <1>1, <1>3
<1>5. h \in Calls(a) /\ h \in Act /\ h # a /\ h[1] = Tree[a[1]].steps[2]
  BY <1>1, <1>4, ShardCalls DEF HandlerOf
<1>6. Calls(a) \cap Active = {}
  BY <1>1, <1>3, <1>4 DEF Active
<1>7. Handler(h[1])
  BY <1>1, <1>2, <1>5, ShardSteps
<1>8. CASE i = P
  <2>1. \E k, l : PutAgg(a, k, l)
    BY <1>8 DEF StepShard, StepShardWith
  <2>2. QED
    BY <1>1, <2>1, PutSeen DEF PutAgg
<1>9. CASE i # P
  <2>1. \E sum, skips : frame' = [frame EXCEPT ![a].at = i + 1, ![a].sum = sum, ![a].skips = skips,
                                        ![Own[a]].fc = Ctx(a), ![h] = Idle, ![g] = CalledWith(Ctx(a))]
    BY <1>9 DEF StepShard, StepShardWith
  <2>2. PICK sum, skips : frame' = [frame EXCEPT ![a].at = i + 1, ![a].sum = sum, ![a].skips = skips,
                                        ![Own[a]].fc = Ctx(a), ![h] = Idle, ![g] = CalledWith(Ctx(a))]
    BY <2>1
  <2>3. i + 1 \in 1..P
    BY <1>3, <1>4, <1>9
  <2>4. g \in Calls(a) /\ g \in Act /\ g # a
    BY <1>1, <2>3, ShardCalls
  <2> DEFINE j == i + 1
             ctx == Ctx(a)
             o == Own[a]
  <2>5. frame' = [frame EXCEPT ![a].at = j, ![a].sum = sum, ![a].skips = skips,
                               ![o].fc = ctx, ![h] = Idle, ![g] = CalledWith(ctx)]
    BY <2>2
  <2>6. o \in Act /\ o \notin {h, g} /\ ctx = frame[o].fc
    <3>1. AtOrBelow(a, o) /\ AtOrBelow(h, a) /\ AtOrBelow(g, a) /\ o \in Act
      BY <1>1, <1>5, <2>4, OwnFacts, CallFacts
    <3>2. o # h /\ o # g
      <4> HIDE DEF o, h, g
      <4>1. QED
        BY <1>1, <1>5, <2>4, <3>1, Antisymmetric
    <3>3. QED
      BY <3>1, <3>2 DEF Ctx
  <2> HIDE DEF h, g, j, ctx, o
  <2>7. frame'[a].st = "busy"
    BY <1>1, <1>2, <1>5, <2>4, <2>5, <2>6 DEF Fields
  <2>8. frame'[g].st = "called" /\ (h # g => frame'[h].st = "idle")
    BY <1>2, <1>5, <2>4, <2>5, Records
  <2>9. \A b \in Act \ {a, h, g} : frame'[b].st = frame[b].st /\ frame'[b].at = frame[b].at
    BY <1>2, <1>5, <2>4, <2>5, <2>6 DEF Fields
  <2>10. \A b \in Act \ {h, g} : frame'[b].fc = frame[b].fc
    BY <1>2, <1>5, <2>4, <2>5, <2>6 DEF Fields
  <2>11. Growing({h, g})
    BY <1>5, <1>6, <2>4, <2>8, <2>10 DEF Growing, Busy, Active
  <2>12. QED
    BY <1>1, <1>7, <2>7, <2>8, <2>9, <2>11, CallsSeen
<1>10. QED
  BY <1>8, <1>9

-------------------------------------------------------------------------------
(* What a step must keep: the shape of frames and executions, the stack, and     *)
(* what is in the FlowCtxs.                                                      *)
Held == Frames' /\ Execs' /\ Stack' /\ Seen'

(* The steps of a phase that leave the executions alone.                         *)
LEMMA EffectHeld ==
  ASSUME Shape, Stack, NEW a \in Act, Effect(a), Seen'
  PROVE  Held
<1>1. Frames' /\ UNCHANGED exec
  BY DEF Effect, Steady
<1>2. Execs'
  BY <1>1 DEF Shape, Execs
<1>3. QED
  BY <1>1, <1>2, EffectStack DEF Held

LEMMA SameFrames ==
  ASSUME Seen, UNCHANGED frame
  PROVE  Seen'
BY DEF Seen, SeenInOrder, SeenAtOnce, Busy, Ctx, Puts

LEMMA PhaseHeld ==
  ASSUME Shape, Stack, Seen, NEW a \in Active,
         \/ StartPipeline(a) \/ StepPipeline(a)
         \/ StartParallel(a) \/ \E b \in Subs(a) : JoinParallel(a, b)
         \/ StartShard(a) \/ Partitioned(a) \/ StepShard(a)
         \/ ScheduleActivity(a) \/ ChildReturns(a)
  PROVE  Held
<1>1. a \in Act /\ \A b \in Act : DOMAIN frame[b] = Fields /\ DOMAIN frame = Act
  BY DEF Active, Shape, Frames
<1>2. CASE StartPipeline(a) \/ StepPipeline(a)
  BY <1>1, <1>2, StartPipelineIs, StepPipelineIs, StartPipelineSeen, StepPipelineSeen, EffectHeld
<1>3. CASE StartParallel(a) \/ \E b \in Subs(a) : JoinParallel(a, b)
  BY <1>1, <1>3, StartParallelIs, JoinParallelIs, StartParallelSeen, JoinParallelSeen, EffectHeld
<1>4. CASE StartShard(a) \/ StepShard(a)
  BY <1>1, <1>4, StartShardIs, StepShardIs, StartShardSeen, StepShardSeen, EffectHeld
<1>5. CASE Partitioned(a)
  <2>1. UNCHANGED exec
    BY <1>5 DEF Partitioned
  <2>2. QED
    BY <1>5, <2>1, PartitionedSeen DEF Held, Shape, Execs
<1>6. CASE ScheduleActivity(a)
  <2>1. frame' = [frame EXCEPT ![a].st = "busy"] /\ Mode(a[1]) = "activity"
    BY <1>6 DEF ScheduleActivity
  <2>2. frame'[a].st = "busy" /\ (\A b \in Act : frame'[b].fc = frame[b].fc) /\ \A b \in Act \ {a} : frame'[b] = frame[b]
    BY <1>1, <2>1 DEF Fields
  <2> DEFINE R == {}
  <2>3. Growing(R)
    BY <2>2 DEF Growing
  <2>4. (\A b \in Act \ (R \cup {a}) : frame'[b].st = frame[b].st /\ frame'[b].at = frame[b].at)
        /\ \A r \in R : frame'[r].st = "called" \/ Handler(r[1])
    BY <2>2
  <2> HIDE DEF R
  <2>5. Seen'
    BY <1>1, <2>1, <2>2, <2>3, <2>4, CallsSeen
  <2>6. QED
    BY <1>1, <1>6, <2>5, ScheduleActivityIs, EffectHeld
<1>7. CASE ChildReturns(a)
  <2>1. Returns(a, ChildOut(a)) /\ Mode(a[1]) = "workflow"
    BY <1>7 DEF ChildReturns, Ended
  <2>2. Seen'
    BY <1>1, <2>1, ReturnsSeen
  <2>3. QED
    BY <1>1, <1>7, <2>2, ChildReturnsIs, EffectHeld
<1>8. QED
  BY <1>2, <1>3, <1>4, <1>5, <1>6, <1>7

LEMMA ActivityCompletesHeld ==
  ASSUME Shape, Stack, Seen, NEW t \in tasks, ActivityCompletes(t)
  PROVE  Held
<1>1. t.act \in Act /\ Effect(t.act) /\ Mode(t.act[1]) = "activity"
  BY ActivityCompletesIs DEF Shape, Tasks
<1>2. Seen'
  <2>1. CASE Awaited(t)
    BY <1>1, <2>1, ReturnsSeen DEF ActivityCompletes
  <2>2. CASE ~Awaited(t)
    BY <2>2, SameFrames DEF ActivityCompletes
  <2>3. QED
    BY <2>1, <2>2
<1>3. QED
  BY <1>1, <1>2, EffectHeld

-------------------------------------------------------------------------------
(* Executions: two children of one ID share theirs, and only the one that was    *)
(* started last is alive.                                                        *)
IsExecution(e, id) ==
  /\ DOMAIN e = {"status", "epoch", "act", "in"}
  /\ e.status # "absent" => /\ e.act \in Children /\ Id[e.act] = id
                            /\ e.epoch \in Seq(Nat) /\ e.epoch # <<>> /\ Last(e.epoch) > 0

LEMMA ExecutionChanges ==
  ASSUME Shape, NEW id \in ChildIds, NEW e, IsExecution(e, id), exec' = [exec EXCEPT ![id] = e],
         UNCHANGED status
  PROVE  /\ Execs' /\ exec'[id] = e
         /\ \A d : (d # Main => Id[d] # id) => (Alive(d)' <=> Alive(d))
<1>1. DOMAIN exec = ChildIds /\ \A i \in ChildIds : IsExecution(exec[i], i)
  BY DEF Shape, Execs, IsExecution
<1>2. exec'[id] = e /\ DOMAIN exec' = ChildIds /\ \A i \in ChildIds \ {id} : exec'[i] = exec[i]
  BY <1>1
<1>3. \A i \in ChildIds : IsExecution(exec'[i], i)
  BY <1>1, <1>2
<1>4. Execs'
  BY <1>2, <1>3 DEF Execs, IsExecution
<1>5. \A i : i # id => exec'[i] = exec[i]
  BY <1>1
<1>6. \A d : (d # Main => Id[d] # id) => (Alive(d)' <=> Alive(d))
  BY <1>5 DEF Alive, Running
<1>7. QED
  BY <1>2, <1>4, <1>6

(* A workflow closes, or starts over with T called; the others are left alone.    *)
LEMMA ClosedHeld ==
  ASSUME Shape, Stack, Seen, NEW d, NEW T,
         \A s \in T : /\ s \in Act /\ Dom[s] = d /\ Alive(d)' /\ frame'[s].st = "called"
                      /\ \A e \in Act : Dom[e] = d /\ AtOrBelow(s, e) => e = s,
         \A b \in Act \ T : IF Dom[b] = d THEN frame'[b].st = "idle" ELSE frame'[b] = frame[b],
         \A b \in Act : Dom[b] # d /\ Alive(Dom[b]) => Alive(Dom[b])'
  PROVE  Stack' /\ Seen'
<1>1. \A b \in Act : Dom[b] = d => frame'[b].st \in {"idle", "called"}
  OBVIOUS
<1>2. \A b \in Act : Dom[b] # d => frame'[b] = frame[b]
  OBVIOUS
<1>3. \A b \in Act : b \in Active' => b \in T \/ (b \in Active /\ Dom[b] # d)
  BY <1>2 DEF Active
<1>4. \A b \in Act : Busy(b)' => Busy(b) /\ frame'[b].at = frame[b].at
  BY <1>1, <1>2 DEF Busy
<1>5. \A b \in Act : Busy(b) => Busy(b)' \/ Dom[b] = d
  BY <1>2 DEF Busy
<1>6. Stack'
  BY <1>3, <1>4, <1>5, StackElsewhere
<1> DEFINE R == {b \in Act : Dom[b] = d}
<1>7. Growing(R)
  BY <1>1, <1>2 DEF Growing, Busy
<1>8. \A b \in Act : frame'[b].st = "ok" => frame[b].st = "ok"
  BY <1>1, <1>2
<1>9. ASSUME NEW a \in Act, Mode(a[1]) = "parallel", Busy(a)', NEW b \in Calls(a), frame[b].st # "idle", frame'[b].st = "idle"
      PROVE  FALSE
  <2>1. b \in Act /\ Dom[b] = Dom[a]
    BY <1>9, CallFacts, DomCalls DEF Flow
  <2>2. Dom[a] = d
    BY <1>2, <1>9, <2>1
  <2>3. QED
    BY <1>1, <1>9, <2>2 DEF Busy
<1> HIDE DEF R
<1>10. Seen'
  BY <1>4, <1>7, <1>8, <1>9, SeenKeeps
<1>11. QED
  BY <1>6, <1>10

(* An error closes the workflow that it is in.                                   *)
LEMMA FailsHeld ==
  ASSUME Shape, Stack, Seen, NEW d, d = Main \/ (d \in Children /\ Flow(d[1])), Alive(d), Fails(d)
  PROVE  Held
<1>1. DOMAIN frame = Act /\ (\A b \in Act : DOMAIN frame[b] = Fields) /\ Execs
  BY DEF Shape, Frames
<1>2. DOMAIN Closed(d) = Act /\ \A b \in Act : Closed(d)[b] = IF Dom[b] = d THEN Idle ELSE frame[b]
  BY DEF Closed
<1>3. \A b \in Act : DOMAIN Closed(d)[b] = Fields /\ (Dom[b] = d => Closed(d)[b].st = "idle")
  BY <1>1, <1>2, Records
<1>4. CASE d = Main
  <2>1. frame' = Closed(d) /\ UNCHANGED exec
    BY <1>4 DEF Fails
  <2>2. Frames' /\ Execs'
    BY <1>1, <1>2, <1>3, <2>1 DEF Frames, Execs
  <2>3. \A b \in Act : Dom[b] # d /\ Alive(Dom[b]) => Alive(Dom[b])'
    BY <1>4, <2>1 DEF Alive, Running
  <2> DEFINE T == {}
  <2>4. \A s \in T : /\ s \in Act /\ Dom[s] = d /\ Alive(d)' /\ frame'[s].st = "called"
                     /\ \A e \in Act : Dom[e] = d /\ AtOrBelow(s, e) => e = s
    OBVIOUS
  <2>5. \A b \in Act \ T : IF Dom[b] = d THEN frame'[b].st = "idle" ELSE frame'[b] = frame[b]
    BY <1>2, <1>3, <2>1
  <2> HIDE DEF T
  <2>6. Stack' /\ Seen'
    BY <2>3, <2>4, <2>5, ClosedHeld
  <2>7. QED
    BY <2>2, <2>6 DEF Held
<1>5. CASE d # Main
  <2>1. PICK e : e = exec[Id[d]]
    OBVIOUS
  <2>2. d \in Act /\ Mode(d[1]) = "workflow" /\ Flow(d[1]) /\ Id[d] \in ChildIds /\ d \in Children
    BY <1>5 DEF Children, ChildIds
  <2>3. e.status = "running" /\ e.act = d
    BY <1>5, <2>1 DEF Alive, Running
  <2>4. IsExecution(e, Id[d])
    BY <1>1, <2>1, <2>2 DEF Execs, IsExecution
  <2>5. \A b \in Act : Dom[b] # d /\ Dom[b] # Main /\ Alive(Dom[b]) => Id[Dom[b]] # Id[d]
    BY <2>1, <2>3 DEF Alive, Running
  <2>6. UNCHANGED status
    BY <1>5 DEF Fails
  <2>7. CASE ~Again(e)
    <3>1. PICK r : r = [e EXCEPT !.status = "failed"]
      OBVIOUS
    <3>2. exec' = [exec EXCEPT ![Id[d]] = r] /\ frame' = Closed(d)
      BY <1>5, <2>1, <2>7, <3>1 DEF Fails
    <3>3. IsExecution(r, Id[d])
      BY <2>3, <2>4, <3>1 DEF IsExecution
    <3>4. Execs' /\ \A b \in Act : Dom[b] # d /\ Alive(Dom[b]) => Alive(Dom[b])'
      BY <2>2, <2>5, <2>6, <3>2, <3>3, ExecutionChanges
    <3>5. Frames'
      BY <1>2, <1>3, <3>2 DEF Frames
    <3> DEFINE T == {}
    <3>6. \A s \in T : /\ s \in Act /\ Dom[s] = d /\ Alive(d)' /\ frame'[s].st = "called"
                       /\ \A b \in Act : Dom[b] = d /\ AtOrBelow(s, b) => b = s
      OBVIOUS
    <3>7. \A b \in Act \ T : IF Dom[b] = d THEN frame'[b].st = "idle" ELSE frame'[b] = frame[b]
      BY <1>2, <1>3, <3>2
    <3> HIDE DEF T
    <3>8. Stack' /\ Seen'
      BY <3>4, <3>6, <3>7, ClosedHeld
    <3>9. QED
      BY <3>4, <3>5, <3>8 DEF Held
  <2>8. CASE Again(e)
    <3>1. PICK k : k = Append(Front(e.epoch), Last(e.epoch) + 1)
      OBVIOUS
    <3>2. PICK r : r = [e EXCEPT !.epoch = k]
      OBVIOUS
    <3>3. PICK s : s = Step(d, 1)
      OBVIOUS
    <3>4. exec' = [exec EXCEPT ![Id[d]] = r] /\ frame' = [Closed(d) EXCEPT ![s] = CalledWith(e.in)]
      <4>1. exec' = [exec EXCEPT ![Id[d]] = [e EXCEPT !.epoch = Append(Front(@), Last(@) + 1)]]
            /\ frame' = [Closed(d) EXCEPT ![s] = CalledWith(e.in)]
        BY <1>5, <2>1, <2>8, <3>3 DEF Fails
      <4>2. [e EXCEPT !.epoch = Append(Front(@), Last(@) + 1)] = r
        BY <2>4, <3>1, <3>2 DEF IsExecution
      <4>3. QED
        BY <4>1, <4>2
    <3>5. k \in Seq(Nat) /\ k # <<>> /\ Last(k) > 0
      <4>1. \A q \in Seq(Nat) : q # <<>> =>
              /\ q[Len(q)] \in Nat /\ SubSeq(q, 1, Len(q) - 1) \in Seq(Nat)
        OBVIOUS
      <4>2. Front(e.epoch) \in Seq(Nat) /\ Last(e.epoch) \in Nat
        BY <2>3, <2>4, <4>1 DEF Front, Last, IsExecution
      <4>3. \A q \in Seq(Nat), m \in Nat :
              /\ Append(q, m + 1) \in Seq(Nat) /\ Append(q, m + 1) # <<>>
              /\ Append(q, m + 1)[Len(Append(q, m + 1))] > 0
        OBVIOUS
      <4>4. QED
        BY <3>1, <4>2, <4>3 DEF Last
    <3>6. IsExecution(r, Id[d]) /\ r.act = d /\ r.status = "running"
      BY <2>3, <2>4, <3>2, <3>5 DEF IsExecution
    <3>7. /\ Execs' /\ exec'[Id[d]] = r
          /\ \A b \in Act : Dom[b] # d /\ Alive(Dom[b]) => Alive(Dom[b])'
      BY <2>2, <2>5, <2>6, <3>4, <3>6, ExecutionChanges
    <3>8. Alive(d)'
      BY <1>5, <3>6, <3>7 DEF Alive, Running
    <3>9. s \in Act /\ Dom[s] = d /\ s \in Calls(d)
      BY <2>2, <3>3, FlowCalls
    <3>10. \A b \in Act : Dom[b] = d /\ AtOrBelow(s, b) => b = s
      BY <2>2, <3>9, TopOfFlow
    <3>11. frame'[s] = CalledWith(e.in) /\ DOMAIN frame' = Act /\ \A b \in Act \ {s} : frame'[b] = Closed(d)[b]
      BY <1>2, <3>4, <3>9
    <3>12. Frames'
      BY <1>3, <3>11, Records DEF Frames
    <3> DEFINE T == {s}
    <3>13. \A t \in T : /\ t \in Act /\ Dom[t] = d /\ Alive(d)' /\ frame'[t].st = "called"
                        /\ \A b \in Act : Dom[b] = d /\ AtOrBelow(t, b) => b = t
      BY <3>8, <3>9, <3>10, <3>11, Records
    <3>14. \A b \in Act \ T : IF Dom[b] = d THEN frame'[b].st = "idle" ELSE frame'[b] = frame[b]
      BY <1>2, <1>3, <3>11
    <3> HIDE DEF T
    <3>15. Stack' /\ Seen'
      BY <3>7, <3>13, <3>14, ClosedHeld
    <3>16. QED
      BY <3>7, <3>12, <3>15 DEF Held
  <2>9. QED
    BY <2>7, <2>8
<1>6. QED
  BY <1>4, <1>5

LEMMA AbandonedHeld ==
  ASSUME Shape, Stack, Seen, NEW a \in Active, Fails(Dom[a])
  PROVE  Held
<1>1. a \in Act /\ Alive(Dom[a])
  BY DEF Active, Stack, DeadIdle
<1>2. Dom[a] = Main \/ (Dom[a] \in Children /\ Flow(Dom[a][1]))
  BY <1>1, DomFacts
<1>3. QED
  BY <1>1, <1>2, FailsHeld

LEMMA ActivityFailsHeld ==
  ASSUME Shape, Stack, Seen, NEW t \in tasks, ActivityFails(t)
  PROVE  Held
<1>1. CASE Awaited(t)
  <2>1. t.act \in Active /\ Fails(Dom[t.act])
    BY <1>1 DEF Awaited, At, Active, ActivityFails, ActivityFailsWith, Shape, Tasks
  <2>2. QED
    BY <2>1, AbandonedHeld
<1>2. CASE ~Awaited(t)
  <2>1. UNCHANGED <<frame, status, exec>>
    BY <1>2 DEF ActivityFails, ActivityFailsWith
  <2>2. Frames' /\ Execs' /\ Stack' /\ Seen'
    BY <2>1, SameFrames DEF Shape, Frames, Execs, Stack, AtStep, CallersBusy, DeadIdle, Active, Alive, Running, Busy
  <2>3. QED
    BY <2>2 DEF Held
<1>3. QED
  BY <1>1, <1>2

(* A child is started, or skipped.                                               *)
LEMMA StartChildHeld ==
  ASSUME Shape, Stack, Seen, NEW a \in Active, StartChild(a)
  PROVE  Held
<1>1. a \in Act /\ Mode(a[1]) = "workflow" /\ At(a, "called") /\ a \in Children /\ Id[a] \in ChildIds
  BY DEF StartChild, StartChildUnder, Active, Children, ChildIds
<1>2. /\ a[1] \in Node /\ frame[a].st = "called" /\ Alive(Dom[a])
      /\ DOMAIN frame = Act /\ DOMAIN frame[a] = Fields /\ \A b \in Act : DOMAIN frame[b] = Fields
  BY <1>1, Here
<1>3. a # Main /\ Dom[a] # a
  <2>1. Dom[a] # Main => Dom[a][1] < a[1] /\ a[1] \in Nat
    BY <1>1, <1>2, DomFacts, NodeFacts
  <2>2. QED
    BY <1>1, <2>1, NotMain
<1>4. CASE exec[Id[a]].status \in {"running", "completed"}
  <2>1. Returns(a, Skipped) /\ UNCHANGED <<status, exec>>
    BY <1>4 DEF StartChild, StartChildUnder, SkipChild
  <2>2. Frames' /\ frame'[a].st = "ok" /\ Others({a})
    BY <1>1, <2>1, ReturnsIs DEF Shape
  <2>3. Execs'
    BY <2>1 DEF Shape, Execs
  <2>4. \A b \in Act : /\ b \in Active' => b \in Active /\ b # a
                       /\ Busy(b)' => Busy(b) /\ frame'[b].at = frame[b].at
                       /\ Busy(b) => Busy(b)'
    BY <1>2, <2>2 DEF Active, Busy, Others, Same, Released
  <2>5. \A b \in Active : Alive(Dom[b])'
    BY <2>1 DEF Stack, DeadIdle, Alive, Running
  <2> DEFINE T == {}
  <2>6. \A s \in T : s \in Act /\ \A e \in Act : Dom[e] = Dom[s] /\ AtOrBelow(s, e) => e = s
    OBVIOUS
  <2> HIDE DEF T
  <2>7. Stack'
    BY <2>4, <2>5, <2>6, StackOpens
  <2>8. Seen'
    BY <1>1, <2>1, ReturnsSeen
  <2>9. QED
    BY <2>2, <2>3, <2>7, <2>8 DEF Held
<1>5. CASE exec[Id[a]].status \notin {"running", "completed"}
  <2>1. PICK r : r = [status |-> "running", act |-> a, in |-> Ctx(a), epoch |-> Append(Epoch(Dom[a]), 1)]
    OBVIOUS
  <2>2. /\ exec' = [exec EXCEPT ![Id[a]] = r]
        /\ frame' = [b \in Act |-> IF b = a THEN [frame[a] EXCEPT !.st = "busy"]
                                   ELSE IF b \in Subs(a) THEN CalledWith(Ctx(a))
                                   ELSE frame[b]]
        /\ UNCHANGED status
    BY <1>5, <2>1 DEF StartChild, StartChildUnder
  <2>3. Subs(a) = Calls(a) /\ Calls(a) \subseteq Act \ {a} /\ \A c \in Calls(a) : Dom[c] = a /\ Flow(a[1])
    BY <1>1, FlowCalls, CallFacts, DomCalls
  <2>4. Append(Epoch(Dom[a]), 1) \in Seq(Nat) /\ Append(Epoch(Dom[a]), 1) # <<>> /\ Last(Append(Epoch(Dom[a]), 1)) > 0
    BY <1>1, <1>2, EpochFacts
  <2>5. IsExecution(r, Id[a]) /\ r.act = a /\ r.status = "running"
    BY <1>1, <2>1, <2>4 DEF IsExecution
  <2>6. \A b \in Act : Dom[b] # Main /\ Alive(Dom[b]) => Id[Dom[b]] # Id[a]
    BY <1>5 DEF Alive, Running
  <2>7. Execs' /\ exec'[Id[a]] = r /\ \A b \in Act : Alive(Dom[b]) => Alive(Dom[b])'
    BY <1>1, <2>2, <2>5, <2>6, ExecutionChanges
  <2>8. Alive(a)' /\ ~Alive(a)
    BY <1>3, <1>5, <2>5, <2>7 DEF Alive, Running
  <2>9. \A b \in Act : Dom[b] = a => b \notin Active
    BY <2>8 DEF Stack, DeadIdle
  <2>10. frame'[a].st = "busy" /\ frame'[a].fc = frame[a].fc
         /\ (\A c \in Calls(a) : frame'[c].st = "called")
         /\ \A b \in Act \ (Calls(a) \cup {a}) : frame'[b] = frame[b]
    BY <1>1, <1>2, <2>2, <2>3, Records DEF Fields
  <2>11. Frames'
    BY <1>1, <1>2, <2>2, <2>3, Records DEF Frames, Fields
  <2>12. Growing(Calls(a))
    BY <2>3, <2>9, <2>10 DEF Growing, Busy, Active
  <2>13. Seen'
    BY <1>1, <2>10, <2>12, CallsSeen
  <2>14. \A s \in Calls(a) : /\ s \in Act /\ Dom[s] = a /\ Alive(a)'
                             /\ \A e \in Act : Dom[e] = a /\ AtOrBelow(s, e) => e = s
    BY <1>1, <2>3, <2>8, TopOfFlow
  <2>15. \A b \in Act : b \in Active' => b \in Calls(a) \/ (b \in Active /\ Dom[b] # a)
    BY <1>2, <1>3, <2>9, <2>10 DEF Active
  <2>16. \A b \in Act : Busy(b)' => Mode(b[1]) = "workflow" \/ (Busy(b) /\ frame'[b].at = frame[b].at)
    BY <1>1, <2>10 DEF Busy
  <2>17. \A b \in Act : Busy(b) => Busy(b)' \/ Dom[b] = a
    BY <2>3, <2>10 DEF Busy
  <2>18. Stack'
    BY <2>7, <2>14, <2>15, <2>16, <2>17, StackElsewhere
  <2>19. QED
    BY <2>7, <2>11, <2>13, <2>18 DEF Held
<1>6. QED
  BY <1>4, <1>5

(* A child ends by itself, or is terminated.                                     *)
LEMMA ChildEndsHeld ==
  ASSUME Shape, Stack, Seen, NEW id \in ChildIds,
         ChildCompletes(id) \/ ChildFails(id) \/ FlowCompletes(id) \/ Terminate(id)
  PROVE  Held
<1>1. PICK st \in {"completed", "failed", "terminated"} : exec' = [exec EXCEPT ![id].status = st]
  BY DEF ChildCompletes, ChildFails, FlowCompletes, Terminate
<1>2. exec[id].status = "running" /\ UNCHANGED status
  BY DEF ChildCompletes, ChildFails, HandWritten, FlowCompletes, Terminate, Orphan
<1>3. PICK e, d : e = exec[id] /\ d = e.act
  OBVIOUS
<1>4. IsExecution(e, id) /\ DOMAIN exec = ChildIds
  BY <1>3 DEF Shape, Execs, IsExecution
<1>5. d \in Children /\ d \in Act /\ Mode(d[1]) = "workflow" /\ Id[d] = id /\ d # Main
  BY <1>2, <1>3, <1>4, NotMain DEF IsExecution, Children
<1>6. PICK r : r = [e EXCEPT !.status = st]
  OBVIOUS
<1>7. IsExecution(r, id) /\ exec' = [exec EXCEPT ![id] = r]
  BY <1>1, <1>3, <1>4, <1>2, <1>6 DEF IsExecution
<1>8. \A b \in Act : Dom[b] # d /\ Dom[b] # Main /\ Alive(Dom[b]) => Id[Dom[b]] # id
  BY <1>3 DEF Alive, Running
<1>9. Execs' /\ \A b \in Act : Dom[b] # d /\ Alive(Dom[b]) => Alive(Dom[b])'
  BY <1>2, <1>7, <1>8, ExecutionChanges
<1>10. DOMAIN frame = Act /\ \A b \in Act : DOMAIN frame[b] = Fields
  BY DEF Shape, Frames
<1> DEFINE T == {}
<1>11. \A s \in T : /\ s \in Act /\ Dom[s] = d /\ Alive(d)' /\ frame'[s].st = "called"
                    /\ \A b \in Act : Dom[b] = d /\ AtOrBelow(s, b) => b = s
  OBVIOUS
<1>12. CASE Terminate(id)
  <2>1. frame' = Closed(d)
    BY <1>3, <1>12 DEF Terminate
  <2>2. DOMAIN frame' = Act /\ \A b \in Act : frame'[b] = IF Dom[b] = d THEN Idle ELSE frame[b]
    BY <2>1 DEF Closed
  <2>3. Frames'
    BY <1>10, <2>2, Records DEF Frames
  <2>4. \A b \in Act \ T : IF Dom[b] = d THEN frame'[b].st = "idle" ELSE frame'[b] = frame[b]
    BY <2>2, Records
  <2> HIDE DEF T
  <2>5. Stack' /\ Seen'
    BY <1>9, <1>11, <2>4, ClosedHeld
  <2>6. QED
    BY <1>9, <2>3, <2>5 DEF Held
<1>13. CASE ~Terminate(id)
  <2>1. UNCHANGED frame
    BY <1>13 DEF ChildCompletes, ChildFails, FlowCompletes
  <2>2. ASSUME NEW a \in Active, Dom[a] = d PROVE FALSE
    <3>1. a \in Act /\ Flow(d[1])
      BY <1>5, <2>2, DomFacts DEF Active
    <3>2. frame[Step(d, 1)].st = "ok"
      BY <1>3, <1>13, <3>1 DEF ChildCompletes, ChildFails, HandWritten, FlowCompletes
    <3>3. PICK s \in Act : s = Step(d, 1) /\ Dom[s] = d /\ Calls(d) = {s}
      BY <1>5, <3>1, FlowCalls
    <3>4. AtOrBelow(a, d) /\ a # d
      BY <1>5, <2>2, <3>1, DomFacts
    <3>5. AtOrBelow(a, s)
      BY <1>5, <3>1, <3>3, <3>4, BelowSplit
    <3>6. a # s
      BY <3>2, <3>3 DEF Active
    <3>7. Busy(s)
      BY <2>2, <3>1, <3>3, <3>5, <3>6 DEF Stack, CallersBusy
    <3>8. QED
      BY <3>2, <3>3, <3>7 DEF Busy
  <2>3. Frames' /\ Seen'
    BY <2>1, SameFrames DEF Shape, Frames
  <2>4. \A b \in Act : b \in Active' => b \in T \/ (b \in Active /\ Dom[b] # d)
    BY <2>1, <2>2 DEF Active
  <2>5. \A b \in Act : (Busy(b)' <=> Busy(b)) /\ frame'[b].at = frame[b].at
    BY <2>1 DEF Busy
  <2> HIDE DEF T
  <2>6. Stack'
    BY <1>9, <1>11, <2>4, <2>5, StackElsewhere
  <2>7. QED
    BY <1>9, <2>3, <2>6 DEF Held
<1>14. QED
  BY <1>12, <1>13

(* A flow that is out of time fails while it runs.                               *)
LEMMA OutOfTime ==
  ASSUME NEW d \in Children, FlowTimesOut(d)
  PROVE  Flow(d[1]) /\ Alive(d) /\ Fails(d)
BY NotMain DEF FlowTimesOut, Alive, Children

(* The job completes, is aborted, or is started again.                           *)
LEMMA MainHeld ==
  ASSUME Shape, Stack, Seen, Complete \/ Abort \/ Rerun
  PROVE  Held
<1>1. Root \in Act /\ Dom[Root] = Main /\ DOMAIN frame = Act /\ \A b \in Act : DOMAIN frame[b] = Fields
  BY RootAct DEF Shape, Frames
<1>2. \A e \in Act : Dom[e] = Main /\ AtOrBelow(Root, e) => e = Root
  BY <1>1, AllBelowRoot, Antisymmetric
<1>3. CASE Abort
  BY <1>3, FailsHeld DEF Abort, Alive
<1>4. ASSUME Complete \/ Rerun PROVE Execs' /\ \A b \in Act : Dom[b] # Main /\ Alive(Dom[b]) => Alive(Dom[b])'
  <2>1. UNCHANGED exec
    BY <1>4 DEF Complete, Rerun
  <2>2. QED
    BY <2>1 DEF Shape, Execs, Alive, Running
<1>5. CASE Complete
  <2>1. UNCHANGED frame /\ frame[Root].st = "ok"
    BY <1>5 DEF Complete, At
  <2>2. ASSUME NEW b \in Active, Dom[b] = Main PROVE FALSE
    <3>1. b \in Act /\ AtOrBelow(b, Root) /\ b # Root
      BY <2>1, AllBelowRoot DEF Active
    <3>2. Busy(Root)
      BY <1>1, <2>2, <3>1 DEF Stack, CallersBusy
    <3>3. QED
      BY <2>1, <3>2 DEF Busy
  <2>3. Frames' /\ Seen'
    BY <2>1, SameFrames DEF Shape, Frames
  <2> DEFINE T == {}
  <2>4. \A b \in Act : b \in Active' => b \in T \/ (b \in Active /\ Dom[b] # Main)
    BY <2>1, <2>2 DEF Active
  <2>5. \A b \in Act : (Busy(b)' <=> Busy(b)) /\ frame'[b].at = frame[b].at
    BY <2>1 DEF Busy
  <2>6. \A s \in T : /\ s \in Act /\ Dom[s] = Main /\ Alive(Main)'
                     /\ \A e \in Act : Dom[e] = Main /\ AtOrBelow(s, e) => e = s
    OBVIOUS
  <2> HIDE DEF T
  <2>7. Stack'
    BY <1>4, <1>5, <2>4, <2>5, <2>6, StackElsewhere
  <2>8. QED
    BY <1>4, <1>5, <2>3, <2>7 DEF Held
<1>6. CASE Rerun
  <2>1. status = "failed" /\ status' = "running" /\ frame' = [frame EXCEPT ![Root] = Called]
    BY <1>6 DEF Rerun
  <2>2. \A b \in Act : Dom[b] = Main => b \notin Active
    BY <2>1 DEF Stack, DeadIdle, Alive
  <2>3. frame'[Root].st = "called" /\ \A b \in Act \ {Root} : frame'[b] = frame[b]
    BY <1>1, <2>1, Records
  <2>4. Frames'
    BY <1>1, <2>1, Records DEF Frames
  <2> DEFINE T == {Root}
  <2>5. \A s \in T : /\ s \in Act /\ Dom[s] = Main /\ Alive(Main)'
                     /\ \A e \in Act : Dom[e] = Main /\ AtOrBelow(s, e) => e = s
    BY <1>1, <1>2, <2>1 DEF Alive
  <2>6. \A b \in Act : b \in Active' => b \in T \/ (b \in Active /\ Dom[b] # Main)
    BY <2>2, <2>3 DEF Active
  <2>7. \A b \in Act : /\ Busy(b)' => Busy(b) /\ frame'[b].at = frame[b].at
                       /\ Busy(b) => Busy(b)' \/ Dom[b] = Main
    BY <1>1, <2>3 DEF Busy
  <2>8. Growing(T)
    BY <1>1, <2>2, <2>3 DEF Growing, Busy, Active
  <2>9. \A b \in Act : /\ frame'[b].st = "ok" => frame[b].st = "ok"
                       /\ frame'[b].st = "idle" => frame[b].st = "idle"
    BY <2>3
  <2> HIDE DEF T
  <2>10. Stack'
    BY <1>4, <1>6, <2>5, <2>6, <2>7, StackElsewhere
  <2>11. Seen'
    BY <2>7, <2>8, <2>9, CallFacts, SeenKeeps
  <2>12. QED
    BY <1>4, <1>6, <2>4, <2>10, <2>11 DEF Held
<1>7. QED
  BY <1>3, <1>5, <1>6

-------------------------------------------------------------------------------
(* The inductive invariant: whatever was put is where the next phase looks (Seen) *)
(* because a FlowCtx starts anew only when nothing below its owner is in progress *)
(* (Stack).                                                                      *)
Threaded == Shape /\ Stack /\ Seen

LEMMA InitThreaded == Init => Threaded
<1> SUFFICES ASSUME Init PROVE Threaded
  OBVIOUS
<1>1. Shape /\ Stack
  BY InitSound DEF Sound
<1>2. \A a \in Act : ~Busy(a)
  BY Records DEF Init, Busy
<1>3. QED
  BY <1>1, <1>2 DEF Threaded, Seen

LEMMA StepThreaded ==
  ASSUME Threaded, [Next]_vars
  PROVE  Threaded'
<1>1. Shape /\ Stack /\ Seen
  BY DEF Threaded
<1>2. Tasks' /\ run' \in Nat
  BY <1>1, TasksKeep
<1>3. ASSUME NEW a \in Active, Run(a) \/ ExtractFails(a) PROVE Held
  <2>1. CASE ChildErrs(a) \/ ExtractFails(a)
    BY <1>1, <2>1, AbandonedHeld DEF ChildErrs, ExtractFails
  <2>2. CASE StartChild(a)
    BY <1>1, <2>2, StartChildHeld
  <2>3. CASE ~(ChildErrs(a) \/ ExtractFails(a) \/ StartChild(a))
    BY <1>1, <1>3, <2>3, PhaseHeld DEF Run
  <2>4. QED
    BY <2>1, <2>2, <2>3
<1>4. ASSUME NEW t \in tasks, ActivityCompletes(t) \/ ActivityFails(t) PROVE Held
  BY <1>1, <1>4, ActivityCompletesHeld, ActivityFailsHeld
<1>5. ASSUME NEW id \in ChildIds, ChildCompletes(id) \/ ChildFails(id) \/ FlowCompletes(id) \/ Terminate(id)
      PROVE  Held
  BY <1>1, <1>5, ChildEndsHeld
<1>6. ASSUME Complete \/ Abort \/ Rerun PROVE Held
  BY <1>1, <1>6, MainHeld
<1>7. ASSUME UNCHANGED vars PROVE Held
  <2>1. UNCHANGED <<frame, status, exec, done>>
    BY <1>7 DEF vars
  <2>2. Frames' /\ Quiet
    BY <1>1, <2>1 DEF Shape, Frames, Quiet, Steady, Others, Same
  <2>3. Effect(Root)
    BY <2>2 DEF Effect, Quiet
  <2>4. Seen'
    BY <1>1, <2>1, SameFrames
  <2>5. QED
    BY <1>1, <2>3, <2>4, RootAct, EffectHeld
<1>8. ASSUME NEW d \in Children, FlowTimesOut(d) PROVE Held
  BY <1>1, <1>8, OutOfTime, FailsHeld
<1>9. Held
  BY <1>3, <1>4, <1>5, <1>6, <1>7, <1>8 DEF Next
<1>10. QED
  BY <1>2, <1>9 DEF Held, Threaded, Shape

(* A step of a pipeline finds the output of each step before it in its FlowCtx,  *)
(* through every clone and merge in between: UpstreamVisible, for every tree,    *)
(* client, number of runs and attempts, and whatever fails.                      *)
THEOREM UpstreamIsVisible == Spec => []UpstreamVisible
<1>1. Threaded => UpstreamVisible
  <2> SUFFICES ASSUME Threaded, NEW a \in Act, Mode(a[1]) = "pipeline", At(a, "busy"),
                      NEW j \in 1..(frame[a].at - 1)
               PROVE  PutNames[Tree[a[1]].steps[j]] \subseteq DOMAIN Ctx(a)
    BY DEF UpstreamVisible
  <2>1. Busy(a)
    BY DEF At, Busy
  <2>2. SeenInOrder(a) /\ frame[a].at \in Nat
    BY <2>1, Steps DEF Threaded, Seen, Stack, AtStep
  <2>3. j \in 1..frame[a].at /\ j # frame[a].at
    BY <2>2
  <2>4. Puts(Step(a, j)) \subseteq DOMAIN Ctx(a)
    BY <2>2, <2>3 DEF SeenInOrder
  <2>5. QED
    BY <2>4 DEF Puts, Step, Sub
<1>2. Threaded /\ [Next]_vars => Threaded'
  BY StepThreaded
<1>3. QED
  BY <1>1, <1>2, InitThreaded, PTL DEF Spec

-------------------------------------------------------------------------------
(* What may be in a FlowCtx, by the place of the phase that works with it.       *)

(* Phase m is below an earlier step of a pipeline that n is below a later one of. *)
Precedes(m, n) ==
  \E p \in Node : /\ Mode(p) = "pipeline"
                  /\ \E j, k \in 1..Len(Tree[p].steps) :
                       j < k /\ m \in Desc[Tree[p].steps[j]] /\ n \in Desc[Tree[p].steps[k]]
Before(n) == {m \in Node : Precedes(m, n)}
MayHold(n) == Before(n) \cup Desc[n]
NamesOf(S) == {Name(m) : m \in {x \in S : Mode(x) \notin {"pipeline", "parallel"}}}

(* The phases above a phase are above one another.                               *)
LEMMA AncestorsAreAChain ==
  ASSUME NEW x \in Node, NEW c \in Node, NEW e \in Node, x \in Desc[c], x \in Desc[e]
  PROVE  c \in Desc[e] \/ e \in Desc[c]
<1> DEFINE S == {k \in Node : \A u, v \in Node : k \in Desc[u] /\ k \in Desc[v] => u \in Desc[v] \/ v \in Desc[u]}
<1>1. 1 \in S
  <2> SUFFICES ASSUME NEW u \in Node, NEW v \in Node, 1 \in Desc[u], 1 \in Desc[v] PROVE u \in Desc[v]
    BY RootNode
  <2>1. u >= 1 /\ v >= 1 /\ 1 >= u /\ 1 >= v /\ u \in Nat /\ v \in Nat
    BY NodeFacts, DescNodes
  <2>2. QED
    BY <2>1
<1>2. ASSUME NEW k \in Node \ {1}, Parent[k] \in S PROVE k \in S
  <2> SUFFICES ASSUME NEW u \in Node, NEW v \in Node, k \in Desc[u], k \in Desc[v] PROVE u \in Desc[v] \/ v \in Desc[u]
    OBVIOUS
  <2>1. CASE k = u \/ k = v
    BY <2>1
  <2>2. CASE k # u /\ k # v
    BY <1>2, <2>2, DescParent
  <2>3. QED
    BY <2>1, <2>2
<1>3. Node \subseteq S
  <2> HIDE DEF S
  <2>1. QED
    BY <1>1, <1>2, FromTheRoot
<1>4. QED
  BY <1>3

(* Two phases that one phase calls have nothing below them in common.            *)
LEMMA KidsApart ==
  ASSUME NEW n \in Node, NEW c \in Kids(n), NEW e \in Kids(n), c # e
  PROVE  Desc[c] \cap Desc[e] = {}
<1>1. /\ c \in Node /\ e \in Node /\ c > n /\ e > n /\ Parent[c] = n /\ Parent[e] = n /\ n \in Nat
      /\ c \in Nat /\ e \in Nat
  BY KidFacts, KidParent, NodeFacts
<1>2. c \notin Desc[e] /\ e \notin Desc[c]
  <2>1. n \notin Desc[c] /\ n \notin Desc[e]
    BY <1>1, DescNodes
  <2>2. QED
    BY <1>1, <2>1, DescParent
<1>3. QED
  BY <1>1, <1>2, DescNodes, AncestorsAreAChain

(* Nor have two steps of one phase.                                            *)
LEMMA StepsApart ==
  ASSUME NEW n \in Node, NEW j \in 1..Len(Tree[n].steps), NEW k \in 1..Len(Tree[n].steps), j # k
  PROVE  Desc[Tree[n].steps[j]] \cap Desc[Tree[n].steps[k]] = {}
BY StepFacts, KidsApart

(* What comes before a phase is not below it.                                  *)
LEMMA NotWithin ==
  ASSUME NEW n \in Node
  PROVE  Before(n) \cap Desc[n] = {}
<1> SUFFICES ASSUME NEW m \in Node, Precedes(m, n), m \in Desc[n] PROVE FALSE
  BY DEF Before
<1>1. PICK p \in Node : /\ Mode(p) = "pipeline"
                        /\ \E j, k \in 1..Len(Tree[p].steps) :
                             j < k /\ m \in Desc[Tree[p].steps[j]] /\ n \in Desc[Tree[p].steps[k]]
  BY DEF Precedes
<1>2. PICK j \in 1..Len(Tree[p].steps), k \in 1..Len(Tree[p].steps) :
        j < k /\ m \in Desc[Tree[p].steps[j]] /\ n \in Desc[Tree[p].steps[k]]
  BY <1>1
<1>3. Tree[p].steps[k] \in Node /\ j # k
  BY <1>2, StepFacts, KidFacts, StepCalls
<1>4. m \in Desc[Tree[p].steps[k]]
  BY <1>2, <1>3, DescTrans
<1>5. QED
  BY <1>2, <1>3, <1>4, StepsApart

(* What comes before a phase comes before all that is below it.                *)
LEMMA BeforeBelow ==
  ASSUME NEW n \in Node, NEW m \in Desc[n]
  PROVE  Before(n) \subseteq Before(m)
<1> SUFFICES ASSUME NEW x \in Node, Precedes(x, n) PROVE Precedes(x, m)
  BY DEF Before
<1>1. PICK p \in Node : /\ Mode(p) = "pipeline"
                        /\ \E j, k \in 1..Len(Tree[p].steps) :
                             j < k /\ x \in Desc[Tree[p].steps[j]] /\ n \in Desc[Tree[p].steps[k]]
  BY DEF Precedes
<1>2. \A k \in 1..Len(Tree[p].steps) : n \in Desc[Tree[p].steps[k]] => m \in Desc[Tree[p].steps[k]]
  BY StepFacts, KidFacts, DescTrans
<1>3. QED
  BY <1>1, <1>2 DEF Precedes

(* What may be there when a phase returns may be there when one around it does.  *)
LEMMA MayHoldBelow ==
  ASSUME NEW n \in Node, NEW m \in Desc[n]
  PROVE  MayHold(m) \subseteq MayHold(n)
<1>1. m \in Node /\ Desc[m] \subseteq Desc[n]
  BY DescNodes, DescTrans
<1>2. ASSUME NEW x \in Node, Precedes(x, m) PROVE Precedes(x, n) \/ x \in Desc[n]
  <2>1. PICK p \in Node : /\ Mode(p) = "pipeline"
                          /\ \E j, k \in 1..Len(Tree[p].steps) :
                               j < k /\ x \in Desc[Tree[p].steps[j]] /\ m \in Desc[Tree[p].steps[k]]
    BY <1>2 DEF Precedes
  <2>2. PICK j \in 1..Len(Tree[p].steps), k \in 1..Len(Tree[p].steps) :
          j < k /\ x \in Desc[Tree[p].steps[j]] /\ m \in Desc[Tree[p].steps[k]]
    BY <2>1
  <2>3. PICK s : s = Tree[p].steps[k]
    OBVIOUS
  <2>4. s \in Kids(p) /\ s \in Node /\ Parent[s] = p /\ Tree[p].steps[j] \in Kids(p)
    BY <2>3, StepFacts, KidFacts, KidParent
  <2>5. CASE n \in Desc[s]
    BY <2>1, <2>2, <2>3, <2>5 DEF Precedes
  <2>6. CASE n \notin Desc[s]
    <3>1. s \in Desc[n] /\ s # n
      BY <1>1, <2>2, <2>3, <2>4, <2>6, AncestorsAreAChain, DescSelf
    <3>2. p \in Desc[n]
      BY <2>4, <3>1, DescParent
    <3>3. x \in Desc[p]
      BY <2>2, <2>4, DescSelf
    <3>4. QED
      BY <3>2, <3>3, DescTrans
  <2>7. QED
    BY <2>5, <2>6
<1>3. QED
  BY <1>1, <1>2 DEF MayHold, Before

(* What comes before a phase came before its caller, or is below an earlier step. *)
LEMMA BeforeCall ==
  ASSUME NEW n \in Node, NEW c \in Kids(n), NEW x \in Before(c)
  PROVE  \/ x \in Before(n)
         \/ /\ Mode(n) = "pipeline"
            /\ \E j, k \in 1..Len(Tree[n].steps) : j < k /\ c = Tree[n].steps[k] /\ x \in Desc[Tree[n].steps[j]]
<1>1. c \in Node /\ Parent[c] = n /\ x \in Node /\ Precedes(x, c)
  BY KidFacts, KidParent DEF Before
<1>2. PICK p \in Node : /\ Mode(p) = "pipeline"
                        /\ \E j, k \in 1..Len(Tree[p].steps) :
                             j < k /\ x \in Desc[Tree[p].steps[j]] /\ c \in Desc[Tree[p].steps[k]]
  BY <1>1 DEF Precedes
<1>3. PICK j \in 1..Len(Tree[p].steps), k \in 1..Len(Tree[p].steps) :
        j < k /\ x \in Desc[Tree[p].steps[j]] /\ c \in Desc[Tree[p].steps[k]]
  BY <1>2
<1>4. Tree[p].steps[k] \in Node /\ Parent[Tree[p].steps[k]] = p
  BY StepFacts, KidFacts, KidParent
<1>5. CASE c = Tree[p].steps[k]
  BY <1>1, <1>2, <1>3, <1>4, <1>5
<1>6. CASE c # Tree[p].steps[k]
  <2>1. n \in Desc[Tree[p].steps[k]]
    BY <1>1, <1>3, <1>4, <1>6, DescParent
  <2>2. QED
    BY <1>1, <1>2, <1>3, <2>1 DEF Precedes, Before
<1>7. QED
  BY <1>5, <1>6

(* All that a step of a pipeline may find comes before the next step.          *)
LEMMA MayHoldNextStep ==
  ASSUME NEW n \in Node, Mode(n) = "pipeline",
         NEW k \in 1..Len(Tree[n].steps), k + 1 \in 1..Len(Tree[n].steps)
  PROVE  MayHold(Tree[n].steps[k]) \subseteq Before(Tree[n].steps[k + 1])
<1> DEFINE s == Tree[n].steps[k]
           t == Tree[n].steps[k + 1]
<1>1. s \in Kids(n) /\ t \in Kids(n) /\ s \in Node /\ t \in Node /\ t \in Desc[t] /\ t \in Desc[n]
  BY StepFacts, KidFacts, DescSelf
<1>2. k < k + 1 /\ Len(Tree[n].steps) \in Nat
  BY NodeFacts
<1>3. \A x \in Node, j \in 1..Len(Tree[n].steps) : j < k + 1 /\ x \in Desc[Tree[n].steps[j]] => Precedes(x, t)
  BY <1>1 DEF Precedes
<1>4. \A x \in Desc[s] : x \in Before(t)
  BY <1>1, <1>2, <1>3, DescNodes DEF Before
<1>5. ASSUME NEW x \in Before(s) PROVE x \in Before(t)
  <2>1. x \in Node
    BY <1>5 DEF Before
  <2>2. CASE x \in Before(n)
    BY <1>1, <2>2, BeforeBelow
  <2>3. CASE x \notin Before(n)
    <3>1. PICK j \in 1..Len(Tree[n].steps), i \in 1..Len(Tree[n].steps) :
            j < i /\ s = Tree[n].steps[i] /\ x \in Desc[Tree[n].steps[j]]
      BY <1>1, <1>5, <2>3, BeforeCall
    <3>2. i = k
      BY <3>1, StepFacts
    <3>3. j < k + 1
      BY <1>2, <3>1, <3>2
    <3>4. QED
      BY <1>3, <2>1, <3>1, <3>3 DEF Before
  <2>4. QED
    BY <2>2, <2>3
<1>6. QED
  BY <1>4, <1>5 DEF MayHold

(* Of more phases, more names.                                                 *)
LEMMA NamesGrow == \A S, T : S \subseteq T => NamesOf(S) \subseteq NamesOf(T)
BY DEF NamesOf

(* Phases with names of their own are told apart by them.                      *)
LEMMA NamesApart ==
  ASSUME SafeTree, NEW S, S \subseteq Node, NEW T, T \subseteq Node, S \cap T = {}
  PROVE  NamesOf(S) \cap NamesOf(T) = {}
BY DEF SafeTree, NamesOf

(* A phase puts under the names of phases at or below it.                      *)
LEMMA PutsWithin ==
  ASSUME NEW n \in Node
  PROVE  PutNames[n] \subseteq NamesOf(Desc[n])
<1> DEFINE S == {k \in Node : PutNames[k] \subseteq NamesOf(Desc[k])}
<1>1. ASSUME NEW k \in Node, \A c \in Kids(k) : c \in S PROVE k \in S
  <2>1. CASE Mode(k) \in {"pipeline", "parallel"}
    <3>1. \A c \in Kids(k) : PutNames[c] \subseteq NamesOf(Desc[k])
      BY <1>1, DescSelf, NamesGrow
    <3>2. PutNames[k] = UNION {PutNames[c] : c \in Kids(k)}
      BY <2>1, PutNamesIs
    <3>3. QED
      BY <3>1, <3>2
  <2>2. CASE Mode(k) \notin {"pipeline", "parallel"}
    BY <2>2, PutNamesIs, DescSelf DEF NamesOf
  <2>3. QED
    BY <2>1, <2>2
<1>2. Node \subseteq S
  <2> HIDE DEF S
  <2>1. QED
    BY <1>1, FromTheLeaves
<1>3. QED
  BY <1>2

-------------------------------------------------------------------------------
(* Who shares a FlowCtx.                                                         *)

(* Between a phase and the owner of its FlowCtx all have that owner.           *)
LEMMA OwnNodeThrough ==
  ASSUME NEW n \in Node, NEW k \in Node, n \in Desc[k], k \in Desc[OwnNode[n]]
  PROVE  OwnNode[k] = OwnNode[n]
<1> DEFINE S == {m \in Node : \A i \in Node : m \in Desc[i] /\ i \in Desc[OwnNode[m]] => OwnNode[i] = OwnNode[m]}
<1>1. 1 \in S
  <2> SUFFICES ASSUME NEW i \in Node, 1 \in Desc[i] PROVE OwnNode[i] = OwnNode[1]
    BY RootNode
  <2>1. i = 1
    BY NodeFacts, DescNodes
  <2>2. QED
    BY <2>1
<1>2. ASSUME NEW m \in Node \ {1}, Parent[m] \in S PROVE m \in S
  <2> SUFFICES ASSUME NEW i \in Node, m \in Desc[i], i \in Desc[OwnNode[m]], i # m PROVE OwnNode[i] = OwnNode[m]
    OBVIOUS
  <2>1. Parent[m] \in Desc[i] /\ i < m /\ i \in Nat /\ m \in Nat
    BY DescParent, DescNodes, NodeFacts
  <2>2. ~Clone(m)
    <3>1. CASE Clone(m)
      <4>1. i \in Desc[m]
        BY <3>1, OwnNodeIs
      <4>2. i >= m
        BY <4>1, DescNodes
      <4>3. QED
        BY <2>1, <4>2
    <3>2. QED
      BY <3>1
  <2>3. OwnNode[m] = OwnNode[Parent[m]]
    BY <2>2, OwnNodeIs
  <2>4. QED
    BY <1>2, <2>1, <2>3
<1>3. Node \subseteq S
  <2> HIDE DEF S
  <2>1. QED
    BY <1>1, <1>2, FromTheRoot
<1>4. QED
  BY <1>3

(* Between a phase and the owner of its FlowCtx all share it.                    *)
LEMMA OwnThrough ==
  ASSUME NEW a \in Act, NEW c \in Act, AtOrBelow(a, c), AtOrBelow(c, Own[a])
  PROVE  Own[c] = Own[a]
<1>1. /\ a[1] \in Node /\ c[1] \in Node /\ Own[a] = Up(a, OwnNode[a[1]]) /\ Own[c] = Up(c, OwnNode[c[1]])
      /\ OwnNode[a[1]] \in Node /\ a[1] \in Desc[OwnNode[a[1]]]
  BY ActFacts, OwnIs, OwnNodeAbove
<1>2. Own[a][1] = OwnNode[a[1]]
  BY <1>1, UpAct
<1>3. a[1] \in Desc[c[1]] /\ c[1] \in Desc[OwnNode[a[1]]]
  BY <1>2 DEF AtOrBelow
<1>4. OwnNode[c[1]] = OwnNode[a[1]]
  BY <1>1, <1>3, OwnNodeThrough
<1>5. QED
  BY <1>1, <1>3, <1>4, UpUp

(* Every phase but the root has a caller.                                      *)
LEMMA Caller ==
  ASSUME NEW a \in Act, a[1] # 1
  PROVE  \E p \in Act : a \in Calls(p) /\ p[1] = Parent[a[1]]
<1>1. a[1] \in Node /\ Parent[a[1]] \in Node /\ a[1] \in Kids(Parent[a[1]]) /\ Parent[a[1]] < a[1]
      /\ a[1] \in Nat /\ Parent[a[1]] \in Nat
  BY ActFacts, ParentFacts, NodeFacts
<1>2. PICK p \in Act : p = Up(a, Parent[a[1]]) /\ AtOrBelow(a, p) /\ p[1] = Parent[a[1]]
  BY <1>1, DescSelf, UpAct
<1>3. p # a
  BY <1>1, <1>2
<1>4. PICK c \in Calls(p) : AtOrBelow(a, c)
  BY <1>2, <1>3, BelowSplit
<1>5. c \in Act /\ c[1] \in Node /\ Parent[c[1]] = p[1] /\ c[1] > p[1] /\ c[1] \in Nat
  BY <1>4, CallFacts, ActFacts, NodeFacts
<1>6. c[1] = a[1]
  <2>1. CASE c[1] # a[1]
    <3>1. Parent[a[1]] \in Desc[c[1]]
      BY <1>1, <1>4, <1>5, <2>1, DescParent DEF AtOrBelow
    <3>2. Parent[a[1]] >= c[1]
      BY <1>5, <3>1, DescNodes
    <3>3. QED
      BY <1>1, <1>2, <1>5, <3>2
  <2>2. QED
    BY <2>1
<1>7. QED
  BY <1>2, <1>4, <1>5, <1>6, BelowSameNode

(* Of the calls of a pipeline or a shard one is in progress.                     *)
LEMMA SoleCall ==
  ASSUME Stack, NEW p \in Act, Busy(p), Mode(p[1]) \in {"pipeline", "shard"},
         NEW x \in Calls(p), NEW c \in Calls(p), x \in Active, c \in Active
  PROVE  x = c
BY DEF Stack, AtStep

(* Phases in progress that share a FlowCtx are above one another.                *)
LEMMA Comparable ==
  ASSUME Stack, NEW a \in Active, NEW b \in Active, Own[a] = Own[b]
  PROVE  AtOrBelow(a, b) \/ AtOrBelow(b, a)
<1> DEFINE S == {k \in Node : \A x \in Active : x[1] = k /\ Own[x] = Own[b] => AtOrBelow(x, b) \/ AtOrBelow(b, x)}
<1>1. b \in Act /\ a \in Act
  BY DEF Active
<1>2. 1 \in S
  <2> SUFFICES ASSUME NEW x \in Active, x[1] = 1 PROVE AtOrBelow(b, x)
    BY RootNode
  <2>1. x \in Act /\ Root \in Act /\ Root[1] = 1
    BY RootAct DEF Active, Root
  <2>2. AtOrBelow(x, Root)
    BY <2>1, AllBelowRoot
  <2>3. x = Root
    BY <2>1, <2>2, BelowSameNode
  <2>4. QED
    BY <1>1, <2>3, AllBelowRoot
<1>3. ASSUME NEW k \in Node \ {1}, Parent[k] \in S PROVE k \in S
  <2> SUFFICES ASSUME NEW x \in Active, x[1] = k, Own[x] = Own[b] PROVE AtOrBelow(x, b) \/ AtOrBelow(b, x)
    OBVIOUS
  <2>1. x \in Act
    BY DEF Active
  <2>2. CASE Clone(k)
    <3>1. Own[x] = Up(x, k)
      BY <2>1, <2>2, OwnIs, OwnNodeIs
    <3>2. Own[x] = x
      BY <2>1, <3>1, UpIs, BelowSelf
    <3>3. QED
      BY <1>1, <3>2, OwnFacts
  <2>3. CASE ~Clone(k)
    <3>1. PICK p \in Act : x \in Calls(p) /\ p[1] = Parent[k]
      BY <2>1, Caller
    <3>2. OwnNode[k] = OwnNode[p[1]] /\ ~Flow(p[1]) /\ Mode(p[1]) # "parallel"
      BY <2>3, <3>1, OwnNodeIs DEF Clone
    <3>3. AtOrBelow(x, p) /\ x # p /\ Dom[x] = Dom[p]
      BY <3>1, <3>2, CallFacts, DomCalls
    <3>4. Busy(p) /\ p \in Active
      BY <2>1, <3>3 DEF Stack, CallersBusy, Busy, Active
    <3>5. Own[p] = Own[x]
      <4>1. p[1] \in Node /\ p[1] \in Desc[OwnNode[p[1]]] /\ OwnNode[p[1]] \in Node
        BY ActFacts, OwnNodeAbove
      <4>2. QED
        BY <2>1, <3>2, <3>3, <4>1, OwnIs, UpUp
    <3>6. AtOrBelow(p, b) \/ AtOrBelow(b, p)
      BY <1>3, <3>1, <3>4, <3>5
    <3>7. CASE AtOrBelow(p, b)
      BY <1>1, <2>1, <3>3, <3>7, BelowTrans
    <3>8. CASE AtOrBelow(b, p) /\ b # p
      <4>1. PICK c \in Calls(p) : AtOrBelow(b, c)
        BY <1>1, <3>8, BelowSplit
      <4>2. c \in Act /\ Dom[c] = Dom[p] /\ Dom[b] = Dom[p]
        BY <1>1, <2>1, <3>2, <3>3, <4>1, CallFacts, DomCalls, OwnFacts
      <4>3. c \in Active
        BY <1>1, <4>1, <4>2 DEF Stack, CallersBusy, Busy, Active
      <4>4. Mode(p[1]) \in {"pipeline", "shard"}
        BY <3>1, <3>2, ActFacts, NodeFacts, StepCalls DEF Modes
      <4>5. QED
        BY <3>1, <3>4, <4>1, <4>3, <4>4, SoleCall
    <3>9. QED
      BY <3>3, <3>6, <3>7, <3>8
  <2>4. QED
    BY <2>2, <2>3
<1>4. Node \subseteq S
  <2> HIDE DEF S
  <2>1. QED
    BY <1>2, <1>3, FromTheRoot
<1>5. QED
  BY <1>1, <1>4, ActFacts

-------------------------------------------------------------------------------
(* What a phase in progress finds in its FlowCtx at most: what comes before it,  *)
(* and what is below it as far as it has got.                                    *)
Limit(b) ==
  IF Busy(b) /\ Mode(b[1]) = "pipeline" THEN MayHold(Tree[b[1]].steps[frame[b].at])
  ELSE IF frame[b].st = "ok" \/ (Busy(b) /\ Mode(b[1]) = "parallel") THEN MayHold(b[1])
  ELSE Before(b[1])
Fits(b) == DOMAIN Ctx(b) \subseteq NamesOf(Limit(b))

(* A phase looks at its FlowCtx while it is in progress, and its caller, or who  *)
(* takes its output, at one of its own when it has returned.                     *)
Looks(b) == b \in Active \/ (frame[b].st = "ok" /\ Own[b] = b)
CtxsFit == \A b \in Act : Looks(b) => Fits(b)
InsFit ==
  \A id \in ChildIds : exec[id].status # "absent" => DOMAIN exec[id].in \subseteq NamesOf(Before(exec[id].act[1]))
Confined == CtxsFit /\ InsFit

(* The bound, state by state.                                                  *)
LEMMA LimitIs ==
  ASSUME NEW b \in Act
  PROVE  /\ frame[b].st = "called" => Limit(b) = Before(b[1])
         /\ frame[b].st = "ok" => Limit(b) = MayHold(b[1])
         /\ Busy(b) /\ Mode(b[1]) = "pipeline" => Limit(b) = MayHold(Tree[b[1]].steps[frame[b].at])
         /\ Busy(b) /\ Mode(b[1]) = "parallel" => Limit(b) = MayHold(b[1])
         /\ Busy(b) /\ Mode(b[1]) \notin {"pipeline", "parallel"} => Limit(b) = Before(b[1])
         /\ frame'[b].st = "called" => Limit(b)' = Before(b[1])
         /\ frame'[b].st = "ok" => Limit(b)' = MayHold(b[1])
         /\ frame'[b].st = "busy" /\ Mode(b[1]) = "pipeline" => Limit(b)' = MayHold(Tree[b[1]].steps[frame'[b].at])
         /\ frame'[b].st = "busy" /\ Mode(b[1]) = "parallel" => Limit(b)' = MayHold(b[1])
         /\ frame'[b].st = "busy" /\ Mode(b[1]) \notin {"pipeline", "parallel"} => Limit(b)' = Before(b[1])
         /\ Same(b) => Limit(b)' = Limit(b)
BY DEF Limit, Busy, Same

(* The bound after a step.                                                     *)
LEMMA FitsNext ==
  ASSUME NEW b \in Act
  PROVE  Fits(b)' <=> DOMAIN frame'[Own[b]].fc \subseteq NamesOf(Limit(b)')
BY DEF Fits, Ctx, NamesOf, Limit, Busy, Before, MayHold

(* The bound is never more than what comes before the phase and what is below it.*)
LEMMA LimitWithin ==
  ASSUME Stack, NEW a \in Act, Looks(a)
  PROVE  Limit(a) \subseteq MayHold(a[1]) /\ Before(a[1]) \subseteq MayHold(a[1])
<1>1. a[1] \in Node
  BY ActFacts
<1>2. CASE Busy(a) /\ Mode(a[1]) = "pipeline"
  <2>1. PICK k \in 1..Len(Tree[a[1]].steps) : k = frame[a].at
    BY <1>2 DEF Stack, AtStep
  <2>2. Tree[a[1]].steps[k] \in Desc[a[1]]
    BY <1>1, <2>1, StepFacts, DescSelf
  <2>3. Limit(a) = MayHold(Tree[a[1]].steps[k])
    BY <1>2, <2>1, LimitIs
  <2>4. QED
    BY <1>1, <2>2, <2>3, MayHoldBelow DEF MayHold
<1>3. CASE ~(Busy(a) /\ Mode(a[1]) = "pipeline")
  BY <1>3 DEF Limit, MayHold
<1>4. QED
  BY <1>2, <1>3

(* What fits a phase that puts fits those around it that share its FlowCtx.      *)
LEMMA FitsAbove ==
  ASSUME Stack, NEW a \in Active, NEW b \in Active, Own[a] = Own[b], a # b, AtOrBelow(a, b), ~Partitioner(a[1])
  PROVE  MayHold(a[1]) \subseteq Limit(b)
<1>1. a \in Act /\ b \in Act /\ Dom[a] = Dom[b] /\ a[1] \in Node /\ b[1] \in Node
  <2>1. a \in Act /\ b \in Act
    BY DEF Active
  <2>2. QED
    BY <2>1, OwnFacts, ActFacts
<1>2. Busy(b)
  BY <1>1 DEF Stack, CallersBusy
<1>3. PICK c \in Calls(b) : AtOrBelow(a, c)
  BY <1>1, BelowSplit
<1>4. c \in Act /\ AtOrBelow(c, b) /\ c # b /\ Parent[c[1]] = b[1] /\ c[1] \in Node
  BY <1>1, <1>3, CallFacts, ActFacts
<1>5. AtOrBelow(b, Own[b]) /\ Own[b] \in Act
  BY <1>1, OwnFacts
<1>6. Own[c] = Own[b]
  <2>1. AtOrBelow(c, Own[a])
    BY <1>1, <1>4, <1>5, BelowTrans
  <2>2. QED
    BY <1>1, <1>3, <1>4, <2>1, OwnThrough
<1>7. ~Clone(c[1])
  <2>1. CASE Clone(c[1])
    <3>1. Own[c] = c
      BY <1>4, <2>1, OwnIs, OwnNodeIs, UpIs, BelowSelf
    <3>2. AtOrBelow(b, c)
      BY <1>5, <1>6, <3>1
    <3>3. QED
      BY <1>1, <1>4, <3>2, Antisymmetric
  <2>2. QED
    BY <2>1
<1>8. ~Handler(c[1]) /\ Mode(b[1]) # "parallel" /\ ~Flow(b[1]) /\ c[1] # 1
  BY <1>4, <1>7 DEF Clone
<1>9. Dom[c] = Dom[b]
  BY <1>1, <1>3, <1>8, DomCalls
<1>10. c \in Active
  BY <1>1, <1>3, <1>4, <1>9 DEF Stack, CallersBusy, Busy, Active
<1>11. Mode(b[1]) = "pipeline"
  <2>1. Mode(b[1]) \in {"pipeline", "shard"}
    BY <1>1, <1>3, <1>8, NodeFacts, StepCalls DEF Modes
  <2>2. CASE Mode(b[1]) = "shard"
    <3>1. Partitioner(c[1])
      <4>1. c = Step(b, 1) \/ \E i \in 1..Partitions(b) : c = HandlerOf(b, i)
        BY <1>1, <1>3, <2>2, ShardCalls
      <4>2. \A i : HandlerOf(b, i)[1] = Tree[b[1]].steps[2]
        BY DEF HandlerOf
      <4>3. c = Step(b, 1)
        BY <1>1, <1>8, <2>2, <4>1, <4>2, ShardSteps
      <4>4. QED
        BY <1>1, <2>2, <4>3, ShardCalls
    <3>2. Leaf(c[1])
      BY <1>4, <3>1, PartitionersAreLeaves
    <3>3. a = c
      <4>1. CASE Flow(c[1])
        BY <1>1, <1>3, <1>4, <1>9, <4>1, ChildIsTip DEF Children, Flow
      <4>2. CASE ~Flow(c[1])
        BY <1>1, <1>3, <1>4, <3>2, <4>2, LeafBelow
      <4>3. QED
        BY <4>1, <4>2
    <3>4. QED
      BY <3>1, <3>3
  <2>3. QED
    BY <2>1, <2>2
<1>12. c = Step(b, frame[b].at)
  BY <1>1, <1>2, <1>3, <1>10, <1>11 DEF Stack, AtStep
<1>13. Limit(b) = MayHold(c[1])
  <2>1. c[1] = Tree[b[1]].steps[frame[b].at]
    BY <1>12 DEF Step, Sub
  <2>2. QED
    BY <1>1, <1>2, <1>11, <2>1, LimitIs
<1>14. QED
  BY <1>3, <1>4, <1>13, MayHoldBelow DEF AtOrBelow

(* A step that adds nothing to a FlowCtx but of those it makes for what it calls. *)
LEMMA ConfinedKeeps ==
  ASSUME Stack', CtxsFit, NEW R,
         \A r \in R : /\ r \in Act /\ Own[r] = r /\ frame'[r].st = "called"
                      /\ DOMAIN frame'[r].fc \subseteq NamesOf(Before(r[1])),
         \A b \in Act \ R : DOMAIN frame'[b].fc \subseteq DOMAIN frame[b].fc,
         \A b \in Act \ R : b \in Active' \/ (frame'[b].st = "ok" /\ Own[b] = b) => Same(b) \/ Fits(b)'
  PROVE  CtxsFit'
<1> SUFFICES ASSUME NEW b \in Act, b \in Active' \/ (frame'[b].st = "ok" /\ Own[b] = b) PROVE Fits(b)'
  BY DEF CtxsFit, Looks
<1>1. Own[b] \in Act /\ AtOrBelow(b, Own[b]) /\ Dom[Own[b]] = Dom[b]
  BY OwnFacts
<1>2. CASE b \in R
  BY <1>2, LimitIs, FitsNext
<1>3. CASE b \notin R /\ Same(b)
  <2>1. Own[b] \notin R
    <3>1. CASE Own[b] \in R
      <4>1. b \in Active' /\ Own[b] # b
        BY <1>3, <3>1
      <4>2. Busy(Own[b])'
        BY <1>1, <4>1 DEF Stack, CallersBusy
      <4>3. QED
        BY <3>1, <4>2 DEF Busy
    <3>2. QED
      BY <3>1
  <2>2. Looks(b)
    BY <1>3 DEF Looks, Active, Same
  <2>3. DOMAIN frame[Own[b]].fc \subseteq NamesOf(Limit(b))
    BY <2>2 DEF CtxsFit, Fits, Ctx
  <2>4. QED
    BY <1>1, <1>3, <2>1, <2>3, LimitIs, FitsNext
<1>4. QED
  BY <1>2, <1>3

(* A step of phase a that adds to its FlowCtx what a puts or merges.             *)
LEMMA ConfinedGrows ==
  ASSUME Stack, CtxsFit, NEW a \in Active, ~Partitioner(a[1]),
         \A b \in Active : AtOrBelow(b, a) /\ Own[b] = Own[a] => b = a,
         DOMAIN frame'[Own[a]].fc \subseteq DOMAIN Ctx(a) \cup NamesOf(MayHold(a[1])),
         \A b \in Act \ {Own[a]} : DOMAIN frame'[b].fc \subseteq DOMAIN frame[b].fc,
         \A b \in Act \ {a} : b \in Active' \/ frame'[b].st = "ok" => Same(b),
         frame'[a].st = "ok" \/ (frame'[a].st = "busy" /\ Mode(a[1]) = "parallel")
  PROVE  CtxsFit'
<1> SUFFICES ASSUME NEW b \in Act, b \in Active' \/ (frame'[b].st = "ok" /\ Own[b] = b) PROVE Fits(b)'
  BY DEF CtxsFit, Looks
<1>1. a \in Act /\ Looks(a) /\ Own[a] \in Act /\ AtOrBelow(a, Own[a]) /\ Dom[Own[a]] = Dom[a]
  <2>1. a \in Act
    BY DEF Active
  <2>2. QED
    BY <2>1, OwnFacts DEF Looks
<1>2. DOMAIN frame'[Own[a]].fc \subseteq NamesOf(MayHold(a[1]))
  <2>1. DOMAIN Ctx(a) \subseteq NamesOf(MayHold(a[1]))
    <3>1. DOMAIN Ctx(a) \subseteq NamesOf(Limit(a))
      BY <1>1 DEF CtxsFit, Fits
    <3>2. NamesOf(Limit(a)) \subseteq NamesOf(MayHold(a[1]))
      BY <1>1, LimitWithin, NamesGrow
    <3>3. QED
      BY <3>1, <3>2
  <2>2. QED
    BY <2>1
<1>3. CASE b = a
  BY <1>1, <1>2, <1>3, LimitIs, FitsNext
<1>4. CASE b # a
  <2>1. Same(b) /\ Looks(b)
    BY <1>4 DEF Looks, Active, Same
  <2>2. Limit(b)' = Limit(b) /\ DOMAIN Ctx(b) \subseteq NamesOf(Limit(b))
    BY <2>1, LimitIs DEF CtxsFit, Fits
  <2>3. CASE Own[b] # Own[a]
    BY <2>2, <2>3, OwnFacts, FitsNext DEF Ctx
  <2>4. CASE Own[b] = Own[a]
    <3>1. b \in Active
      <4>1. CASE frame[b].st = "ok" /\ Own[b] = b
        <5>1. Busy(b)
          BY <1>1, <1>4, <2>4, <4>1 DEF Stack, CallersBusy
        <5>2. QED
          BY <4>1, <5>1 DEF Busy
      <4>2. QED
        BY <2>1, <4>1 DEF Looks
    <3>2. AtOrBelow(a, b)
      BY <1>4, <2>4, <3>1, Comparable
    <3>3. NamesOf(MayHold(a[1])) \subseteq NamesOf(Limit(b))
      BY <1>4, <2>4, <3>1, <3>2, FitsAbove, NamesGrow
    <3>4. QED
      BY <1>2, <2>2, <2>4, <3>3, FitsNext
  <2>5. QED
    BY <2>3, <2>4
<1>5. QED
  BY <1>3, <1>4

-------------------------------------------------------------------------------
(* The steps of Phase.run and runShard.                                          *)
LEMMA BeforeCalls ==
  ASSUME NEW a \in Act, NEW c \in Calls(a)
  PROVE  Before(a[1]) \subseteq Before(c[1])
BY ActFacts, CallFacts, BeforeBelow DEF AtOrBelow

(* A frame starts with an empty FlowCtx, or with the one it is called with.    *)
LEMMA NoOutsEmpty == DOMAIN Called.fc = {} /\ DOMAIN Idle.fc = {} /\ \A ctx : CalledWith(ctx).fc = ctx
BY DEF Called, Idle, CalledWith, NoOuts

(* A phase that goes on or returns with the FlowCtx as it is; the phase it calls *)
(* shares it.                                                                    *)
LEMMA ConfinedCalls ==
  ASSUME Shape, Stack', CtxsFit, NEW a \in Act, NEW s \in Act, NEW L,
         \A b \in Act \ {a, s} : frame'[b] = frame[b],
         DOMAIN frame'[a].fc \subseteq DOMAIN frame[a].fc,
         s # a => frame'[s].st = "called" /\ DOMAIN frame'[s].fc = {} /\ Own[s] = Own[a] /\ L \subseteq Before(s[1]),
         DOMAIN Ctx(a) \subseteq NamesOf(L), L \subseteq Limit(a)'
  PROVE  CtxsFit'
<1> DEFINE R == {}
<1>1. \A r \in R : /\ r \in Act /\ Own[r] = r /\ frame'[r].st = "called"
                   /\ DOMAIN frame'[r].fc \subseteq NamesOf(Before(r[1]))
  OBVIOUS
<1>2. \A b \in Act \ R : DOMAIN frame'[b].fc \subseteq DOMAIN frame[b].fc
  OBVIOUS
<1>3. DOMAIN frame'[Own[a]].fc \subseteq NamesOf(L)
  BY <1>2, OwnFacts DEF Ctx
<1>4. Fits(a)'
  BY <1>3, FitsNext, NamesGrow
<1>5. s # a => Fits(s)'
  BY <1>3, FitsNext, NamesGrow, LimitIs
<1>6. \A b \in Act \ R : Same(b) \/ Fits(b)'
  BY <1>4, <1>5 DEF Same
<1> HIDE DEF R
<1>7. QED
  BY <1>1, <1>2, <1>6, ConfinedKeeps

(* The first step of a pipeline is called.                                     *)
LEMMA StartPipelineConfined ==
  ASSUME Shape, Stack, Stack', CtxsFit, NEW a \in Active, StartPipeline(a)
  PROVE  CtxsFit'
<1>1. a \in Act /\ Mode(a[1]) = "pipeline" /\ At(a, "called") /\ Looks(a)
  BY DEF StartPipeline, Active, Looks
<1>2. /\ a[1] \in Node /\ frame[a].st = "called"
      /\ DOMAIN frame = Act /\ DOMAIN frame[a] = Fields /\ \A b \in Act : DOMAIN frame[b] = Fields
  BY <1>1, Here
<1>3. DOMAIN Ctx(a) \subseteq NamesOf(Before(a[1])) /\ Before(a[1]) \subseteq MayHold(a[1])
  BY <1>1, <1>2, LimitIs DEF CtxsFit, Fits, MayHold
<1>4. CASE Kids(a[1]) = {}
  <2>1. frame' = [frame EXCEPT ![a].st = "ok"]
    BY <1>4 DEF StartPipeline
  <2>2. frame'[a].st = "ok" /\ frame'[a].fc = frame[a].fc /\ \A b \in Act \ {a} : frame'[b] = frame[b]
    BY <1>1, <1>2, <2>1 DEF Fields
  <2>3. Limit(a)' = MayHold(a[1])
    BY <1>1, <2>2, LimitIs
  <2>4. QED
    BY <1>1, <1>3, <2>2, <2>3, ConfinedCalls
<1>5. CASE Kids(a[1]) # {}
  <2> DEFINE s == Step(a, 1)
  <2>1. frame' = [frame EXCEPT ![a].st = "busy", ![a].at = 1, ![s] = Called]
    BY <1>5 DEF StartPipeline
  <2>2. s \in Calls(a) /\ s \in Act /\ s # a /\ s[1] = Tree[a[1]].steps[1]
    BY <1>1, <1>5, Steps DEF Step, Sub
  <2> HIDE DEF s
  <2>3. frame'[a].at = 1 /\ frame'[a].fc = frame[a].fc /\ frame'[a].st = "busy"
    BY <1>1, <1>2, <2>1, <2>2 DEF Fields
  <2>4. frame'[s] = Called /\ \A b \in Act \ {a, s} : frame'[b] = frame[b]
    BY <1>2, <2>1, <2>2
  <2>5. frame'[s].st = "called" /\ DOMAIN frame'[s].fc = {} /\ Own[s] = Own[a]
    BY <1>1, <2>2, <2>4, Records, NoOutsEmpty, OwnCalls
  <2>6. Limit(a)' = MayHold(s[1])
    BY <1>1, <2>2, <2>3, LimitIs
  <2>7. Before(a[1]) \subseteq Before(s[1]) /\ Before(a[1]) \subseteq Limit(a)'
    BY <1>1, <2>2, <2>6, BeforeCalls DEF MayHold
  <2>8. QED
    BY <1>1, <1>3, <2>2, <2>3, <2>4, <2>5, <2>7, ConfinedCalls
<1>6. QED
  BY <1>4, <1>5

(* The next step of a pipeline is called, or the pipeline returns.             *)
LEMMA StepPipelineConfined ==
  ASSUME Shape, Stack, Stack', CtxsFit, NEW a \in Active, StepPipeline(a)
  PROVE  CtxsFit'
<1> DEFINE N == Len(Tree[a[1]].steps)
           k == frame[a].at
           e == Tree[a[1]].steps[k]
<1>1. a \in Act /\ Mode(a[1]) = "pipeline" /\ At(a, "busy") /\ Looks(a)
  BY DEF StepPipeline, StepPipelineTo, Active, Looks
<1>2. /\ a[1] \in Node /\ frame[a].st = "busy"
      /\ DOMAIN frame = Act /\ DOMAIN frame[a] = Fields /\ \A b \in Act : DOMAIN frame[b] = Fields
  BY <1>1, Here
<1>3. k \in 1..N /\ N \in Nat
  BY <1>1, <1>2, Steps DEF Stack, AtStep, Busy
<1>4. DOMAIN Ctx(a) \subseteq NamesOf(MayHold(e))
  <2>1. Limit(a) = MayHold(e)
    BY <1>1, <1>2, LimitIs DEF Busy
  <2>2. QED
    BY <1>1, <2>1 DEF CtxsFit, Fits
<1>5. e \in Kids(a[1]) /\ e \in Node
  BY <1>2, <1>3, StepFacts, KidFacts
<1> HIDE DEF e
<1>6. CASE k + 1 > N
  <2>1. frame' = [frame EXCEPT ![a].st = "ok"]
    BY <1>6 DEF StepPipeline, StepPipelineTo
  <2>2. frame'[a].st = "ok" /\ frame'[a].fc = frame[a].fc /\ \A b \in Act \ {a} : frame'[b] = frame[b]
    BY <1>1, <1>2, <2>1 DEF Fields
  <2>3. Limit(a)' = MayHold(a[1])
    BY <1>1, <2>2, LimitIs
  <2>4. MayHold(e) \subseteq MayHold(a[1])
    BY <1>2, <1>5, DescSelf, MayHoldBelow
  <2>5. QED
    BY <1>1, <1>4, <2>2, <2>3, <2>4, ConfinedCalls
<1>7. CASE ~(k + 1 > N)
  <2> DEFINE s == Step(a, k + 1)
  <2>1. frame' = [frame EXCEPT ![a].at = k + 1, ![s] = Called]
    BY <1>7 DEF StepPipeline, StepPipelineTo
  <2>2. k + 1 \in 1..N
    BY <1>3, <1>7
  <2>3. s \in Calls(a) /\ s \in Act /\ s # a /\ s[1] = Tree[a[1]].steps[k + 1]
    BY <1>1, <2>2, Steps DEF Step, Sub
  <2>4. MayHold(e) \subseteq Before(s[1])
    BY <1>1, <1>2, <1>3, <2>2, <2>3, MayHoldNextStep DEF e
  <2> HIDE DEF s, k
  <2>5. frame'[a].at = k + 1 /\ frame'[a].fc = frame[a].fc /\ frame'[a].st = "busy"
    BY <1>1, <1>2, <2>1, <2>3 DEF Fields
  <2>6. frame'[s] = Called /\ \A b \in Act \ {a, s} : frame'[b] = frame[b]
    BY <1>2, <2>1, <2>3
  <2>7. frame'[s].st = "called" /\ DOMAIN frame'[s].fc = {} /\ Own[s] = Own[a]
    BY <1>1, <2>3, <2>6, Records, NoOutsEmpty, OwnCalls
  <2>8. Limit(a)' = MayHold(s[1])
    BY <1>1, <2>3, <2>5, LimitIs
  <2>9. MayHold(e) \subseteq Limit(a)'
    BY <2>4, <2>8 DEF MayHold
  <2>10. QED
    BY <1>1, <1>4, <2>3, <2>4, <2>5, <2>6, <2>7, <2>9, ConfinedCalls
<1>8. QED
  BY <1>6, <1>7

(* The partitioner is called.                                                  *)
LEMMA StartShardConfined ==
  ASSUME Shape, Stack, Stack', CtxsFit, NEW a \in Active, StartShard(a)
  PROVE  CtxsFit'
<1> DEFINE s == Step(a, 1)
<1>1. a \in Act /\ Mode(a[1]) = "shard" /\ At(a, "called") /\ Looks(a)
  BY DEF StartShard, IsShard, Active, Looks
<1>2. /\ a[1] \in Node /\ frame[a].st = "called"
      /\ DOMAIN frame = Act /\ DOMAIN frame[a] = Fields /\ \A b \in Act : DOMAIN frame[b] = Fields
  BY <1>1, Here
<1>3. DOMAIN Ctx(a) \subseteq NamesOf(Before(a[1]))
  BY <1>1, <1>2, LimitIs DEF CtxsFit, Fits
<1>4. frame' = [frame EXCEPT ![a].st = "busy", ![a].at = 0, ![s] = Called]
  BY DEF StartShard
<1>5. s \in Calls(a) /\ s \in Act /\ s # a /\ Own[s] = Own[a]
  <2>1. s \in Calls(a) /\ s \in Act /\ s # a /\ s[1] = Tree[a[1]].steps[1]
    BY <1>1, ShardCalls DEF Step, Sub
  <2>2. Parent[s[1]] = a[1] /\ s[1] \in Node \ {1} /\ AtOrBelow(s, a)
    BY <1>1, <2>1, CallFacts, ShardCalls
  <2>3. ~Clone(s[1])
    BY <1>1, <1>2, <2>1, <2>2, ShardSteps DEF Clone, Flow
  <2>4. OwnNode[s[1]] = OwnNode[a[1]]
    BY <2>2, <2>3, OwnNodeIs
  <2>5. OwnNode[a[1]] \in Node /\ a[1] \in Desc[OwnNode[a[1]]]
    BY <1>2, OwnNodeAbove
  <2> HIDE DEF s
  <2>6. QED
    BY <1>1, <2>1, <2>2, <2>4, <2>5, OwnIs, UpUp
<1> HIDE DEF s
<1>6. frame'[a].st = "busy" /\ frame'[a].fc = frame[a].fc
  BY <1>1, <1>2, <1>4, <1>5 DEF Fields
<1>7. frame'[s] = Called /\ \A b \in Act \ {a, s} : frame'[b] = frame[b]
  BY <1>2, <1>4, <1>5
<1>8. frame'[s].st = "called" /\ DOMAIN frame'[s].fc = {}
  BY <1>7, Records, NoOutsEmpty
<1>9. Limit(a)' = Before(a[1])
  BY <1>1, <1>6, LimitIs
<1>10. Before(a[1]) \subseteq Before(s[1])
  BY <1>1, <1>5, BeforeCalls
<1>11. QED
  BY <1>1, <1>3, <1>5, <1>6, <1>7, <1>8, <1>9, <1>10, ConfinedCalls

(* A phase calls others with a FlowCtx of their own.                             *)
LEMMA ConfinedClones ==
  ASSUME Shape, Stack', CtxsFit, NEW a \in Act, Looks(a), NEW C, C \subseteq Calls(a),
         \A c \in C : frame'[c] = CalledWith(Ctx(a)) /\ Own[c] = c,
         \A b \in Act \ C : DOMAIN frame'[b].fc \subseteq DOMAIN frame[b].fc,
         \A b \in Act \ (C \cup {a}) : b \in Active' \/ frame'[b].st = "ok" => Same(b),
         Limit(a) = Before(a[1]), Limit(a) \subseteq Limit(a)'
  PROVE  CtxsFit'
<1>1. DOMAIN Ctx(a) \subseteq NamesOf(Before(a[1]))
  BY DEF CtxsFit, Fits
<1>2. \A c \in C : c \in Act /\ c # a /\ Before(a[1]) \subseteq Before(c[1])
  BY CallFacts, BeforeCalls
<1>3. \A r \in C : /\ r \in Act /\ Own[r] = r /\ frame'[r].st = "called"
                   /\ DOMAIN frame'[r].fc \subseteq NamesOf(Before(r[1]))
  <2> SUFFICES ASSUME NEW r \in C
               PROVE  /\ r \in Act /\ Own[r] = r /\ frame'[r].st = "called"
                      /\ DOMAIN frame'[r].fc \subseteq NamesOf(Before(r[1]))
    OBVIOUS
  <2>1. frame'[r].st = "called" /\ frame'[r].fc = Ctx(a)
    BY Records, NoOutsEmpty
  <2>2. NamesOf(Before(a[1])) \subseteq NamesOf(Before(r[1]))
    BY <1>2, NamesGrow
  <2>3. QED
    BY <1>1, <1>2, <2>1, <2>2
<1>4. a \notin C
  BY <1>2
<1>5. Own[a] \notin C
  <2>1. ASSUME Own[a] \in C PROVE FALSE
    <3>1. Own[a] \in Calls(a) /\ AtOrBelow(a, Own[a])
      BY <2>1, OwnFacts
    <3>2. AtOrBelow(Own[a], a) /\ Own[a] # a /\ Own[a] \in Act
      BY <3>1, CallFacts
    <3>3. QED
      BY <3>1, <3>2, Antisymmetric
  <2>2. QED
    BY <2>1
<1>6. Fits(a)'
  <2>1. DOMAIN frame'[Own[a]].fc \subseteq DOMAIN Ctx(a)
    BY <1>5, OwnFacts DEF Ctx
  <2>2. NamesOf(Before(a[1])) \subseteq NamesOf(Limit(a)')
    BY NamesGrow
  <2>3. QED
    BY <1>1, <2>1, <2>2, FitsNext
<1>7. \A b \in Act \ C : b \in Active' \/ (frame'[b].st = "ok" /\ Own[b] = b) => Same(b) \/ Fits(b)'
  BY <1>6
<1>8. QED
  BY <1>3, <1>7, ConfinedKeeps

(* The branches are called.                                                    *)
LEMMA StartParallelConfined ==
  ASSUME Shape, Stack, Stack', CtxsFit, NEW a \in Active, StartParallel(a)
  PROVE  CtxsFit'
<1>1. a \in Act /\ Mode(a[1]) = "parallel" /\ At(a, "called") /\ Looks(a)
  BY DEF StartParallel, Active, Looks
<1>2. /\ a[1] \in Node /\ frame[a].st = "called"
      /\ DOMAIN frame = Act /\ DOMAIN frame[a] = Fields /\ \A b \in Act : DOMAIN frame[b] = Fields
  BY <1>1, Here
<1>3. Calls(a) = Subs(a) /\ Calls(a) \subseteq Act \ {a}
  BY <1>1, Steps
<1>4. frame' = [b \in Act |-> IF b \in Calls(a) THEN CalledWith(Ctx(a))
                             ELSE IF b # a THEN frame[b]
                             ELSE [frame[a] EXCEPT !.st = IF Calls(a) = {} THEN "ok" ELSE "busy"]]
  BY <1>3 DEF StartParallel
<1>5. /\ \A c \in Calls(a) : frame'[c] = CalledWith(Ctx(a))
      /\ \A b \in Act \ (Calls(a) \cup {a}) : frame'[b] = frame[b]
      /\ frame'[a] = [frame[a] EXCEPT !.st = IF Calls(a) = {} THEN "ok" ELSE "busy"]
  BY <1>1, <1>3, <1>4
<1>6. frame'[a].st \in {"ok", "busy"} /\ frame'[a].fc = frame[a].fc
  BY <1>2, <1>5 DEF Fields
<1>7. \A c \in Calls(a) : Own[c] = c
  BY <1>1, OwnCalls
<1>8. Limit(a) = Before(a[1]) /\ Limit(a)' = MayHold(a[1]) /\ Limit(a) \subseteq Limit(a)'
  BY <1>1, <1>2, <1>6, LimitIs DEF MayHold
<1>9. \A b \in Act \ Calls(a) : DOMAIN frame'[b].fc \subseteq DOMAIN frame[b].fc
  BY <1>5, <1>6
<1>10. \A b \in Act \ (Calls(a) \cup {a}) : Same(b)
  BY <1>5 DEF Same
<1>11. QED
  BY <1>1, <1>5, <1>7, <1>8, <1>9, <1>10, ConfinedClones

(* A leaf or a shard returns with its output in the FlowCtx.                     *)
LEMMA PutConfined ==
  ASSUME Shape, Stack, CtxsFit, NEW a \in Active, Mode(a[1]) \notin {"pipeline", "parallel"}, ~Partitioner(a[1]),
         \A b \in Active : AtOrBelow(b, a) /\ Own[b] = Own[a] => b = a,
         NEW v, frame' = [frame EXCEPT ![a].st = "ok", ![Own[a]].fc = Put(@, a[1], v)]
  PROVE  CtxsFit'
<1> DEFINE o == Own[a]
<1>1. DOMAIN frame = Act /\ \A b \in Act : DOMAIN frame[b] = Fields
  BY DEF Shape, Frames
<1>2. o \in Act /\ a[1] \in Node /\ a \in Act
  BY OwnFacts, ActFacts DEF Active
<1>3. frame' = [frame EXCEPT ![a].st = "ok", ![o].fc = Put(@, a[1], v)]
  OBVIOUS
<1> HIDE DEF o
<1>4. frame'[a].st = "ok" /\ frame'[o].fc = Put(frame[o].fc, a[1], v)
  BY <1>1, <1>2, <1>3 DEF Fields
<1>5. \A b \in Act \ {a} : frame'[b].st = frame[b].st /\ frame'[b].at = frame[b].at
  BY <1>1, <1>2, <1>3 DEF Fields
<1>6. \A b \in Act \ {o} : frame'[b].fc = frame[b].fc
  BY <1>1, <1>2, <1>3 DEF Fields
<1>7. DOMAIN frame'[o].fc = DOMAIN frame[o].fc \cup {Name(a[1])}
  BY <1>4 DEF Put, Over
<1>8. Name(a[1]) \in NamesOf(MayHold(a[1]))
  BY <1>2, DescSelf DEF NamesOf, MayHold
<1>9. DOMAIN frame'[Own[a]].fc \subseteq DOMAIN Ctx(a) \cup NamesOf(MayHold(a[1]))
  BY <1>7, <1>8 DEF Ctx, o
<1>10. \A b \in Act \ {Own[a]} : DOMAIN frame'[b].fc \subseteq DOMAIN frame[b].fc
  BY <1>6 DEF o
<1>11. \A b \in Act \ {a} : Same(b)
  BY <1>5 DEF Same
<1>12. QED
  BY <1>4, <1>9, <1>10, <1>11, ConfinedGrows

(* A leaf returns.                                                             *)
LEMMA ReturnsConfined ==
  ASSUME Shape, Stack, Stack', CtxsFit, NEW a \in Active, Leaf(a[1]), NEW v, Returns(a, v)
  PROVE  CtxsFit'
<1>1. a \in Act /\ DOMAIN frame = Act /\ \A b \in Act : DOMAIN frame[b] = Fields
  BY DEF Shape, Frames, Active
<1>2. Looks(a) /\ Mode(a[1]) \notin {"pipeline", "parallel"}
  BY DEF Looks, Leaf
<1>3. CASE Handler(a[1]) \/ Partitioner(a[1])
  <2>1. frame' = [frame EXCEPT ![a].st = "ok", ![a].val = v]
    BY <1>3 DEF Returns
  <2>2. frame'[a].st = "ok" /\ frame'[a].fc = frame[a].fc /\ \A b \in Act \ {a} : frame'[b] = frame[b]
    BY <1>1, <2>1 DEF Fields
  <2>3. Limit(a)' = MayHold(a[1]) /\ Limit(a) \subseteq MayHold(a[1]) /\ DOMAIN Ctx(a) \subseteq NamesOf(Limit(a))
    BY <1>1, <1>2, <2>2, LimitIs, LimitWithin DEF CtxsFit, Fits
  <2>4. QED
    BY <1>1, <2>2, <2>3, ConfinedCalls
<1>4. CASE ~(Handler(a[1]) \/ Partitioner(a[1]))
  <2>1. PICK w : frame' = [frame EXCEPT ![a].st = "ok", ![Own[a]].fc = Put(@, a[1], w)]
    BY <1>4 DEF Returns
  <2>2. ASSUME NEW b \in Active, AtOrBelow(b, a), Own[b] = Own[a] PROVE b = a
    <3>1. b \in Act /\ Dom[b] = Dom[a]
      BY <1>1, <2>2, OwnFacts DEF Active
    <3>2. CASE Flow(a[1])
      BY <1>1, <2>2, <3>1, <3>2, ChildIsTip DEF Children, Flow
    <3>3. CASE ~Flow(a[1])
      BY <1>1, <2>2, <3>1, <3>3, LeafBelow
    <3>4. QED
      BY <3>2, <3>3
  <2>3. QED
    BY <1>2, <1>4, <2>1, <2>2, PutConfined
<1>5. QED
  BY <1>3, <1>4

(* A parallel merges what a branch has put in its clone.                         *)
LEMMA JoinParallelConfined ==
  ASSUME Shape, Stack, Stack', CtxsFit, NEW a \in Active, NEW b \in Subs(a), JoinParallel(a, b)
  PROVE  CtxsFit'
<1> DEFINE last == \A c \in Subs(a) \ {b} : frame[c].st = "idle"
           o == Own[a]
<1>1. a \in Act /\ Mode(a[1]) = "parallel" /\ At(a, "busy") /\ frame[b].st = "ok"
  BY DEF JoinParallel, JoinThen, Active
<1>2. /\ a[1] \in Node /\ frame[a].st = "busy"
      /\ DOMAIN frame = Act /\ DOMAIN frame[a] = Fields /\ \A c \in Act : DOMAIN frame[c] = Fields
  BY <1>1, Here
<1>3. Calls(a) = Subs(a) /\ b \in Calls(a) /\ b \in Act /\ b # a /\ Own[b] = b /\ AtOrBelow(b, a)
  BY <1>1, Steps, OwnCalls, CallFacts
<1>4. frame' = [frame EXCEPT ![o].fc = Merge(@, frame[b].fc),
                            ![b] = Idle,
                            ![a].st = IF last THEN "ok" ELSE "busy"]
  BY DEF JoinParallel, JoinThen
<1>5. o \in Act /\ o # b /\ AtOrBelow(a, o)
  <2>1. AtOrBelow(a, o) /\ AtOrBelow(b, a) /\ o \in Act
    BY <1>1, <1>3, OwnFacts
  <2>2. QED
    BY <1>1, <1>3, <2>1, Antisymmetric
<1> HIDE DEF o, last
<1>6. \A c \in Act \ {o, a, b} : frame'[c] = frame[c]
  BY <1>2, <1>3, <1>4, <1>5
<1>7. frame'[b] = Idle
  BY <1>2, <1>3, <1>4, <1>5
<1>8. frame'[a].at = frame[a].at /\ frame'[a].st \in {"ok", "busy"} /\ (a # o => frame'[a].fc = frame[a].fc)
  BY <1>1, <1>2, <1>3, <1>4, <1>5 DEF Fields
<1>9. frame'[o].fc = Merge(frame[o].fc, frame[b].fc) /\ (o # a => frame'[o].st = frame[o].st /\ frame'[o].at = frame[o].at)
  BY <1>1, <1>2, <1>3, <1>4, <1>5 DEF Fields
<1>10. DOMAIN frame'[o].fc = DOMAIN frame[o].fc \cup DOMAIN frame[b].fc
  BY <1>9 DEF Merge, Over
<1>11. DOMAIN frame[b].fc \subseteq NamesOf(MayHold(a[1]))
  <2>1. Looks(b) /\ Limit(b) = MayHold(b[1])
    BY <1>1, <1>3, LimitIs DEF Looks
  <2>2. DOMAIN frame[b].fc \subseteq NamesOf(MayHold(b[1]))
    BY <1>3, <2>1 DEF CtxsFit, Fits, Ctx
  <2>3. MayHold(b[1]) \subseteq MayHold(a[1])
    BY <1>2, <1>3, MayHoldBelow DEF AtOrBelow
  <2>4. QED
    BY <2>2, <2>3, NamesGrow
<1>12. DOMAIN frame'[Own[a]].fc \subseteq DOMAIN Ctx(a) \cup NamesOf(MayHold(a[1]))
  BY <1>10, <1>11 DEF Ctx, o
<1>13. \A c \in Act \ {Own[a]} : DOMAIN frame'[c].fc \subseteq DOMAIN frame[c].fc
  BY <1>6, <1>7, <1>8, NoOutsEmpty DEF o
<1>14. \A c \in Act \ {a} : c \in Active' \/ frame'[c].st = "ok" => Same(c)
  BY <1>6, <1>7, <1>9, Records DEF Same, Active
<1>15. ASSUME NEW c \in Active, AtOrBelow(c, a), Own[c] = Own[a] PROVE c = a
  <2>1. CASE c # a
    <3>1. c \in Act
      BY DEF Active
    <3>2. PICK e \in Calls(a) : AtOrBelow(c, e)
      BY <1>1, <1>15, <2>1, <3>1, BelowSplit
    <3>3. e \in Act /\ e # a /\ AtOrBelow(e, a) /\ Own[e] = e
      BY <1>1, <3>2, CallFacts, OwnCalls
    <3>4. AtOrBelow(e, Own[c])
      BY <1>1, <1>5, <1>15, <3>3, BelowTrans DEF o
    <3>5. e = Own[a]
      BY <1>15, <3>1, <3>2, <3>3, <3>4, OwnThrough
    <3>6. AtOrBelow(a, e)
      BY <1>5, <3>5 DEF o
    <3>7. QED
      BY <1>1, <3>3, <3>6, Antisymmetric
  <2>2. QED
    BY <2>1
<1>16. ~Partitioner(a[1])
  BY <1>1, <1>2, PartitionersAreLeaves DEF Leaf
<1>17. QED
  BY <1>1, <1>8, <1>12, <1>13, <1>14, <1>15, <1>16, ConfinedGrows

(* Of what a shard calls only handlers are in progress when it puts.             *)
LEMMA PutAggConfined ==
  ASSUME Shape, Stack, CtxsFit, NEW a \in Active, Mode(a[1]) = "shard", Calls(a) \cap Active = {},
         NEW k, NEW s, PutAgg(a, k, s)
  PROVE  CtxsFit'
<1>1. a \in Act /\ a[1] \in Node
  BY ActFacts DEF Active
<1>2. ~Partitioner(a[1])
  BY <1>1, PartitionersAreLeaves DEF Leaf
<1>3. ASSUME NEW b \in Active, AtOrBelow(b, a), Own[b] = Own[a] PROVE b = a
  <2>1. Dom[b] = Dom[a]
    BY <1>1, <1>3, OwnFacts DEF Active
  <2>2. QED
    BY <1>1, <1>3, <2>1, NoneBelow DEF Stack
<1>4. QED
  BY <1>2, <1>3, PutConfined DEF PutAgg

(* A handler has a FlowCtx of its own.                                         *)
LEMMA HandlersOwn ==
  ASSUME NEW a \in Act, Mode(a[1]) = "shard", NEW i \in 1..Partitions(a)
  PROVE  Own[HandlerOf(a, i)] = HandlerOf(a, i)
<1> DEFINE h == HandlerOf(a, i)
<1>1. h \in Act /\ h[1] = Tree[a[1]].steps[2] /\ a[1] \in Node
  BY ShardCalls, ActFacts DEF HandlerOf
<1>2. Handler(h[1])
  BY <1>1, ShardSteps
<1> HIDE DEF h
<1>3. h[1] \in Node /\ OwnNode[h[1]] = h[1]
  BY <1>1, <1>2, ActFacts, OwnNodeIs DEF Clone
<1>4. Own[h] = h
  BY <1>1, <1>3, OwnIs, UpIs, BelowSelf
<1>5. QED
  BY <1>4 DEF h

(* The first handler is called, or an empty shard returns.                     *)
LEMMA PartitionedConfined ==
  ASSUME Shape, Stack, Stack', CtxsFit, NEW a \in Active, Partitioned(a)
  PROVE  CtxsFit'
<1> DEFINE s == Step(a, 1)
           h == HandlerOf(a, 1)
<1>1. a \in Act /\ Mode(a[1]) = "shard" /\ At(a, "busy") /\ frame[s].st = "ok" /\ frame[a].at = 0 /\ Looks(a)
  BY DEF Partitioned, IsShard, Active, Looks
<1>2. /\ a[1] \in Node /\ frame[a].st = "busy"
      /\ DOMAIN frame = Act /\ DOMAIN frame[a] = Fields /\ \A b \in Act : DOMAIN frame[b] = Fields
  BY <1>1, Here
<1>3. Partitions(a) \in Nat /\ \A b \in Calls(a) : b \in Active => b = s
  BY <1>1, <1>2, ShardCalls DEF Stack, AtStep, Busy
<1>4. Calls(a) \cap Active = {}
  BY <1>1, <1>3 DEF Active
<1>5. CASE PutAgg(a, 0, 0)
  BY <1>1, <1>4, <1>5, PutAggConfined
<1>6. CASE Partitions(a) # 0 /\ frame' = [frame EXCEPT ![a].at = 1, ![h] = CalledWith(Ctx(a))]
  <2>1. 1 \in 1..Partitions(a)
    BY <1>3, <1>6
  <2>2. h \in Calls(a) /\ h \in Act /\ h # a /\ Own[h] = h
    BY <1>1, <2>1, ShardCalls, HandlersOwn
  <2> HIDE DEF h
  <2>3. frame'[a].st = "busy" /\ frame'[a].fc = frame[a].fc
    BY <1>1, <1>2, <1>6, <2>2 DEF Fields
  <2>4. frame'[h] = CalledWith(Ctx(a)) /\ \A b \in Act \ {a, h} : frame'[b] = frame[b]
    BY <1>2, <1>6, <2>2
  <2>5. Limit(a) = Before(a[1]) /\ Limit(a) \subseteq Limit(a)'
    BY <1>1, <1>2, <2>3, LimitIs DEF Busy
  <2> DEFINE C == {h}
  <2>6. C \subseteq Calls(a) /\ \A c \in C : frame'[c] = CalledWith(Ctx(a)) /\ Own[c] = c
    BY <2>2, <2>4
  <2>7. (\A b \in Act \ C : DOMAIN frame'[b].fc \subseteq DOMAIN frame[b].fc) /\ \A b \in Act \ (C \cup {a}) : Same(b)
    BY <2>3, <2>4 DEF Same
  <2> HIDE DEF C
  <2>8. QED
    BY <1>1, <2>5, <2>6, <2>7, ConfinedClones
<1>7. QED
  BY <1>5, <1>6 DEF Partitioned

(* The next handler is called, or the shard returns.                           *)
LEMMA StepShardConfined ==
  ASSUME Shape, Stack, Stack', CtxsFit, NEW a \in Active, StepShard(a)
  PROVE  CtxsFit'
<1> DEFINE i == frame[a].at
           h == HandlerOf(a, i)
           g == HandlerOf(a, i + 1)
           P == Partitions(a)
<1>1. a \in Act /\ Mode(a[1]) = "shard" /\ At(a, "busy") /\ frame[h].st = "ok" /\ i > 0 /\ Looks(a)
  BY DEF StepShard, StepShardWith, IsShard, Active, Looks
<1>2. /\ a[1] \in Node /\ frame[a].st = "busy"
      /\ DOMAIN frame = Act /\ DOMAIN frame[a] = Fields /\ \A b \in Act : DOMAIN frame[b] = Fields
  BY <1>1, Here
<1>3. P \in Nat /\ i \in 0..P /\ \A b \in Calls(a) : b \in Active => b = IF i = 0 THEN Step(a, 1) ELSE h
  BY <1>1, <1>2, ShardCalls DEF Stack, AtStep, Busy
<1>4. i \in 1..P /\ i # 0
  BY <1>1, <1>3
<1>5. h \in Calls(a) /\ h \in Act /\ h # a
  BY <1>1, <1>4, ShardCalls
<1>6. Calls(a) \cap Active = {}
  BY <1>1, <1>3, <1>4 DEF Active
<1>7. CASE i = P
  <2>1. \E k, l : PutAgg(a, k, l)
    BY <1>7 DEF StepShard, StepShardWith
  <2>2. QED
    BY <1>1, <1>6, <2>1, PutAggConfined
<1>8. CASE i # P
  <2>1. PICK sum, skips : frame' = [frame EXCEPT ![a].at = i + 1, ![a].sum = sum, ![a].skips = skips,
                                        ![Own[a]].fc = Ctx(a), ![h] = Idle, ![g] = CalledWith(Ctx(a))]
    BY <1>8 DEF StepShard, StepShardWith
  <2>2. i + 1 \in 1..P
    BY <1>3, <1>4, <1>8
  <2>3. g \in Calls(a) /\ g \in Act /\ g # a /\ Own[g] = g /\ g # h
    <3>1. g \in Calls(a) /\ g \in Act /\ g # a /\ Own[g] = g
      BY <1>1, <2>2, ShardCalls, HandlersOwn
    <3>2. a[2] \in Seq(Nat) /\ i \in Nat
      BY <1>1, <1>4, ActFacts
    <3>3. Append(a[2], i) # Append(a[2], i + 1)
      <4>1. Append(a[2], i)[Len(a[2]) + 1] = i /\ Append(a[2], i + 1)[Len(a[2]) + 1] = i + 1 /\ i # i + 1
        BY <3>2
      <4>2. QED
        BY <4>1
    <3>4. g[2] # h[2]
      BY <3>3 DEF HandlerOf
    <3>5. QED
      BY <3>1, <3>4
  <2> DEFINE j == i + 1
             ctx == Ctx(a)
             o == Own[a]
  <2>4. frame' = [frame EXCEPT ![a].at = j, ![a].sum = sum, ![a].skips = skips,
                               ![o].fc = ctx, ![h] = Idle, ![g] = CalledWith(ctx)]
    BY <2>1
  <2>5. o \in Act /\ o \notin {h, g} /\ ctx = frame[o].fc
    <3>1. AtOrBelow(a, o) /\ AtOrBelow(h, a) /\ AtOrBelow(g, a) /\ o \in Act
      BY <1>1, <1>5, <2>3, OwnFacts, CallFacts
    <3>2. o # h /\ o # g
      <4> HIDE DEF o, h, g
      <4>1. QED
        BY <1>1, <1>5, <2>3, <3>1, Antisymmetric
    <3>3. QED
      BY <3>1, <3>2 DEF Ctx
  <2> HIDE DEF h, g, j, ctx, o
  <2>6. frame'[a].st = "busy"
    BY <1>1, <1>2, <1>5, <2>3, <2>4, <2>5 DEF Fields
  <2>7. frame'[g] = CalledWith(ctx) /\ frame'[h] = Idle
    BY <1>2, <1>5, <2>3, <2>4
  <2>8. \A b \in Act \ {a, h, g} : frame'[b].st = frame[b].st /\ frame'[b].at = frame[b].at
    BY <1>2, <1>5, <2>3, <2>4, <2>5 DEF Fields
  <2>9. \A b \in Act \ {h, g} : frame'[b].fc = frame[b].fc
    BY <1>2, <1>5, <2>3, <2>4, <2>5 DEF Fields
  <2>10. Limit(a) = Before(a[1]) /\ Limit(a) \subseteq Limit(a)'
    BY <1>1, <1>2, <2>6, LimitIs DEF Busy
  <2> DEFINE C == {g}
  <2>11. C \subseteq Calls(a) /\ \A c \in C : frame'[c] = CalledWith(Ctx(a)) /\ Own[c] = c
    BY <2>3, <2>7 DEF ctx
  <2>12. \A b \in Act \ C : DOMAIN frame'[b].fc \subseteq DOMAIN frame[b].fc
    BY <2>7, <2>9, NoOutsEmpty
  <2>13. \A b \in Act \ (C \cup {a}) : b \in Active' \/ frame'[b].st = "ok" => Same(b)
    BY <2>7, <2>8, Records DEF Same, Active
  <2> HIDE DEF C
  <2>14. QED
    BY <1>1, <2>10, <2>11, <2>12, <2>13, ConfinedClones
<1>9. QED
  BY <1>7, <1>8

-------------------------------------------------------------------------------
(* The steps of schedule, and of the workflows.                                *)

(* An activity is scheduled.                                                   *)
LEMMA ScheduleActivityConfined ==
  ASSUME Shape, Stack, Stack', CtxsFit, NEW a \in Active, ScheduleActivity(a)
  PROVE  CtxsFit'
<1>1. a \in Act /\ Mode(a[1]) = "activity" /\ At(a, "called") /\ Looks(a)
  BY DEF ScheduleActivity, Active, Looks
<1>2. /\ a[1] \in Node /\ frame[a].st = "called"
      /\ DOMAIN frame = Act /\ DOMAIN frame[a] = Fields /\ \A b \in Act : DOMAIN frame[b] = Fields
  BY <1>1, Here
<1>3. frame' = [frame EXCEPT ![a].st = "busy"]
  BY DEF ScheduleActivity
<1>4. frame'[a].st = "busy" /\ frame'[a].fc = frame[a].fc /\ \A b \in Act \ {a} : frame'[b] = frame[b]
  BY <1>1, <1>2, <1>3 DEF Fields
<1>5. Limit(a) = Before(a[1]) /\ Limit(a)' = Before(a[1]) /\ DOMAIN Ctx(a) \subseteq NamesOf(Limit(a))
  BY <1>1, <1>2, <1>4, LimitIs DEF CtxsFit, Fits
<1>6. QED
  BY <1>1, <1>4, <1>5, ConfinedCalls

(* A workflow closes, or starts over with T called.                              *)
LEMMA ClosedConfined ==
  ASSUME Stack', CtxsFit, NEW d, NEW T,
         \A s \in T : /\ s \in Act /\ Own[s] = s /\ frame'[s].st = "called"
                      /\ DOMAIN frame'[s].fc \subseteq NamesOf(Before(s[1])),
         \A b \in Act \ T : frame'[b] = IF Dom[b] = d THEN Idle ELSE frame[b]
  PROVE  CtxsFit'
<1>1. \A b \in Act \ T : DOMAIN frame'[b].fc \subseteq DOMAIN frame[b].fc
  BY NoOutsEmpty
<1>2. \A b \in Act \ T : b \in Active' \/ (frame'[b].st = "ok" /\ Own[b] = b) => Same(b)
  BY Records DEF Active, Same
<1>3. QED
  BY <1>1, <1>2, ConfinedKeeps

(* An execution keeps the FlowCtx that it was started with.                      *)
LEMMA InsKeep ==
  ASSUME Shape, InsFit, NEW id \in ChildIds, NEW r, exec' = [exec EXCEPT ![id] = r],
         DOMAIN r.in \subseteq NamesOf(Before(r.act[1]))
  PROVE  InsFit'
<1>1. exec'[id] = r /\ \A i \in ChildIds \ {id} : exec'[i] = exec[i]
  BY DEF Shape, Execs
<1> SUFFICES ASSUME NEW i \in ChildIds, exec'[i].status # "absent"
             PROVE  DOMAIN exec'[i].in \subseteq NamesOf(Before(exec'[i].act[1]))
  BY DEF InsFit, NamesOf, Before
<1>2. CASE i = id
  BY <1>1, <1>2
<1>3. CASE i # id
  BY <1>1, <1>3 DEF InsFit
<1>4. QED
  BY <1>2, <1>3

(* A step that starts, ends and retries nothing leaves that as it is.          *)
LEMMA SameIns == InsFit /\ UNCHANGED exec => InsFit'
BY DEF InsFit, NamesOf, Before

(* So does one that changes the status or the epoch of an execution.           *)
LEMMA StatusOnly ==
  ASSUME Shape, InsFit, NEW id \in ChildIds, exec[id].status # "absent", NEW r, exec' = [exec EXCEPT ![id] = r],
         r.in = exec[id].in, r.act = exec[id].act
  PROVE  InsFit'
BY InsKeep DEF InsFit

(* The phase of a flow has a FlowCtx of its own.                                 *)
LEMMA FlowTopOwns ==
  ASSUME NEW d \in Act, Flow(d[1]), NEW s \in Calls(d)
  PROVE  Own[s] = s
<1>1. s \in Act /\ s[1] \in Node /\ Parent[s[1]] = d[1]
  BY CallFacts, ActFacts
<1>2. s[1] # 1
  BY ActFacts, CallFacts, NodeFacts
<1>3. OwnNode[s[1]] = s[1]
  BY <1>1, <1>2, OwnNodeIs DEF Clone
<1>4. QED
  BY <1>1, <1>3, OwnIs, UpIs, BelowSelf

(* A workflow fails, or is retried with the FlowCtx it was started with.       *)
LEMMA FailsConfined ==
  ASSUME Shape, Stack', CtxsFit, InsFit, NEW d, d = Main \/ (d \in Children /\ Flow(d[1])), Alive(d), Fails(d)
  PROVE  CtxsFit' /\ InsFit'
<1>1. DOMAIN frame = Act /\ Execs
  BY DEF Shape, Frames
<1>2. DOMAIN Closed(d) = Act /\ \A b \in Act : Closed(d)[b] = IF Dom[b] = d THEN Idle ELSE frame[b]
  BY DEF Closed
<1> DEFINE T0 == {}
<1>3. ASSUME frame' = Closed(d) PROVE CtxsFit'
  <2>1. \A s \in T0 : /\ s \in Act /\ Own[s] = s /\ frame'[s].st = "called"
                      /\ DOMAIN frame'[s].fc \subseteq NamesOf(Before(s[1]))
    OBVIOUS
  <2>2. \A b \in Act \ T0 : frame'[b] = IF Dom[b] = d THEN Idle ELSE frame[b]
    BY <1>2, <1>3
  <2> HIDE DEF T0
  <2>3. QED
    BY <2>1, <2>2, ClosedConfined
<1>4. CASE d = Main
  BY <1>3, <1>4, SameIns DEF Fails
<1>5. CASE d # Main
  <2>1. PICK e : e = exec[Id[d]]
    OBVIOUS
  <2>2. d \in Act /\ Mode(d[1]) = "workflow" /\ Flow(d[1]) /\ Id[d] \in ChildIds /\ d \in Children
    BY <1>5 DEF Children, ChildIds
  <2>3. e.status = "running" /\ e.act = d
    BY <1>5, <2>1 DEF Alive, Running
  <2>4. DOMAIN e = {"status", "epoch", "act", "in"}
    BY <1>1, <2>1, <2>2 DEF Execs
  <2>5. PICK r : r = (IF Again(e) THEN [e EXCEPT !.epoch = Append(Front(@), Last(@) + 1)]
                      ELSE [e EXCEPT !.status = "failed"])
    OBVIOUS
  <2>6. exec' = [exec EXCEPT ![Id[d]] = r]
    BY <1>5, <2>1, <2>5 DEF Fails
  <2>7. r.in = e.in /\ r.act = e.act
    BY <2>4, <2>5
  <2>8. InsFit'
    BY <2>1, <2>2, <2>3, <2>6, <2>7, StatusOnly
  <2>9. CASE ~Again(e)
    BY <1>3, <1>5, <2>1, <2>8, <2>9 DEF Fails
  <2>10. CASE Again(e)
    <3>1. PICK s : s = Step(d, 1)
      OBVIOUS
    <3>2. frame' = [Closed(d) EXCEPT ![s] = CalledWith(e.in)]
      BY <1>5, <2>1, <2>10, <3>1 DEF Fails
    <3>3. s \in Act /\ s \in Calls(d) /\ Own[s] = s
      BY <2>2, <3>1, FlowCalls, FlowTopOwns
    <3>4. frame'[s] = CalledWith(e.in) /\ \A b \in Act \ {s} : frame'[b] = Closed(d)[b]
      BY <1>2, <3>2, <3>3
    <3>5. frame'[s].st = "called" /\ frame'[s].fc = e.in
      BY <3>4, Records, NoOutsEmpty
    <3>6. DOMAIN e.in \subseteq NamesOf(Before(d[1]))
      BY <2>1, <2>2, <2>3 DEF InsFit
    <3>7. DOMAIN e.in \subseteq NamesOf(Before(s[1]))
      BY <2>2, <3>3, <3>6, BeforeCalls, NamesGrow
    <3> DEFINE T == {s}
    <3>8. \A t \in T : /\ t \in Act /\ Own[t] = t /\ frame'[t].st = "called"
                       /\ DOMAIN frame'[t].fc \subseteq NamesOf(Before(t[1]))
      BY <3>3, <3>5, <3>7
    <3>9. \A b \in Act \ T : frame'[b] = IF Dom[b] = d THEN Idle ELSE frame[b]
      BY <1>2, <3>4
    <3> HIDE DEF T
    <3>10. QED
      BY <2>8, <3>8, <3>9, ClosedConfined
  <2>11. QED
    BY <2>9, <2>10
<1>6. QED
  BY <1>4, <1>5

(* A child is started, or skipped.                                             *)
LEMMA StartChildConfined ==
  ASSUME Shape, Stack, Stack', CtxsFit, InsFit, NEW a \in Active, StartChild(a)
  PROVE  CtxsFit' /\ InsFit'
<1>1. a \in Act /\ Mode(a[1]) = "workflow" /\ At(a, "called") /\ Looks(a) /\ Id[a] \in ChildIds
  BY DEF StartChild, StartChildUnder, Active, Children, ChildIds, Looks
<1>2. /\ a[1] \in Node /\ frame[a].st = "called"
      /\ DOMAIN frame = Act /\ DOMAIN frame[a] = Fields /\ \A b \in Act : DOMAIN frame[b] = Fields
  BY <1>1, Here
<1>3. CASE exec[Id[a]].status \in {"running", "completed"}
  <2>1. Returns(a, Skipped) /\ UNCHANGED <<status, exec>>
    BY <1>3 DEF StartChild, StartChildUnder, SkipChild
  <2>2. QED
    BY <1>1, <2>1, ReturnsConfined, SameIns DEF Leaf
<1>4. CASE exec[Id[a]].status \notin {"running", "completed"}
  <2>1. PICK r : r = [status |-> "running", act |-> a, in |-> Ctx(a), epoch |-> Append(Epoch(Dom[a]), 1)]
    OBVIOUS
  <2>2. /\ exec' = [exec EXCEPT ![Id[a]] = r]
        /\ frame' = [b \in Act |-> IF b = a THEN [frame[a] EXCEPT !.st = "busy"]
                                   ELSE IF b \in Subs(a) THEN CalledWith(Ctx(a))
                                   ELSE frame[b]]
    BY <1>4, <2>1 DEF StartChild, StartChildUnder
  <2>3. Subs(a) = Calls(a) /\ Calls(a) \subseteq Act \ {a} /\ \A c \in Calls(a) : Own[c] = c
    BY <1>1, FlowCalls, FlowTopOwns, CallFacts
  <2>4. /\ frame'[a].st = "busy" /\ frame'[a].fc = frame[a].fc
        /\ \A c \in Calls(a) : frame'[c] = CalledWith(Ctx(a))
        /\ \A b \in Act \ (Calls(a) \cup {a}) : frame'[b] = frame[b]
    BY <1>1, <1>2, <2>2, <2>3 DEF Fields
  <2>5. Limit(a) = Before(a[1]) /\ Limit(a) \subseteq Limit(a)' /\ DOMAIN Ctx(a) \subseteq NamesOf(Limit(a))
    BY <1>1, <1>2, <2>4, LimitIs DEF CtxsFit, Fits
  <2>6. InsFit'
    <3>1. r.in = Ctx(a) /\ r.act = a
      BY <2>1
    <3>2. QED
      BY <1>1, <2>2, <2>5, <3>1, InsKeep
  <2>7. (\A b \in Act \ Calls(a) : DOMAIN frame'[b].fc \subseteq DOMAIN frame[b].fc)
        /\ \A b \in Act \ (Calls(a) \cup {a}) : Same(b)
    BY <2>4 DEF Same
  <2>8. CtxsFit'
    BY <1>1, <2>3, <2>4, <2>5, <2>7, ConfinedClones
  <2>9. QED
    BY <2>6, <2>8
<1>5. QED
  BY <1>3, <1>4

(* A child ends by itself, or is terminated.                                   *)
LEMMA ChildEndsConfined ==
  ASSUME Shape, Stack', CtxsFit, InsFit, NEW id \in ChildIds,
         ChildCompletes(id) \/ ChildFails(id) \/ FlowCompletes(id) \/ Terminate(id)
  PROVE  CtxsFit' /\ InsFit'
<1>1. PICK st \in {"completed", "failed", "terminated"} : exec' = [exec EXCEPT ![id].status = st]
  BY DEF ChildCompletes, ChildFails, FlowCompletes, Terminate
<1>2. exec[id].status = "running"
  BY DEF ChildCompletes, ChildFails, HandWritten, FlowCompletes, Terminate, Orphan
<1>3. PICK e, r : e = exec[id] /\ r = [e EXCEPT !.status = st]
  OBVIOUS
<1>4. DOMAIN exec = ChildIds /\ DOMAIN e = {"status", "epoch", "act", "in"}
  BY <1>3 DEF Shape, Execs
<1>5. exec' = [exec EXCEPT ![id] = r] /\ r.in = e.in /\ r.act = e.act
  BY <1>1, <1>3, <1>4
<1>6. InsFit'
  BY <1>2, <1>3, <1>5, StatusOnly
<1> DEFINE T == {}
<1>7. \A s \in T : /\ s \in Act /\ Own[s] = s /\ frame'[s].st = "called"
                   /\ DOMAIN frame'[s].fc \subseteq NamesOf(Before(s[1]))
  OBVIOUS
<1>8. \E d : \A b \in Act \ T : frame'[b] = IF Dom[b] = d THEN Idle ELSE frame[b]
  <2>1. CASE Terminate(id)
    BY <2>1 DEF Terminate, Closed
  <2>2. CASE ~Terminate(id)
    <3>1. UNCHANGED frame
      BY <2>2 DEF ChildCompletes, ChildFails, FlowCompletes
    <3>2. PICK d : \A b \in Act : Dom[b] # d
      <4>1. PICK d : d \notin {Dom[b] : b \in Act}
        BY NoSetContainsEverything
      <4>2. QED
        BY <4>1
    <3>3. QED
      BY <3>1, <3>2
  <2>3. QED
    BY <2>1, <2>2
<1> HIDE DEF T
<1>9. CtxsFit'
  BY <1>7, <1>8, ClosedConfined
<1>10. QED
  BY <1>6, <1>9

(* The job completes, is aborted, or is started again.                         *)
LEMMA MainConfined ==
  ASSUME Shape, Stack', CtxsFit, InsFit, Complete \/ Abort \/ Rerun
  PROVE  CtxsFit' /\ InsFit'
<1>1. CASE Complete
  BY <1>1, SameIns DEF Complete, CtxsFit, Looks, Fits, Ctx, Active, Limit, NamesOf, MayHold, Before, Busy
<1>2. CASE Abort
  BY <1>2, FailsConfined DEF Abort, Alive
<1>3. CASE Rerun
  <2>1. frame' = [frame EXCEPT ![Root] = Called] /\ UNCHANGED exec
    BY <1>3 DEF Rerun
  <2>2. Root \in Act /\ Root[1] = 1 /\ DOMAIN frame = Act
    BY RootAct DEF Root, Shape, Frames
  <2>3. Own[Root] = Root
    BY <2>2, OwnIs, OwnNodeIs, UpIs, BelowSelf
  <2>4. frame'[Root] = Called /\ \A b \in Act \ {Root} : frame'[b] = frame[b]
    BY <2>1, <2>2
  <2> DEFINE T == {Root}
  <2>5. \A s \in T : /\ s \in Act /\ Own[s] = s /\ frame'[s].st = "called"
                     /\ DOMAIN frame'[s].fc \subseteq NamesOf(Before(s[1]))
    BY <2>2, <2>3, <2>4, Records, NoOutsEmpty
  <2>6. (\A b \in Act \ T : DOMAIN frame'[b].fc \subseteq DOMAIN frame[b].fc) /\ \A b \in Act \ T : Same(b)
    BY <2>4 DEF Same
  <2> HIDE DEF T
  <2>7. QED
    BY <2>1, <2>5, <2>6, ConfinedKeeps, SameIns
<1>4. QED
  BY <1>1, <1>2, <1>3

-------------------------------------------------------------------------------
(* Every frame is in one of the four states.                                     *)
Standing == \A b \in Act : frame[b].st \in {"idle", "called", "busy", "ok"}

(* A step of a phase leaves them so,                                           *)
LEMMA EffectStanding ==
  ASSUME Standing, NEW a \in Act, Effect(a)
  PROVE  Standing'
<1>1. CASE Returned(a) \/ Quiet
  BY <1>1 DEF Returned, Quiet, Others, Same, Released, Standing
<1>2. CASE \E C : CallsNow(a, C)
  <2>1. PICK C : CallsNow(a, C)
    BY <1>2
  <2>2. (\A c \in C : frame'[c].st = "called") /\ frame'[a].st = "busy"
        /\ \A b \in Act \ (C \cup {a}) : Same(b) \/ Released(b)
    BY <2>1 DEF CallsNow, Others
  <2>3. QED
    BY <2>2 DEF Same, Released, Standing
<1>3. QED
  BY <1>1, <1>2 DEF Effect

(* the end of a workflow does,                                                 *)
LEMMA FailsStanding ==
  ASSUME Shape, Standing, NEW d, d = Main \/ (d \in Children /\ Flow(d[1])), Fails(d)
  PROVE  Standing'
<1>1. \A b \in Act : Closed(d)[b].st \in {"idle", "called", "busy", "ok"}
  BY Records DEF Closed, Standing
<1>2. CASE frame' = Closed(d)
  BY <1>1, <1>2 DEF Standing
<1>3. CASE d # Main /\ \E e : frame' = [Closed(d) EXCEPT ![Step(d, 1)] = CalledWith(e.in)]
  <2>1. PICK e, s : frame' = [Closed(d) EXCEPT ![s] = CalledWith(e.in)] /\ s = Step(d, 1)
    BY <1>3
  <2>2. s \in Act
    BY <1>3, <2>1, FlowCalls DEF Children
  <2>3. \A b \in Act : frame'[b] = IF b = s THEN CalledWith(e.in) ELSE Closed(d)[b]
    BY <2>1, <2>2 DEF Closed
  <2>4. QED
    BY <1>1, <2>3, Records DEF Standing
<1>4. QED
  BY <1>2, <1>3 DEF Fails

(* the end of a partitioner does,                                              *)
LEMMA PartitionedStanding ==
  ASSUME Shape, Standing, NEW a \in Act, Partitioned(a)
  PROVE  Standing'
<1>1. DOMAIN frame = Act /\ (\A b \in Act : DOMAIN frame[b] = Fields) /\ Mode(a[1]) = "shard"
  BY DEF Shape, Frames, Partitioned, IsShard
<1>2. CASE PutAgg(a, 0, 0)
  <2>1. PICK o, fc : frame' = [frame EXCEPT ![a].st = "ok", ![o].fc = fc]
    BY <1>2 DEF PutAgg
  <2>2. \A b \in Act : frame'[b].st = IF b = a THEN "ok" ELSE frame[b].st
    BY <1>1, <2>1 DEF Fields
  <2>3. QED
    BY <2>2 DEF Standing
<1>3. CASE ~PutAgg(a, 0, 0)
  <2>1. PICK h, ctx : frame' = [frame EXCEPT ![a].at = 1, ![h] = CalledWith(ctx)]
    BY <1>3 DEF Partitioned
  <2>2. \A b \in Act : frame'[b].st \in {frame[b].st, "called"}
    BY <1>1, <2>1, Records DEF Fields
  <2>3. QED
    BY <2>2 DEF Standing
<1>4. QED
  BY <1>2, <1>3

(* and the start of a child.                                                   *)
LEMMA StartChildStanding ==
  ASSUME Shape, Standing, NEW a \in Act, StartChild(a)
  PROVE  Standing'
<1>1. DOMAIN frame = Act /\ (\A b \in Act : DOMAIN frame[b] = Fields)
  BY DEF Shape, Frames
<1>2. CASE exec[Id[a]].status \in {"running", "completed"}
  <2>1. Returns(a, Skipped)
    BY <1>2 DEF StartChild, StartChildUnder, SkipChild
  <2>2. frame'[a].st = "ok" /\ Others({a})
    BY <2>1, ReturnsIs DEF Shape
  <2>3. QED
    BY <2>2 DEF Others, Same, Released, Standing
<1>3. CASE exec[Id[a]].status \notin {"running", "completed"}
  <2>1. frame' = [b \in Act |-> IF b = a THEN [frame[a] EXCEPT !.st = "busy"]
                                ELSE IF b \in Subs(a) THEN CalledWith(Ctx(a)) ELSE frame[b]]
    BY <1>3 DEF StartChild, StartChildUnder
  <2>2. \A b \in Act : frame'[b].st \in {frame[b].st, "called", "busy"}
    BY <1>1, <2>1, Records DEF Fields
  <2>3. QED
    BY <2>2 DEF Standing
<1>4. QED
  BY <1>2, <1>3

(* The inductive invariant: a FlowCtx holds no more than the place of the phase  *)
(* allows, which phases that share one agree on because they are above one        *)
(* another (Stack).                                                              *)
Separate == Threaded /\ Standing /\ Confined

(* It holds in the first state.                                                *)
LEMMA InitSeparate == Init => Separate
<1> SUFFICES ASSUME Init PROVE Separate
  OBVIOUS
<1>1. /\ \A a \in Act : frame[a] = IF a = Root THEN Called ELSE Idle
      /\ \A id \in ChildIds : exec[id] = Absent
  BY DEF Init
<1>2. Standing
  BY <1>1, Records DEF Standing
<1>3. CtxsFit
  <2> SUFFICES ASSUME NEW b \in Act, Looks(b) PROVE DOMAIN Ctx(b) \subseteq NamesOf(Limit(b))
    BY DEF CtxsFit, Fits
  <2>1. Own[b] \in Act
    BY OwnFacts
  <2>2. QED
    BY <1>1, <2>1, NoOutsEmpty DEF Ctx
<1>4. InsFit
  BY <1>1 DEF InsFit, Absent
<1>5. QED
  BY <1>2, <1>3, <1>4, InitThreaded DEF Separate, Confined

(* What a step has to keep besides Threaded; a step of a phase does.           *)
Separated == Standing' /\ CtxsFit' /\ InsFit'

(* A step of a phase, of a workflow of its own or of the main one.                *)
LEMMA PhaseSeparated ==
  ASSUME Separate, Stack', NEW a \in Active, Run(a) \/ ExtractFails(a)
  PROVE  Separated
<1>1. Shape /\ Stack /\ CtxsFit /\ InsFit /\ Standing /\ a \in Act
  BY DEF Separate, Threaded, Confined, Active
<1>2. CASE ChildErrs(a) \/ ExtractFails(a)
  <2>1. Fails(Dom[a])
    BY <1>2 DEF ChildErrs, ExtractFails
  <2>2. Alive(Dom[a]) /\ (Dom[a] = Main \/ (Dom[a] \in Children /\ Flow(Dom[a][1])))
    BY <1>1, DomFacts DEF Stack, DeadIdle
  <2>3. QED
    BY <1>1, <2>1, <2>2, FailsConfined, FailsStanding DEF Separated
<1>3. CASE StartChild(a)
  BY <1>1, <1>3, StartChildConfined, StartChildStanding DEF Separated
<1>4. CASE StartPipeline(a) \/ StepPipeline(a)
  <2>1. Effect(a) /\ UNCHANGED exec
    BY <1>1, <1>4, StartPipelineIs, StepPipelineIs DEF Effect, Steady
  <2>2. CtxsFit'
    BY <1>1, <1>4, StartPipelineConfined, StepPipelineConfined
  <2>3. QED
    BY <1>1, <2>1, <2>2, EffectStanding, SameIns DEF Separated
<1>5. CASE StartParallel(a) \/ \E b \in Subs(a) : JoinParallel(a, b)
  <2>1. Effect(a) /\ UNCHANGED exec
    BY <1>1, <1>5, StartParallelIs, JoinParallelIs DEF Effect, Steady
  <2>2. CtxsFit'
    BY <1>1, <1>5, StartParallelConfined, JoinParallelConfined
  <2>3. QED
    BY <1>1, <2>1, <2>2, EffectStanding, SameIns DEF Separated
<1>6. CASE StartShard(a) \/ StepShard(a) \/ ScheduleActivity(a)
  <2>1. Effect(a) /\ UNCHANGED exec
    BY <1>1, <1>6, StartShardIs, StepShardIs, ScheduleActivityIs DEF Effect, Steady
  <2>2. CtxsFit'
    BY <1>1, <1>6, StartShardConfined, StepShardConfined, ScheduleActivityConfined
  <2>3. QED
    BY <1>1, <2>1, <2>2, EffectStanding, SameIns DEF Separated
<1>7. CASE Partitioned(a)
  <2>1. UNCHANGED exec
    BY <1>7 DEF Partitioned
  <2>2. QED
    BY <1>1, <1>7, <2>1, PartitionedConfined, PartitionedStanding, SameIns DEF Separated
<1>8. CASE ChildReturns(a)
  <2>1. Returns(a, ChildOut(a)) /\ Mode(a[1]) = "workflow"
    BY <1>8 DEF ChildReturns, Ended
  <2>2. Effect(a) /\ UNCHANGED exec
    BY <1>1, <1>8, ChildReturnsIs DEF Effect, Steady
  <2>3. CtxsFit'
    BY <1>1, <2>1, ReturnsConfined DEF Leaf
  <2>4. QED
    BY <1>1, <2>2, <2>3, EffectStanding, SameIns DEF Separated
<1>9. QED
  BY <1>2, <1>3, <1>4, <1>5, <1>6, <1>7, <1>8 DEF Run

(* Nothing moves.                                                              *)
LEMMA SameSeparated ==
  ASSUME Separate, UNCHANGED <<frame, exec>>
  PROVE  Separated
BY SameIns DEF Separate, Separated, Standing, Confined, CtxsFit, Looks, Fits, Ctx, Active, Limit, NamesOf, MayHold,
               Before, Busy

(* An activity completes or fails.                                             *)
LEMMA ActivitySeparated ==
  ASSUME Separate, Stack', NEW t \in tasks, ActivityCompletes(t) \/ ActivityFails(t)
  PROVE  Separated
<1>1. Shape /\ Stack /\ CtxsFit /\ InsFit /\ Standing /\ t.act \in Act /\ Mode(t.act[1]) = "activity"
  BY DEF Separate, Threaded, Confined, Shape, Tasks
<1>2. CASE ~Awaited(t)
  BY <1>2, SameSeparated DEF ActivityCompletes, ActivityFails, ActivityFailsWith
<1>3. CASE Awaited(t)
  <2>1. PICK a \in Act : a = t.act /\ a \in Active /\ Alive(Dom[a])
    BY <1>1, <1>3 DEF Awaited, At, Active
  <2>2. CASE ActivityCompletes(t)
    <3>1. Returns(a, Out) /\ UNCHANGED exec
      BY <1>3, <2>1, <2>2 DEF ActivityCompletes
    <3>2. frame'[a].st = "ok" /\ Others({a})
      BY <1>1, <3>1, ReturnsIs DEF Shape
    <3>3. Standing'
      BY <1>1, <3>2 DEF Others, Same, Released, Standing
    <3>4. CtxsFit'
      BY <1>1, <2>1, <3>1, ReturnsConfined DEF Leaf
    <3>5. QED
      BY <1>1, <3>1, <3>3, <3>4, SameIns DEF Separated
  <2>3. CASE ActivityFails(t)
    <3>1. Fails(Dom[a])
      BY <1>3, <2>1, <2>3 DEF ActivityFails, ActivityFailsWith
    <3>2. Dom[a] = Main \/ (Dom[a] \in Children /\ Flow(Dom[a][1]))
      BY DomFacts
    <3>3. QED
      BY <1>1, <2>1, <3>1, <3>2, FailsConfined, FailsStanding DEF Separated
  <2>4. QED
    BY <2>2, <2>3
<1>4. QED
  BY <1>2, <1>3

(* A child ends by itself, or is terminated.                                   *)
LEMMA ChildSeparated ==
  ASSUME Separate, Stack', NEW id \in ChildIds,
         ChildCompletes(id) \/ ChildFails(id) \/ FlowCompletes(id) \/ Terminate(id)
  PROVE  Separated
<1>1. Shape /\ CtxsFit /\ InsFit /\ Standing
  BY DEF Separate, Threaded, Confined
<1>2. \A b \in Act : frame'[b].st \in {frame[b].st, "idle"}
  BY Records DEF ChildCompletes, ChildFails, FlowCompletes, Terminate, Closed
<1>3. Standing'
  BY <1>1, <1>2 DEF Standing
<1>4. QED
  BY <1>1, <1>3, ChildEndsConfined DEF Separated

(* The job completes, is aborted, or is started again.                         *)
LEMMA MainSeparated ==
  ASSUME Separate, Stack', Complete \/ Abort \/ Rerun
  PROVE  Separated
<1>1. Shape /\ CtxsFit /\ InsFit /\ Standing
  BY DEF Separate, Threaded, Confined
<1>2. Standing'
  <2>1. CASE Complete
    BY <1>1, <2>1 DEF Complete, Standing
  <2>2. CASE Abort
    BY <1>1, <2>2, FailsStanding DEF Abort
  <2>3. CASE Rerun
    <3>1. DOMAIN frame = Act /\ frame' = [frame EXCEPT ![Root] = Called]
      BY <1>1, <2>3 DEF Rerun, Shape, Frames
    <3>2. \A b \in Act : frame'[b].st \in {frame[b].st, "called"}
      BY <3>1, Records
    <3>3. QED
      BY <1>1, <3>2 DEF Standing
  <2>4. QED
    BY <2>1, <2>2, <2>3
<1>3. QED
  BY <1>1, <1>2, MainConfined DEF Separated

(* Every step keeps it.                                                        *)
LEMMA StepSeparate ==
  ASSUME Separate, [Next]_vars
  PROVE  Separate'
<1>1. Threaded'
  BY StepThreaded DEF Separate
<1>2. Stack'
  BY <1>1 DEF Threaded
<1>3. ASSUME UNCHANGED vars PROVE Separated
  <2>1. UNCHANGED <<frame, exec>>
    BY <1>3 DEF vars
  <2>2. QED
    BY <2>1, SameSeparated
<1>4. ASSUME NEW a \in Active, Run(a) \/ ExtractFails(a) PROVE Separated
  BY <1>2, <1>4, PhaseSeparated
<1>5. ASSUME NEW t \in tasks, ActivityCompletes(t) \/ ActivityFails(t) PROVE Separated
  BY <1>2, <1>5, ActivitySeparated
<1>6. ASSUME NEW id \in ChildIds, ChildCompletes(id) \/ ChildFails(id) \/ FlowCompletes(id) \/ Terminate(id)
      PROVE  Separated
  BY <1>2, <1>6, ChildSeparated
<1>7. ASSUME Complete \/ Abort \/ Rerun PROVE Separated
  BY <1>2, <1>7, MainSeparated
<1>8. ASSUME NEW d \in Children, FlowTimesOut(d) PROVE Separated
  <2>1. Flow(d[1]) /\ Alive(d) /\ Fails(d)
    BY <1>8, OutOfTime
  <2>2. Shape /\ CtxsFit /\ InsFit /\ Standing
    BY DEF Separate, Threaded, Confined
  <2>3. QED
    BY <1>2, <2>1, <2>2, FailsConfined, FailsStanding DEF Separated
<1>9. Separated
  BY <1>3, <1>4, <1>5, <1>6, <1>7, <1>8 DEF Next
<1>10. QED
  BY <1>1, <1>9 DEF Separate, Separated, Confined

(* A branch of a parallel does not see what its siblings put, nor the caller of  *)
(* a shard what a handler puts (flowctx.go 155): Isolation, for every tree whose *)
(* phases have their own names, every client, and whatever fails.                *)
THEOREM BranchesAreIsolated == Spec => []Isolation
<1>1. Separate => Isolation
  <2> SUFFICES ASSUME Separate, SafeTree, NEW a \in Act, Busy(a)
               PROVE  /\ Mode(a[1]) = "parallel" =>
                           \A b, c \in Subs(a) : b # c /\ frame[b].st # "idle" =>
                             PutNames[c[1]] \cap DOMAIN Ctx(b) = {}
                      /\ Mode(a[1]) = "shard" => PutNames[Tree[a[1]].steps[2]] \cap DOMAIN Ctx(a) = {}
    BY DEF Isolation, IsShard, At, Busy
  <2>1. Stack /\ CtxsFit /\ Standing /\ a[1] \in Node
    BY ActFacts DEF Separate, Threaded, Confined
  <2>2. ASSUME Mode(a[1]) = "parallel", NEW b \in Subs(a), NEW c \in Subs(a), b # c, frame[b].st # "idle"
        PROVE  PutNames[c[1]] \cap DOMAIN Ctx(b) = {}
    <3>1. Subs(a) = Calls(a) /\ Own[b] = b /\ b \in Act /\ c \in Act
      BY <2>2, Steps, OwnCalls, CallFacts
    <3>2. b[1] \in Kids(a[1]) /\ c[1] \in Kids(a[1]) /\ b[1] # c[1] /\ b[1] \in Node /\ c[1] \in Node
      BY <2>1, <2>2, <3>1, KidFacts DEF Subs, Sub
    <3>3. Looks(b)
      BY <2>1, <2>2, <3>1 DEF Looks, Active, Standing
    <3>4. DOMAIN Ctx(b) \subseteq NamesOf(MayHold(b[1]))
      BY <2>1, <3>1, <3>3, LimitWithin, NamesGrow DEF CtxsFit, Fits
    <3>5. Before(b[1]) \subseteq Before(a[1])
      BY <2>1, <2>2, <3>2, BeforeCall
    <3>6. Before(a[1]) \cap Desc[a[1]] = {} /\ Desc[c[1]] \subseteq Desc[a[1]]
      BY <2>1, <3>2, NotWithin, KidFacts, DescSelf, DescTrans
    <3>7. Desc[b[1]] \cap Desc[c[1]] = {}
      BY <2>1, <3>2, KidsApart
    <3>8. MayHold(b[1]) \cap Desc[c[1]] = {}
      BY <3>5, <3>6, <3>7 DEF MayHold
    <3>9. MayHold(b[1]) \subseteq Node /\ Desc[c[1]] \subseteq Node
      BY <3>2, DescNodes DEF MayHold, Before
    <3>10. NamesOf(MayHold(b[1])) \cap NamesOf(Desc[c[1]]) = {}
      BY <3>8, <3>9, NamesApart
    <3>11. QED
      BY <3>2, <3>4, <3>10, PutsWithin
  <2>3. ASSUME Mode(a[1]) = "shard" PROVE PutNames[Tree[a[1]].steps[2]] \cap DOMAIN Ctx(a) = {}
    <3>1. PICK h : h = Tree[a[1]].steps[2]
      OBVIOUS
    <3>2. h \in Node /\ Desc[h] \subseteq Desc[a[1]]
      <4>1. 2 \in 1..Len(Tree[a[1]].steps)
        BY <2>1, <2>3, ShardSteps
      <4>2. h \in Kids(a[1])
        BY <2>1, <3>1, <4>1, StepFacts
      <4>3. QED
        BY <2>1, <4>2, KidFacts, DescSelf, DescTrans
    <3>3. Looks(a) /\ Limit(a) = Before(a[1])
      BY <2>3, LimitIs DEF Looks, Active, Busy
    <3>4. DOMAIN Ctx(a) \subseteq NamesOf(Before(a[1]))
      BY <2>1, <3>3 DEF CtxsFit, Fits
    <3>5. Before(a[1]) \cap Desc[h] = {} /\ Before(a[1]) \subseteq Node /\ Desc[h] \subseteq Node
      BY <2>1, <3>2, NotWithin, DescNodes DEF Before
    <3>6. NamesOf(Before(a[1])) \cap NamesOf(Desc[h]) = {}
      BY <3>5, NamesApart
    <3>7. QED
      BY <3>1, <3>2, <3>4, <3>6, PutsWithin
  <2>4. QED
    BY <2>2, <2>3
<1>2. Separate /\ [Next]_vars => Separate'
  BY StepSeparate
<1>3. QED
  BY <1>1, <1>2, InitSeparate, PTL DEF Spec

-------------------------------------------------------------------------------
(* What the shards count.                                                        *)

(* A FlowCtx has the right totals, where names tell shards apart.                *)
Tracked == {s \in CountedShards : SafeTree}
Counts(fc) ==
  \A s \in Tracked : Name(s) \in DOMAIN fc => fc[Name(s)].n + fc[Name(s)].skips = Len(Tree[s].parts)

(* Empty outputs count; a called phase has those of its caller.                *)
LEMMA NoOutsCount == Counts(Idle.fc) /\ Counts(Called.fc) /\ \A ctx : Counts(ctx) => Counts(CalledWith(ctx).fc)
BY NoOutsEmpty DEF Counts

(* A merge of two such FlowCtxs.                                               *)
LEMMA OverCounts ==
  ASSUME NEW fc, NEW sub, Counts(fc), Counts(sub)
  PROVE  Counts(Over(fc, sub))
<1> SUFFICES ASSUME NEW s \in Tracked, Name(s) \in DOMAIN Over(fc, sub)
             PROVE  Over(fc, sub)[Name(s)].n + Over(fc, sub)[Name(s)].skips = Len(Tree[s].parts)
  BY DEF Counts
<1>1. PICK x : x = Name(s)
  OBVIOUS
<1>2. /\ DOMAIN Over(fc, sub) = DOMAIN fc \cup DOMAIN sub
      /\ Over(fc, sub)[x] = IF x \in DOMAIN sub THEN sub[x] ELSE fc[x]
  BY <1>1 DEF Over
<1>3. QED
  BY <1>1, <1>2 DEF Counts

(* A put adds to the totals of no other shard.                                 *)
LEMMA PutCounts ==
  ASSUME NEW n \in Node, Mode(n) \notin {"pipeline", "parallel"}, NEW fc, Counts(fc), NEW v,
         n \in Tracked => v.n + v.skips = Len(Tree[n].parts)
  PROVE  Counts(Put(fc, n, v))
<1>1. \A s \in Tracked : s \in Node /\ (s # n => Name(s) # Name(n))
  BY DEF SafeTree, CountedShards, Tracked
<1>2. PICK one : one = [x \in {Name(n)} |-> v]
  OBVIOUS
<1>3. Counts(one)
  BY <1>1, <1>2 DEF Counts
<1>4. QED
  BY <1>2, <1>3, OverCounts DEF Put

(* The flow of a completed execution has run; the leaf that a flow is over, or a *)
(* branch, has left its output, and that of an activity counts one; a handler that returned counts one; a shard has counted  *)
(* the partitions it is past.                                                    *)
FlowsRan ==
  \A d \in Children : /\ exec[Id[d]].status = "completed" /\ exec[Id[d]].act = d /\ Flow(d[1])
                      => frame[Step(d, 1)].st = "ok"
PutItself(r) ==
  Leaf(r[1]) /\ Own[r] = r /\ ~Handler(r[1]) /\ ~Partitioner(r[1]) /\ frame[r].st = "ok" =>
    Name(r[1]) \in DOMAIN frame[r].fc /\ (Mode(r[1]) = "activity" => frame[r].fc[Name(r[1])].n = 1)
CountsOne(h) ==
  Handler(h[1]) /\ Counted(h[1]) /\ frame[h].st = "ok" => frame[h].val = Skipped \/ frame[h].val.n = 1
SumsUp(a) ==
  a[1] \in CountedShards /\ a \in Active =>
    /\ frame[a].sum \in Nat /\ frame[a].skips \in Nat
    /\ frame[a].sum + frame[a].skips = IF frame[a].st = "busy" /\ frame[a].at > 0 THEN frame[a].at - 1 ELSE 0
Tallied(a) == PutItself(a) /\ CountsOne(a) /\ SumsUp(a)
CtxsCount == \A a \in Act : Counts(frame[a].fc)
InsCount == \A id \in ChildIds : Counts(exec[id].in)
Accounted == FlowsRan /\ (\A a \in Act : Tallied(a)) /\ CtxsCount /\ InsCount

(* A step of a phase and of those it calls.                                      *)
Rest(b) ==
  /\ frame'[b].st = frame[b].st /\ frame'[b].at = frame[b].at /\ frame'[b].val = frame[b].val
  /\ frame'[b].sum = frame[b].sum /\ frame'[b].skips = frame[b].skips
Fresh(c) == frame'[c].st \in {"idle", "called"} /\ frame'[c].sum = 0 /\ frame'[c].skips = 0
Local(a) ==
  /\ \A b \in Act \ ({a} \cup Calls(a)) : Rest(b) /\ (b # Own[a] => frame'[b].fc = frame[b].fc)
  /\ \A c \in Calls(a) : frame'[c] = frame[c] \/ Fresh(c)
  /\ \A b \in Act : frame'[b].fc = frame[b].fc \/ Counts(frame'[b].fc)

(* A phase that has not started has nothing to account for.                    *)
LEMMA FreshFrames ==
  ASSUME NEW b \in Act, frame'[b].st \in {"idle", "called"}, frame'[b].sum = 0, frame'[b].skips = 0
  PROVE  Tallied(b)'
BY DEF Tallied, PutItself, CountsOne, SumsUp, Active, CountedShards

(* Nor has one that does not move anything new.                                *)
LEMMA SameFrame ==
  ASSUME NEW b \in Act, Tallied(b), Rest(b), frame'[b].fc = frame[b].fc \/ ~Leaf(b[1]) \/ Own[b] # b
  PROVE  Tallied(b)'
BY DEF Tallied, PutItself, CountsOne, SumsUp, Active, CountedShards, Rest, Counted, Handler, Partitioner

(* What a call sets.                                                           *)
LEMMA Fresh0 ==
  /\ Idle.st = "idle" /\ Idle.sum = 0 /\ Idle.skips = 0
  /\ Called.st = "called" /\ Called.sum = 0 /\ Called.skips = 0
  /\ \A ctx : CalledWith(ctx).st = "called" /\ CalledWith(ctx).sum = 0 /\ CalledWith(ctx).skips = 0
BY DEF Idle, Called, CalledWith

(* A leaf works with the FlowCtx of nothing below it.                            *)
LEMMA OwnNotLeaf ==
  ASSUME NEW a \in Act, Leaf(Own[a][1])
  PROVE  Own[a] = a
<1>1. PICK o \in Act : o = Own[a] /\ AtOrBelow(a, o) /\ Dom[o] = Dom[a] /\ Leaf(o[1])
  BY OwnFacts
<1>2. CASE ~Flow(o[1])
  BY <1>1, <1>2, LeafBelow
<1>3. CASE Flow(o[1])
  <2> SUFFICES ASSUME a # o PROVE FALSE
    BY <1>1
  <2>1. PICK c \in Calls(o) : AtOrBelow(a, c)
    BY <1>1, BelowSplit
  <2>2. c \in Act /\ Dom[c] = o
    BY <1>1, <1>3, <2>1, CallFacts, DomCalls
  <2>3. a[1] \in Desc[c[1]] /\ c[1] \in Node /\ c[1] > o[1] /\ o[1] \in Node
    BY <1>1, <2>1, CallFacts, ActFacts DEF AtOrBelow
  <2>4. DomNode[c[1]] = o[1] /\ DomNode[c[1]] # 0
    BY <2>2, <1>1, NotMain, DomFacts
  <2>5. DomNode[a[1]] = o[1] \/ (DomNode[a[1]] # 0 /\ DomNode[a[1]] \in Desc[c[1]])
    BY <2>3, <2>4, DomNodeBelow
  <2>6. DomNode[a[1]] # 0 /\ DomNode[a[1]] >= o[1] /\ DomNode[a[1]] \in Nat
    BY <2>3, <2>4, <2>5, DescNodes, NodeFacts
  <2>7. Dom[a] # Main => Dom[a][1] = DomNode[a[1]] /\ Dom[o] # Main
    BY <1>1, DomFacts
  <2>8. Dom[a] # Main
    <3>1. PICK n : n = DomNode[a[1]]
      OBVIOUS
    <3>2. Dom[a] = Up(a, n) /\ n # 0
      BY <2>6, <3>1, DomIs
    <3>3. Up(a, n)[1] = n /\ Main[1] = 0
      BY DEF Up, Main
    <3>4. QED
      BY <3>2, <3>3
  <2>9. Dom[o][1] < o[1]
    BY <1>1, <2>7, <2>8, DomFacts
  <2>10. QED
    BY <1>1, <2>3, <2>6, <2>7, <2>8, <2>9, NodeFacts
<1>4. QED
  BY <1>2, <1>3

(* The first step of a flow is called by nothing else.                           *)
LEMMA TopsApart ==
  ASSUME NEW d \in Children, Flow(d[1])
  PROVE  /\ Step(d, 1) \in Act /\ Step(d, 1) \in Calls(d) /\ Dom[Step(d, 1)] = d /\ d # Main
         /\ \A a \in Act : Step(d, 1) \in Calls(a) => a = d
<1>1. d \in Act /\ Mode(d[1]) = "workflow"
  BY DEF Children
<1>2. PICK r : r = Step(d, 1)
  OBVIOUS
<1>3. r \in Act /\ r \in Calls(d) /\ Dom[r] = d /\ d # Main
  BY <1>1, <1>2, FlowCalls, NotMain
<1>4. \A a \in Act : r \in Calls(a) => a = d
  BY <1>1, <1>3, OneCaller
<1>5. QED
  BY <1>2, <1>3, <1>4

(* A local step of a phase that keeps its own account keeps all of them.       *)
LEMMA LocalAccounts ==
  ASSUME Accounted, NEW a \in Active, Alive(Dom[a]), Local(a), Tallied(a)', InsCount',
         \A d \in Children : exec'[Id[d]].status = "completed" /\ exec'[Id[d]].act = d =>
           /\ exec[Id[d]].status = "completed" /\ exec[Id[d]].act = d
           /\ d = a => \A c \in Calls(a) : frame'[c] = frame[c]
  PROVE  Accounted'
<1>1. a \in Act
  BY DEF Active
<1>2. FlowsRan'
  <2> SUFFICES ASSUME NEW d \in Children, exec'[Id[d]].status = "completed", exec'[Id[d]].act = d, Flow(d[1])
               PROVE  frame'[Step(d, 1)].st = "ok"
    BY DEF FlowsRan
  <2>1. PICK r : r = Step(d, 1)
    OBVIOUS
  <2>2. r \in Act /\ r \in Calls(d) /\ Dom[r] = d /\ d # Main /\ (r \in Calls(a) => a = d)
    BY <1>1, <2>1, TopsApart
  <2>3. exec[Id[d]].status = "completed" /\ exec[Id[d]].act = d /\ frame[r].st = "ok"
    BY <2>1 DEF Accounted, FlowsRan
  <2>4. r # a
    BY <2>2, <2>3 DEF Alive, Running
  <2>5. CASE r \in Calls(a)
    BY <2>1, <2>2, <2>3, <2>5
  <2>6. CASE r \notin Calls(a)
    BY <2>1, <2>2, <2>3, <2>4, <2>6 DEF Local, Rest
  <2>7. QED
    BY <2>5, <2>6
<1>3. ASSUME NEW b \in Act PROVE Tallied(b)'
  <2>1. CASE b = a
    BY <2>1
  <2>2. CASE b \in Calls(a) /\ b # a
    <3>1. CASE Fresh(b)
      BY <3>1, FreshFrames DEF Fresh
    <3>2. CASE frame'[b] = frame[b]
      BY <3>2, SameFrame DEF Rest, Accounted
    <3>3. QED
      BY <2>2, <3>1, <3>2 DEF Local
  <2>3. CASE b \notin Calls(a) /\ b # a
    <3>1. Rest(b) /\ (b # Own[a] => frame'[b].fc = frame[b].fc)
      BY <2>3 DEF Local
    <3>2. b = Own[a] => ~Leaf(b[1])
      BY <1>1, <2>3, OwnNotLeaf
    <3>3. QED
      BY <3>1, <3>2, SameFrame DEF Accounted
  <2>4. QED
    BY <2>1, <2>2, <2>3
<1>4. CtxsCount'
  <2>1. \A b \in Act : Counts(frame'[b].fc)
    BY DEF Local, Accounted, CtxsCount
  <2>2. QED
    BY <2>1 DEF CtxsCount, Counts, Tracked
<1>5. QED
  BY <1>2, <1>3, <1>4 DEF Accounted

(* Of the executions the step leaves the completed ones as they are.             *)
LEMMA PhaseAccounts ==
  ASSUME Accounted, NEW a \in Active, Alive(Dom[a]), Mode(a[1]) # "workflow", Local(a), Tallied(a)', UNCHANGED exec
  PROVE  Accounted'
<1>1. InsCount'
  BY DEF Accounted, InsCount, Counts, Tracked
<1>2. \A d \in Children : Mode(d[1]) = "workflow"
  BY DEF Children
<1>3. QED
  BY <1>1, <1>2, LocalAccounts

(* Only leaves and shards have something of their own to account for.            *)
LEMMA NoOwnTally ==
  ASSUME NEW a \in Act, ~Leaf(a[1]), Mode(a[1]) # "shard"
  PROVE  Tallied(a)'
BY DEF Leaf, Tallied, PutItself, CountsOne, SumsUp, CountedShards, Counted

(* The outputs.                                                                  *)
LEMMA OutCounts == Out.n = 1 /\ Skipped.n = 0 /\ (\A v : v.n = 1 => v # Skipped)
BY DEF Out, Skipped, Val

(* A leaf returns.                                                               *)
LEMMA ReturnsLocal ==
  ASSUME Shape, Accounted, NEW a \in Act, Leaf(a[1]), NEW v, Returns(a, v)
  PROVE  /\ Local(a) /\ (\A c \in Calls(a) : frame'[c] = frame[c]) /\ frame'[a].st = "ok"
         /\ Handler(a[1]) => frame'[a].val = v
         /\ ~Handler(a[1]) /\ ~Partitioner(a[1]) =>
              Name(a[1]) \in DOMAIN frame'[Own[a]].fc /\ (v # Skipped => frame'[Own[a]].fc[Name(a[1])] = v)
<1>1. DOMAIN frame = Act /\ \A b \in Act : DOMAIN frame[b] = Fields
  BY DEF Shape, Frames
<1>2. PICK o \in Act : o = Own[a] /\ AtOrBelow(a, o)
  BY OwnFacts
<1>3. \A c \in Calls(a) : c \in Act /\ c # a /\ c # o
  BY <1>2, CallFacts, Antisymmetric
<1>4. CASE Handler(a[1]) \/ Partitioner(a[1])
  <2>1. frame' = [frame EXCEPT ![a].st = "ok", ![a].val = v]
    BY <1>4 DEF Returns
  <2>2. /\ frame'[a].st = "ok" /\ frame'[a].val = v /\ frame'[a].fc = frame[a].fc
        /\ \A b \in Act \ {a} : frame'[b] = frame[b]
    BY <1>1, <2>1 DEF Fields
  <2>3. Local(a)
    BY <1>3, <2>2 DEF Local, Rest
  <2>4. QED
    BY <1>3, <1>4, <2>2, <2>3
<1>5. CASE ~(Handler(a[1]) \/ Partitioner(a[1]))
  <2>1. PICK w : w = (IF v = Skipped THEN Val("mark") ELSE v)
    OBVIOUS
  <2>2. PICK fc : fc = Put(frame[o].fc, a[1], w)
    OBVIOUS
  <2>3. frame' = [frame EXCEPT ![a].st = "ok", ![o].fc = Put(@, a[1], w)]
    BY <1>2, <1>5, <2>1 DEF Returns
  <2>4. frame' = [frame EXCEPT ![a].st = "ok", ![o].fc = fc]
    BY <1>1, <1>2, <2>2, <2>3 DEF Fields
  <2>5. frame'[a].st = "ok" /\ frame'[o].fc = fc
    BY <1>1, <1>2, <2>4 DEF Fields
  <2>6. \A b \in Act \ {a} : Rest(b)
    BY <1>1, <1>2, <2>4 DEF Fields, Rest
  <2>7. \A b \in Act \ {o} : frame'[b].fc = frame[b].fc
    BY <1>1, <1>2, <2>4 DEF Fields
  <2>8. \A b \in Act \ {a, o} : frame'[b] = frame[b]
    BY <1>1, <1>2, <2>4
  <2>9. Counts(fc)
    <3>1. a[1] \in Node /\ Mode(a[1]) \notin {"pipeline", "parallel"} /\ a[1] \notin Tracked
      BY ActFacts DEF Leaf, CountedShards, Tracked
    <3>2. Counts(frame[o].fc)
      BY DEF Accounted, CtxsCount
    <3>3. QED
      BY <2>2, <3>1, <3>2, PutCounts
  <2>10. Local(a)
    BY <1>2, <1>3, <2>5, <2>6, <2>7, <2>8, <2>9 DEF Local
  <2>11. Name(a[1]) \in DOMAIN fc /\ fc[Name(a[1])] = w
    BY <2>2 DEF Put, Over
  <2>12. QED
    BY <1>2, <1>3, <1>5, <2>1, <2>5, <2>8, <2>10, <2>11
<1>6. QED
  BY <1>4, <1>5

(* What it returns is counted.                                                 *)
LEMMA ReturnsAccounts ==
  ASSUME Shape, Accounted, NEW a \in Active, Alive(Dom[a]), Leaf(a[1]), NEW v, Returns(a, v), UNCHANGED exec,
         Mode(a[1]) = "activity" => v = Out,
         Handler(a[1]) /\ Counted(a[1]) => v = Skipped \/ v.n = 1
  PROVE  Accounted'
<1>1. a \in Act
  BY DEF Active
<1>2. /\ Local(a) /\ (\A c \in Calls(a) : frame'[c] = frame[c]) /\ frame'[a].st = "ok"
      /\ Handler(a[1]) => frame'[a].val = v
      /\ ~Handler(a[1]) /\ ~Partitioner(a[1]) =>
           Name(a[1]) \in DOMAIN frame'[Own[a]].fc /\ (v # Skipped => frame'[Own[a]].fc[Name(a[1])] = v)
  BY <1>1, ReturnsLocal
<1>3. PutItself(a)'
  <2> SUFFICES ASSUME Own[a] = a, ~Handler(a[1]), ~Partitioner(a[1])
               PROVE  /\ Name(a[1]) \in DOMAIN frame'[a].fc
                      /\ Mode(a[1]) = "activity" => frame'[a].fc[Name(a[1])].n = 1
    BY DEF PutItself
  <2>1. QED
    BY <1>2, OutCounts
<1>4. CountsOne(a)'
  BY <1>2 DEF CountsOne
<1>5. SumsUp(a)'
  BY DEF SumsUp, Leaf, CountedShards
<1>6. Tallied(a)'
  BY <1>3, <1>4, <1>5 DEF Tallied
<1>7. InsCount'
  BY DEF Accounted, InsCount, Counts, Tracked
<1>8. QED
  BY <1>2, <1>6, <1>7, LocalAccounts

(* A shard returns.                                                              *)
LEMMA PutAggAccounts ==
  ASSUME Shape, Accounted, NEW a \in Active, Alive(Dom[a]), Mode(a[1]) = "shard", UNCHANGED exec,
         NEW k, NEW s, PutAgg(a, k, s), a[1] \in Tracked => k + s = Len(Tree[a[1]].parts)
  PROVE  Accounted'
<1>1. a \in Act /\ DOMAIN frame = Act /\ \A b \in Act : DOMAIN frame[b] = Fields
  BY DEF Active, Shape, Frames
<1>2. PICK o \in Act : o = Own[a] /\ AtOrBelow(a, o)
  BY <1>1, OwnFacts
<1>3. \A c \in Calls(a) : c \in Act /\ c # a /\ c # o
  BY <1>1, <1>2, CallFacts, Antisymmetric
<1>4. PICK v : v = [tag |-> "agg", n |-> k, skips |-> s]
  OBVIOUS
<1>5. PICK fc : fc = Put(frame[o].fc, a[1], v)
  OBVIOUS
<1>6. frame' = [frame EXCEPT ![a].st = "ok", ![o].fc = Put(@, a[1], v)]
  BY <1>2, <1>4 DEF PutAgg
<1>7. frame' = [frame EXCEPT ![a].st = "ok", ![o].fc = fc]
  BY <1>1, <1>2, <1>5, <1>6 DEF Fields
<1>8. frame'[a].st = "ok" /\ frame'[o].fc = fc
  BY <1>1, <1>2, <1>7 DEF Fields
<1>9. \A b \in Act \ {a} : Rest(b)
  BY <1>1, <1>2, <1>7 DEF Fields, Rest
<1>10. \A b \in Act \ {o} : frame'[b].fc = frame[b].fc
  BY <1>1, <1>2, <1>7 DEF Fields
<1>11. \A b \in Act \ {a, o} : frame'[b] = frame[b]
  BY <1>1, <1>2, <1>7
<1>12. Counts(fc)
  <2>1. a[1] \in Node /\ Mode(a[1]) \notin {"pipeline", "parallel"}
    BY <1>1, ActFacts
  <2>2. Counts(frame[o].fc)
    BY DEF Accounted, CtxsCount
  <2>3. v.n = k /\ v.skips = s
    BY <1>4
  <2>4. QED
    BY <1>5, <2>1, <2>2, <2>3, PutCounts
<1>13. Local(a)
  BY <1>2, <1>3, <1>8, <1>9, <1>10, <1>11, <1>12 DEF Local
<1>14. Tallied(a)'
  BY <1>8 DEF Tallied, PutItself, CountsOne, SumsUp, Counted, Leaf, Active
<1>15. QED
  BY <1>13, <1>14, PhaseAccounts

(* A phase that adds nothing to a FlowCtx calls others, or returns.              *)
LEMMA CallsLocal ==
  ASSUME Accounted, NEW a \in Act, NEW C, C \subseteq Calls(a),
         \A c \in C : frame'[c] = Idle \/ frame'[c] = Called \/ frame'[c] = CalledWith(Ctx(a)),
         \A b \in Act \ (C \cup {a}) : frame'[b] = frame[b] \/ (b = Own[a] /\ Rest(b) /\ frame'[b].fc = frame[b].fc),
         frame'[a].fc = frame[a].fc
  PROVE  Local(a)
<1>1. \A b \in Act : Counts(frame[b].fc)
  BY DEF Accounted, CtxsCount
<1>2. Counts(Ctx(a))
  BY <1>1, OwnFacts DEF Ctx
<1>3. \A c \in C : Fresh(c) /\ Counts(frame'[c].fc)
  BY <1>2, Fresh0, NoOutsCount DEF Fresh
<1>4. \A b \in Act \ (C \cup {a}) : Rest(b) /\ frame'[b].fc = frame[b].fc
  BY DEF Rest
<1>5. \A c \in Calls(a) : c \in Act /\ c # a /\ c # Own[a]
  BY OwnFacts, CallFacts, Antisymmetric
<1>6. QED
  BY <1>3, <1>4, <1>5 DEF Local, Rest

(* A pipeline starts.                                                          *)
LEMMA StartPipelineAccounts ==
  ASSUME Shape, Accounted, NEW a \in Active, Alive(Dom[a]), StartPipeline(a)
  PROVE  Accounted'
<1>1. a \in Act /\ Mode(a[1]) = "pipeline" /\ UNCHANGED exec /\ ~Leaf(a[1])
  BY DEF StartPipeline, Active, Leaf
<1>2. DOMAIN frame = Act /\ \A b \in Act : DOMAIN frame[b] = Fields
  BY DEF Shape, Frames
<1>3. CASE Kids(a[1]) = {}
  <2>1. frame' = [frame EXCEPT ![a].st = "ok"]
    BY <1>3 DEF StartPipeline
  <2> DEFINE C == {}
  <2>2. frame'[a].fc = frame[a].fc /\ \A b \in Act \ (C \cup {a}) : frame'[b] = frame[b]
    BY <1>1, <1>2, <2>1 DEF Fields
  <2>3. C \subseteq Calls(a) /\ \A c \in C : frame'[c] = Idle
    OBVIOUS
  <2> HIDE DEF C
  <2>4. Local(a)
    BY <1>1, <2>2, <2>3, CallsLocal
  <2>5. QED
    BY <1>1, <2>4, NoOwnTally, PhaseAccounts
<1>4. CASE Kids(a[1]) # {}
  <2>1. PICK s : s = Step(a, 1)
    OBVIOUS
  <2>2. frame' = [frame EXCEPT ![a].st = "busy", ![a].at = 1, ![s] = Called]
    BY <1>4, <2>1 DEF StartPipeline
  <2>3. s \in Calls(a) /\ s \in Act /\ s # a
    BY <1>1, <1>4, <2>1, Steps
  <2> DEFINE C == {s}
  <2>4. frame'[a].fc = frame[a].fc /\ \A b \in Act \ (C \cup {a}) : frame'[b] = frame[b]
    BY <1>1, <1>2, <2>2, <2>3 DEF Fields
  <2>5. C \subseteq Calls(a) /\ \A c \in C : frame'[c] = Called
    BY <1>2, <2>2, <2>3
  <2> HIDE DEF C
  <2>6. Local(a)
    BY <1>1, <2>4, <2>5, CallsLocal
  <2>7. QED
    BY <1>1, <2>6, NoOwnTally, PhaseAccounts
<1>5. QED
  BY <1>3, <1>4

(* A pipeline goes on to the next step, or ends.                               *)
LEMMA StepPipelineAccounts ==
  ASSUME Shape, Stack, Accounted, NEW a \in Active, Alive(Dom[a]), StepPipeline(a)
  PROVE  Accounted'
<1>1. a \in Act /\ Mode(a[1]) = "pipeline" /\ UNCHANGED exec /\ ~Leaf(a[1]) /\ Busy(a)
  BY DEF StepPipeline, StepPipelineTo, Active, Leaf, Busy, At
<1>2. DOMAIN frame = Act /\ \A b \in Act : DOMAIN frame[b] = Fields
  BY DEF Shape, Frames
<1>3. PICK k : k = frame[a].at + 1
  OBVIOUS
<1>4. CASE k > Len(Tree[a[1]].steps)
  <2>1. frame' = [frame EXCEPT ![a].st = "ok"]
    BY <1>3, <1>4 DEF StepPipeline, StepPipelineTo
  <2> DEFINE C == {}
  <2>2. frame'[a].fc = frame[a].fc /\ \A b \in Act \ (C \cup {a}) : frame'[b] = frame[b]
    BY <1>1, <1>2, <2>1 DEF Fields
  <2>3. C \subseteq Calls(a) /\ \A c \in C : frame'[c] = Idle
    OBVIOUS
  <2> HIDE DEF C
  <2>4. Local(a)
    BY <1>1, <2>2, <2>3, CallsLocal
  <2>5. QED
    BY <1>1, <2>4, NoOwnTally, PhaseAccounts
<1>5. CASE ~(k > Len(Tree[a[1]].steps))
  <2>1. PICK s : s = Step(a, k)
    OBVIOUS
  <2>2. frame' = [frame EXCEPT ![a].at = k, ![s] = Called]
    BY <1>3, <1>5, <2>1 DEF StepPipeline, StepPipelineTo
  <2>3. s \in Calls(a) /\ s \in Act /\ s # a
    <3>1. frame[a].at \in 1..Len(Tree[a[1]].steps) /\ Len(Tree[a[1]].steps) \in Nat
      BY <1>1, Steps DEF Stack, AtStep
    <3>2. k \in 1..Len(Tree[a[1]].steps)
      BY <1>3, <1>5, <3>1
    <3>3. QED
      BY <1>1, <2>1, <3>2, Steps
  <2> DEFINE C == {s}
  <2>4. frame'[a].fc = frame[a].fc /\ \A b \in Act \ (C \cup {a}) : frame'[b] = frame[b]
    BY <1>1, <1>2, <2>2, <2>3 DEF Fields
  <2>5. C \subseteq Calls(a) /\ \A c \in C : frame'[c] = Called
    BY <1>2, <2>2, <2>3
  <2> HIDE DEF C
  <2>6. Local(a)
    BY <1>1, <2>4, <2>5, CallsLocal
  <2>7. QED
    BY <1>1, <2>6, NoOwnTally, PhaseAccounts
<1>6. QED
  BY <1>4, <1>5

(* A parallel phase starts its branches.                                       *)
LEMMA StartParallelAccounts ==
  ASSUME Shape, Accounted, NEW a \in Active, Alive(Dom[a]), StartParallel(a)
  PROVE  Accounted'
<1>1. a \in Act /\ Mode(a[1]) = "parallel" /\ UNCHANGED exec /\ ~Leaf(a[1])
  BY DEF StartParallel, Active, Leaf
<1>2. DOMAIN frame = Act /\ \A b \in Act : DOMAIN frame[b] = Fields
  BY DEF Shape, Frames
<1>3. Calls(a) = Subs(a) /\ Calls(a) \subseteq Act \ {a}
  BY <1>1, Steps
<1>4. frame' = [b \in Act |-> IF b \in Calls(a) THEN CalledWith(Ctx(a))
                             ELSE IF b # a THEN frame[b]
                             ELSE [frame[a] EXCEPT !.st = IF Calls(a) = {} THEN "ok" ELSE "busy"]]
  BY <1>3 DEF StartParallel
<1> DEFINE C == Calls(a)
<1>5. \A c \in C : frame'[c] = CalledWith(Ctx(a))
  BY <1>3, <1>4
<1>6. \A b \in Act \ (C \cup {a}) : frame'[b] = frame[b]
  BY <1>4
<1>7. frame'[a].fc = frame[a].fc
  BY <1>1, <1>2, <1>3, <1>4 DEF Fields
<1>8. C \subseteq Calls(a)
  OBVIOUS
<1> HIDE DEF C
<1>9. Local(a)
  BY <1>1, <1>5, <1>6, <1>7, <1>8, CallsLocal
<1>10. QED
  BY <1>1, <1>9, NoOwnTally, PhaseAccounts

(* It merges the FlowCtx of a branch.                                          *)
LEMMA JoinParallelAccounts ==
  ASSUME Shape, Accounted, NEW a \in Active, Alive(Dom[a]), NEW b \in Subs(a), JoinParallel(a, b)
  PROVE  Accounted'
<1>1. a \in Act /\ Mode(a[1]) = "parallel" /\ UNCHANGED exec /\ ~Leaf(a[1])
  BY DEF JoinParallel, JoinThen, Active, Leaf
<1>2. DOMAIN frame = Act /\ \A c \in Act : DOMAIN frame[c] = Fields
  BY DEF Shape, Frames
<1>3. b \in Calls(a) /\ b \in Act /\ b # a
  BY <1>1, Steps
<1>4. PICK o \in Act : o = Own[a] /\ AtOrBelow(a, o)
  BY <1>1, OwnFacts
<1>5. \A c \in Calls(a) : c \in Act /\ c # a /\ c # o
  BY <1>1, <1>4, CallFacts, Antisymmetric
<1>6. PICK fc, st : /\ fc = Merge(frame[o].fc, frame[b].fc)
                    /\ frame' = [frame EXCEPT ![o].fc = Merge(@, frame[b].fc), ![b] = Idle, ![a].st = st]
  BY <1>4 DEF JoinParallel, JoinThen
<1>7. frame' = [frame EXCEPT ![o].fc = fc, ![b] = Idle, ![a].st = st]
  BY <1>2, <1>4, <1>6 DEF Fields
<1>8. b # o
  BY <1>3, <1>5
<1>9. frame'[b] = Idle /\ frame'[o].fc = fc
  BY <1>1, <1>2, <1>3, <1>4, <1>7, <1>8 DEF Fields
<1>10. \A c \in Act \ {a, b} : Rest(c)
  BY <1>1, <1>2, <1>3, <1>4, <1>7, <1>8 DEF Fields, Rest
<1>11. \A c \in Act \ {o, b} : frame'[c].fc = frame[c].fc
  BY <1>1, <1>2, <1>3, <1>4, <1>7, <1>8 DEF Fields
<1>12. \A c \in Act \ {a, b, o} : frame'[c] = frame[c]
  BY <1>1, <1>2, <1>3, <1>4, <1>7
<1>13. Counts(fc)
  BY <1>3, <1>6, OverCounts DEF Merge, Accounted, CtxsCount
<1>14. Local(a)
  BY <1>3, <1>4, <1>5, <1>9, <1>10, <1>11, <1>12, <1>13, Fresh0, NoOutsCount DEF Local, Fresh
<1>15. QED
  BY <1>1, <1>14, NoOwnTally, PhaseAccounts

(* A shard calls its partitioner.                                              *)
LEMMA StartShardAccounts ==
  ASSUME Shape, Accounted, NEW a \in Active, Alive(Dom[a]), StartShard(a)
  PROVE  Accounted'
<1>1. a \in Act /\ Mode(a[1]) = "shard" /\ UNCHANGED exec /\ ~Leaf(a[1]) /\ frame[a].st = "called"
  BY DEF StartShard, IsShard, At, Active, Leaf
<1>2. DOMAIN frame = Act /\ \A b \in Act : DOMAIN frame[b] = Fields
  BY DEF Shape, Frames
<1>3. PICK s : s = Step(a, 1)
  OBVIOUS
<1>4. frame' = [frame EXCEPT ![a].st = "busy", ![a].at = 0, ![s] = Called]
  BY <1>3 DEF StartShard
<1>5. s \in Calls(a) /\ s \in Act /\ s # a
  BY <1>1, <1>3, ShardCalls
<1> DEFINE C == {s}
<1>6. frame'[a].fc = frame[a].fc /\ \A b \in Act \ (C \cup {a}) : frame'[b] = frame[b]
  BY <1>1, <1>2, <1>4, <1>5 DEF Fields
<1>7. C \subseteq Calls(a) /\ \A c \in C : frame'[c] = Called
  BY <1>2, <1>4, <1>5
<1>8. frame'[a].at = 0 /\ frame'[a].sum = frame[a].sum /\ frame'[a].skips = frame[a].skips
  BY <1>1, <1>2, <1>4, <1>5 DEF Fields
<1> HIDE DEF C
<1>9. Local(a)
  BY <1>1, <1>6, <1>7, CallsLocal
<1>10. SumsUp(a)
  BY <1>1 DEF Accounted, Tallied
<1>11. SumsUp(a)'
  BY <1>1, <1>8, <1>10 DEF SumsUp, CountedShards
<1>12. Tallied(a)'
  BY <1>1, <1>11 DEF Tallied, PutItself, CountsOne, Counted, Leaf
<1>13. QED
  BY <1>1, <1>9, <1>12, PhaseAccounts

(* It has its partitions: the count starts at 0, or there are none to count.   *)
LEMMA PartitionedAccounts ==
  ASSUME Shape, Unskipped, Accounted, NEW a \in Active, Alive(Dom[a]), Partitioned(a)
  PROVE  Accounted'
<1>1. /\ a \in Act /\ Mode(a[1]) = "shard" /\ UNCHANGED exec /\ ~Leaf(a[1])
      /\ frame[a].st = "busy" /\ frame[a].at = 0
  BY DEF Partitioned, IsShard, At, Active, Leaf
<1>2. DOMAIN frame = Act /\ \A b \in Act : DOMAIN frame[b] = Fields
  BY DEF Shape, Frames
<1>3. PICK p : p = Step(a, 1)
  OBVIOUS
<1>4. p \in Act /\ Partitioner(p[1]) /\ p[1] \in Node \ {1} /\ Partitions(a) \in Nat
  BY <1>1, <1>3, ShardCalls
<1>5. SafeTree => frame[p].val # Skipped
  BY <1>4 DEF Unskipped, SafeTree
<1>6. SumsUp(a)
  BY <1>1 DEF Accounted, Tallied
<1>7. CASE frame[p].val = Skipped \/ Partitions(a) = 0
  <2>1. PutAgg(a, 0, 0)
    BY <1>3, <1>7 DEF Partitioned
  <2>2. a[1] \in Tracked => 0 + 0 = Len(Tree[a[1]].parts)
    BY <1>5, <1>7 DEF Partitions, Tracked
  <2>3. QED
    BY <1>1, <2>1, <2>2, PutAggAccounts
<1>8. CASE frame[p].val # Skipped /\ Partitions(a) # 0
  <2>1. PICK h : h = HandlerOf(a, 1)
    OBVIOUS
  <2>2. frame' = [frame EXCEPT ![a].at = 1, ![h] = CalledWith(Ctx(a))]
    BY <1>3, <1>8, <2>1 DEF Partitioned
  <2>3. h \in Calls(a) /\ h \in Act /\ h # a
    <3>1. 1 \in 1..Partitions(a)
      BY <1>4, <1>8
    <3>2. QED
      BY <1>1, <2>1, <3>1, ShardCalls
  <2>4. PICK ctx : ctx = CalledWith(Ctx(a))
    OBVIOUS
  <2>5. frame' = [frame EXCEPT ![a].at = 1, ![h] = ctx]
    BY <2>2, <2>4
  <2> DEFINE C == {h}
  <2>6. frame'[a].fc = frame[a].fc /\ \A b \in Act \ (C \cup {a}) : frame'[b] = frame[b]
    BY <1>1, <1>2, <2>3, <2>5 DEF Fields
  <2>7. C \subseteq Calls(a) /\ \A c \in C : frame'[c] = CalledWith(Ctx(a))
    BY <1>2, <2>3, <2>4, <2>5
  <2>8. frame'[a].at = 1 /\ frame'[a].sum = frame[a].sum /\ frame'[a].skips = frame[a].skips
    BY <1>1, <1>2, <2>3, <2>5 DEF Fields
  <2> HIDE DEF C
  <2>9. Local(a)
    BY <1>1, <2>6, <2>7, CallsLocal
  <2>10. SumsUp(a)'
    BY <1>1, <1>6, <2>8 DEF SumsUp, CountedShards
  <2>11. Tallied(a)'
    BY <1>1, <2>10 DEF Tallied, PutItself, CountsOne, Counted, Leaf
  <2>12. QED
    BY <1>1, <2>9, <2>11, PhaseAccounts
<1>9. QED
  BY <1>7, <1>8

(* A handler that the shard counts adds one.                                     *)
LEMMA GainOne ==
  ASSUME Accounted, NEW h \in Act, Handler(h[1]), Counted(h[1]), frame[h].st = "ok"
  PROVE  Gain(h) \in Nat /\ SkipGain(h) \in Nat /\ Gain(h) + SkipGain(h) = 1
<1>1. frame[h].val = Skipped \/ frame[h].val.n = 1
  BY DEF Accounted, Tallied, CountsOne
<1>2. Gain(h) = frame[h].val.n
  BY DEF Gain, Counted
<1>3. SkipGain(h) = IF frame[h].val = Skipped THEN 1 ELSE 0
  BY DEF SkipGain
<1>4. QED
  BY <1>1, <1>2, <1>3, OutCounts

(* It adds what the handler gained and goes on, or puts the aggregate.         *)
LEMMA StepShardAccounts ==
  ASSUME Shape, Stack, Accounted, NEW a \in Active, Alive(Dom[a]), StepShard(a)
  PROVE  Accounted'
<1>1. PICK i, h, P : i = frame[a].at /\ h = HandlerOf(a, i) /\ P = Partitions(a)
  OBVIOUS
<1>2. /\ a \in Act /\ Mode(a[1]) = "shard" /\ UNCHANGED exec /\ ~Leaf(a[1])
      /\ frame[a].st = "busy" /\ i > 0 /\ frame[h].st = "ok"
  BY <1>1 DEF StepShard, StepShardWith, IsShard, At, Active, Leaf
<1>3. DOMAIN frame = Act /\ \A b \in Act : DOMAIN frame[b] = Fields
  BY DEF Shape, Frames
<1>4. P \in Nat /\ i \in 1..P
  <2>1. P \in Nat
    BY <1>1, <1>2, ShardCalls
  <2>2. i \in 0..P
    BY <1>1, <1>2 DEF Stack, AtStep, Busy
  <2>3. QED
    BY <1>2, <2>1, <2>2
<1>5. h \in Calls(a) /\ h \in Act /\ h # a
  BY <1>1, <1>2, <1>4, ShardCalls
<1>6. PICK sum, skips : sum = frame[a].sum + Gain(h) /\ skips = frame[a].skips + SkipGain(h)
  OBVIOUS
<1>7. a[1] \in CountedShards => sum \in Nat /\ skips \in Nat /\ sum + skips = i
  <2> SUFFICES ASSUME a[1] \in CountedShards PROVE sum \in Nat /\ skips \in Nat /\ sum + skips = i
    OBVIOUS
  <2>1. h[1] = Tree[a[1]].steps[2]
    BY <1>1 DEF HandlerOf
  <2>2. Handler(h[1]) /\ Counted(h[1])
    BY <1>2, <2>1, ActFacts, ShardSteps DEF CountedShards
  <2>3. Gain(h) \in Nat /\ SkipGain(h) \in Nat /\ Gain(h) + SkipGain(h) = 1
    BY <1>2, <1>5, <2>2, GainOne
  <2>4. frame[a].sum \in Nat /\ frame[a].skips \in Nat /\ frame[a].sum + frame[a].skips = i - 1
    BY <1>1, <1>2 DEF Accounted, Tallied, SumsUp
  <2>5. QED
    BY <1>4, <1>6, <2>3, <2>4
<1>8. CASE i = P
  <2>1. PutAgg(a, sum, skips)
    BY <1>1, <1>6, <1>8 DEF StepShard, StepShardWith
  <2>2. P = Len(Tree[a[1]].parts)
    BY <1>1 DEF Partitions
  <2>3. a[1] \in Tracked => sum + skips = Len(Tree[a[1]].parts)
    BY <1>7, <1>8, <2>2 DEF Tracked
  <2>4. QED
    BY <1>2, <2>1, <2>3, PutAggAccounts
<1>9. CASE i # P
  <2>1. PICK g, j : g = HandlerOf(a, i + 1) /\ j = i + 1
    OBVIOUS
  <2>2. PICK o \in Act : o = Own[a] /\ AtOrBelow(a, o)
    BY <1>2, OwnFacts
  <2>3. PICK fc, ctx : fc = frame[o].fc /\ ctx = CalledWith(fc)
    OBVIOUS
  <2>4. frame' = [frame EXCEPT ![a].at = j, ![a].sum = sum, ![a].skips = skips,
                               ![o].fc = fc, ![h] = Idle, ![g] = ctx]
    BY <1>1, <1>6, <1>9, <2>1, <2>2, <2>3 DEF StepShard, StepShardWith, Ctx
  <2>5. g \in Calls(a) /\ g \in Act /\ g # a
    <3>1. i + 1 \in 1..P
      BY <1>4, <1>9
    <3>2. QED
      BY <1>1, <1>2, <2>1, <3>1, ShardCalls
  <2>6. o \notin {h, g}
    BY <1>2, <1>5, <2>2, <2>5, CallFacts, Antisymmetric
  <2>7. frame'[g] = ctx /\ (frame'[h] = Idle \/ h = g)
    BY <1>2, <1>3, <1>5, <2>2, <2>4, <2>5, <2>6
  <2>8. frame'[a].at = j /\ frame'[a].sum = sum /\ frame'[a].skips = skips /\ frame'[a].fc = frame[a].fc
    BY <1>2, <1>3, <1>5, <2>2, <2>3, <2>4, <2>5, <2>6 DEF Fields
  <2>9. \A b \in Act \ {a, h, g, o} : frame'[b] = frame[b]
    BY <1>2, <1>3, <1>5, <2>2, <2>4, <2>5, <2>6
  <2>10. o # a => Rest(o) /\ frame'[o].fc = frame[o].fc
    BY <1>2, <1>3, <1>5, <2>2, <2>3, <2>4, <2>5, <2>6 DEF Fields, Rest
  <2> DEFINE C == {h, g}
  <2>11. C \subseteq Calls(a) /\ \A c \in C : frame'[c] = Idle \/ frame'[c] = CalledWith(Ctx(a))
    BY <1>5, <2>2, <2>3, <2>5, <2>7 DEF Ctx
  <2>12. \A b \in Act \ (C \cup {a}) :
           frame'[b] = frame[b] \/ (b = Own[a] /\ Rest(b) /\ frame'[b].fc = frame[b].fc)
    BY <2>2, <2>9, <2>10
  <2> HIDE DEF C
  <2>13. Local(a)
    BY <1>2, <2>8, <2>11, <2>12, CallsLocal
  <2>14. SumsUp(a)'
    <3>1. a[1] \in CountedShards => /\ frame'[a].sum \in Nat /\ frame'[a].skips \in Nat
                                    /\ frame'[a].sum + frame'[a].skips = frame'[a].at - 1 /\ frame'[a].at > 0
      BY <1>4, <1>7, <2>1, <2>8
    <3>2. frame'[a].st = "busy"
      BY <1>2, <1>3, <1>5, <2>2, <2>4, <2>5, <2>6 DEF Fields
    <3>3. QED
      BY <3>1, <3>2 DEF SumsUp, CountedShards
  <2>15. Tallied(a)'
    BY <1>2, <2>14 DEF Tallied, PutItself, CountsOne, Counted, Leaf
  <2>16. QED
    BY <1>2, <2>13, <2>15, PhaseAccounts
<1>10. QED
  BY <1>8, <1>9

(* An activity runs.                                                           *)
LEMMA ScheduleActivityAccounts ==
  ASSUME Shape, Accounted, NEW a \in Active, Alive(Dom[a]), ScheduleActivity(a)
  PROVE  Accounted'
<1>1. a \in Act /\ Mode(a[1]) = "activity" /\ UNCHANGED exec
  BY DEF ScheduleActivity, Active
<1>2. DOMAIN frame = Act /\ \A b \in Act : DOMAIN frame[b] = Fields
  BY DEF Shape, Frames
<1>3. frame' = [frame EXCEPT ![a].st = "busy"]
  BY DEF ScheduleActivity
<1> DEFINE C == {}
<1>4. frame'[a].fc = frame[a].fc /\ \A b \in Act \ (C \cup {a}) : frame'[b] = frame[b]
  BY <1>1, <1>2, <1>3 DEF Fields
<1>5. C \subseteq Calls(a) /\ (\A c \in C : frame'[c] = Idle) /\ frame'[a].st = "busy"
  BY <1>1, <1>2, <1>3 DEF Fields
<1> HIDE DEF C
<1>6. Local(a)
  BY <1>1, <1>4, <1>5, CallsLocal
<1>7. Tallied(a)'
  BY <1>1, <1>5 DEF Tallied, PutItself, CountsOne, SumsUp, CountedShards
<1>8. QED
  BY <1>1, <1>6, <1>7, PhaseAccounts

(* A child workflow starts with a clone, or is picked up.                      *)
LEMMA StartChildAccounts ==
  ASSUME Shape, Accounted, NEW a \in Active, Alive(Dom[a]), StartChild(a)
  PROVE  Accounted'
<1>1. a \in Act /\ Mode(a[1]) = "workflow" /\ a \in Children /\ Id[a] \in ChildIds
  BY DEF StartChild, StartChildUnder, Active, Children, ChildIds
<1>2. DOMAIN frame = Act /\ (\A b \in Act : DOMAIN frame[b] = Fields) /\ DOMAIN exec = ChildIds
  BY DEF Shape, Frames, Execs
<1>3. CASE exec[Id[a]].status \in {"running", "completed"}
  <2>1. Returns(a, Skipped) /\ UNCHANGED exec
    BY <1>3 DEF StartChild, StartChildUnder, SkipChild
  <2>2. QED
    BY <1>1, <2>1, ReturnsAccounts DEF Leaf
<1>4. CASE exec[Id[a]].status \notin {"running", "completed"}
  <2>1. PICK r : r = [status |-> "running", act |-> a, in |-> Ctx(a), epoch |-> Append(Epoch(Dom[a]), 1)]
    OBVIOUS
  <2>2. /\ exec' = [exec EXCEPT ![Id[a]] = r]
        /\ frame' = [b \in Act |-> IF b = a THEN [frame[a] EXCEPT !.st = "busy"]
                                   ELSE IF b \in Subs(a) THEN CalledWith(Ctx(a))
                                   ELSE frame[b]]
    BY <1>4, <2>1 DEF StartChild, StartChildUnder
  <2>3. Subs(a) = Calls(a) /\ Calls(a) \subseteq Act \ {a}
    BY <1>1, FlowCalls, CallFacts
  <2> DEFINE C == Calls(a)
  <2>4. /\ frame'[a].st = "busy" /\ frame'[a].fc = frame[a].fc
        /\ \A c \in C : frame'[c] = CalledWith(Ctx(a))
        /\ \A b \in Act \ (C \cup {a}) : frame'[b] = frame[b]
    BY <1>1, <1>2, <2>2, <2>3 DEF Fields
  <2>5. C \subseteq Calls(a)
    OBVIOUS
  <2> HIDE DEF C
  <2>6. Local(a)
    BY <1>1, <2>4, <2>5, CallsLocal
  <2>7. Tallied(a)'
    BY <1>1, <2>4 DEF Tallied, PutItself, CountsOne, SumsUp, CountedShards
  <2>8. exec'[Id[a]] = r /\ \A id \in ChildIds \ {Id[a]} : exec'[id] = exec[id]
    BY <1>1, <1>2, <2>2
  <2>9. Counts(Ctx(a))
    BY <1>1, OwnFacts DEF Ctx, Accounted, CtxsCount
  <2>10. InsCount'
    <3>1. \A id \in ChildIds : Counts(exec'[id].in)
      BY <2>1, <2>8, <2>9 DEF Accounted, InsCount
    <3>2. QED
      BY <3>1 DEF InsCount, Counts, Tracked
  <2>11. \A d \in Children : Id[d] \in ChildIds
    BY DEF ChildIds
  <2>12. \A d \in Children : exec'[Id[d]].status = "completed" /\ exec'[Id[d]].act = d =>
           exec[Id[d]].status = "completed" /\ exec[Id[d]].act = d /\ d # a
    BY <2>1, <2>8, <2>11
  <2>13. QED
    BY <2>6, <2>7, <2>10, <2>12, LocalAccounts
<1>5. QED
  BY <1>3, <1>4

(* What a child returns counts one.                                              *)
LEMMA ChildReturnsAccounts ==
  ASSUME Shape, Accounted, NEW a \in Active, Alive(Dom[a]), ChildReturns(a)
  PROVE  Accounted'
<1>1. /\ a \in Act /\ Mode(a[1]) = "workflow" /\ a \in Children /\ UNCHANGED exec /\ Returns(a, ChildOut(a))
      /\ exec[Id[a]].status = "completed" /\ exec[Id[a]].act = a
  BY DEF ChildReturns, Ended, Active, Children
<1>2. Handler(a[1]) /\ Counted(a[1]) => ChildOut(a).n = 1
  <2> SUFFICES ASSUME Counted(a[1]) PROVE ChildOut(a).n = 1
    OBVIOUS
  <2>1. CASE ~Flow(a[1])
    BY <2>1, OutCounts DEF ChildOut
  <2>2. CASE Flow(a[1])
    <3>1. PICK r : r = Step(a, 1)
      OBVIOUS
    <3>2. r \in Act /\ r \in Calls(a) /\ Own[r] = r /\ frame[r].st = "ok"
      BY <1>1, <2>2, <3>1, TopsApart, FlowTopOwns DEF Accounted, FlowsRan
    <3>3. r[1] = Tree[a[1]].steps[1] /\ Mode(r[1]) = "activity"
      BY <2>2, <3>1 DEF Step, Sub, Counted
    <3>4. ~Handler(r[1]) /\ ~Partitioner(r[1])
      BY <1>1, <3>2, CallFacts DEF Handler, Partitioner, IsShardPart
    <3>5. frame[r].fc[Name(r[1])].n = 1
      BY <3>2, <3>3, <3>4 DEF Accounted, Tallied, PutItself, Leaf
    <3>6. ChildOut(a) = frame[r].fc[Name(r[1])]
      BY <2>2, <3>1, <3>3 DEF ChildOut, Leaf
    <3>7. QED
      BY <3>5, <3>6
  <2>3. QED
    BY <2>1, <2>2
<1>3. QED
  BY <1>1, <1>2, ReturnsAccounts DEF Leaf

(* A workflow closes, or starts over with T called, or nothing moves.            *)
LEMMA ClosedAccounts ==
  ASSUME Accounted, NEW d, NEW T,
         \A s \in T : s \in Act /\ Fresh(s) /\ Counts(frame'[s].fc),
         \A b \in Act \ T : frame'[b] = IF Dom[b] = d THEN Idle ELSE frame[b],
         \A x \in Children : exec'[Id[x]].status = "completed" /\ exec'[Id[x]].act = x /\ Flow(x[1]) =>
           /\ x # d /\ Step(x, 1) \notin T
           /\ \/ exec[Id[x]].status = "completed" /\ exec[Id[x]].act = x
              \/ frame[Step(x, 1)].st = "ok",
         \A id \in ChildIds : Counts(exec'[id].in)
  PROVE  Accounted'
<1>1. FlowsRan'
  <2> SUFFICES ASSUME NEW x \in Children, exec'[Id[x]].status = "completed", exec'[Id[x]].act = x, Flow(x[1])
               PROVE  frame'[Step(x, 1)].st = "ok"
    BY DEF FlowsRan
  <2>1. PICK r : r = Step(x, 1)
    OBVIOUS
  <2>2. r \in Act /\ Dom[r] = x
    BY <2>1, TopsApart
  <2>3. x # d /\ r \notin T /\ frame[r].st = "ok"
    BY <2>1 DEF Accounted, FlowsRan
  <2>4. QED
    BY <2>1, <2>2, <2>3
<1>2. ASSUME NEW b \in Act PROVE Tallied(b)'
  <2>1. CASE b \in T
    BY <2>1, FreshFrames DEF Fresh
  <2>2. CASE b \notin T /\ Dom[b] = d
    BY <2>2, Fresh0, FreshFrames
  <2>3. CASE b \notin T /\ Dom[b] # d
    BY <2>3, SameFrame DEF Rest, Accounted
  <2>4. QED
    BY <2>1, <2>2, <2>3
<1>3. CtxsCount'
  <2>1. \A b \in Act : Counts(frame'[b].fc)
    BY NoOutsCount DEF Accounted, CtxsCount
  <2>2. QED
    BY <2>1 DEF CtxsCount, Counts, Tracked
<1>4. InsCount'
  BY DEF InsCount, Counts, Tracked
<1>5. QED
  BY <1>1, <1>2, <1>3, <1>4 DEF Accounted

(* An execution that is retried or ends keeps the FlowCtx it was started with.   *)
LEMMA InsSame ==
  ASSUME Shape, Accounted, NEW id \in ChildIds, NEW r, exec' = [exec EXCEPT ![id] = r], r.in = exec[id].in
  PROVE  \A i \in ChildIds : Counts(exec'[i].in)
<1>1. exec'[id] = r /\ \A i \in ChildIds \ {id} : exec'[i] = exec[i]
  BY DEF Shape, Execs
<1>2. QED
  BY <1>1 DEF Accounted, InsCount

(* A workflow fails: it is retried, or it closes.                              *)
LEMMA FailsAccounts ==
  ASSUME Shape, Accounted, NEW d, d = Main \/ (d \in Children /\ Flow(d[1])), Alive(d), Fails(d)
  PROVE  Accounted'
<1>1. DOMAIN frame = Act /\ Execs
  BY DEF Shape, Frames
<1>2. DOMAIN Closed(d) = Act /\ \A b \in Act : Closed(d)[b] = IF Dom[b] = d THEN Idle ELSE frame[b]
  BY DEF Closed
<1>3. ASSUME frame' = Closed(d), \A id \in ChildIds : Counts(exec'[id].in),
             \A x \in Children : exec'[Id[x]].status = "completed" /\ exec'[Id[x]].act = x =>
               x # d /\ exec[Id[x]].status = "completed" /\ exec[Id[x]].act = x
      PROVE  Accounted'
  <2> DEFINE T == {}
  <2>1. \A s \in T : s \in Act /\ Fresh(s) /\ Counts(frame'[s].fc)
    OBVIOUS
  <2>2. \A b \in Act \ T : frame'[b] = IF Dom[b] = d THEN Idle ELSE frame[b]
    BY <1>2, <1>3
  <2>3. \A x \in Children : Step(x, 1) \notin T
    OBVIOUS
  <2> HIDE DEF T
  <2>4. QED
    BY <1>3, <2>1, <2>2, <2>3, ClosedAccounts
<1>4. CASE d = Main
  <2>1. frame' = Closed(d) /\ UNCHANGED exec
    BY <1>4 DEF Fails
  <2>2. \A x \in Children : x # d
    BY <1>4, NotMain DEF Children
  <2>3. \A id \in ChildIds : Counts(exec'[id].in)
    BY <2>1 DEF Accounted, InsCount
  <2>4. QED
    BY <1>3, <2>1, <2>2, <2>3
<1>5. CASE d # Main
  <2>1. PICK e, id : e = exec[Id[d]] /\ id = Id[d]
    OBVIOUS
  <2>2. d \in Act /\ Mode(d[1]) = "workflow" /\ Flow(d[1]) /\ id \in ChildIds /\ d \in Children
    BY <1>5, <2>1 DEF Children, ChildIds
  <2>3. e.status = "running" /\ e.act = d
    BY <1>5, <2>1 DEF Alive, Running
  <2>4. DOMAIN e = {"status", "epoch", "act", "in"} /\ DOMAIN exec = ChildIds
    BY <1>1, <2>1, <2>2 DEF Execs
  <2>5. PICK r : r = (IF Again(e) THEN [e EXCEPT !.epoch = Append(Front(@), Last(@) + 1)]
                      ELSE [e EXCEPT !.status = "failed"])
    OBVIOUS
  <2>6. exec' = [exec EXCEPT ![id] = r]
    BY <1>5, <2>1, <2>5 DEF Fails
  <2>7. r.in = e.in /\ r.act = e.act /\ r.status # "completed"
    BY <2>3, <2>4, <2>5
  <2>8. \A i \in ChildIds : Counts(exec'[i].in)
    BY <2>1, <2>2, <2>6, <2>7, InsSame
  <2>9. \A x \in Children : Id[x] \in ChildIds
    BY DEF ChildIds
  <2>10. \A x \in Children : exec'[Id[x]].status = "completed" /\ exec'[Id[x]].act = x =>
           x # d /\ exec[Id[x]].status = "completed" /\ exec[Id[x]].act = x
    <3>1. exec'[id] = r /\ \A i \in ChildIds \ {id} : exec'[i] = exec[i]
      BY <2>2, <2>4, <2>6
    <3>2. QED
      BY <2>1, <2>7, <2>9, <3>1
  <2>11. CASE ~Again(e)
    BY <1>3, <1>5, <2>1, <2>8, <2>10, <2>11 DEF Fails
  <2>12. CASE Again(e)
    <3>1. PICK s, ctx : s = Step(d, 1) /\ ctx = e.in
      OBVIOUS
    <3>2. frame' = [Closed(d) EXCEPT ![s] = CalledWith(ctx)]
      BY <1>5, <2>1, <2>12, <3>1 DEF Fails
    <3>3. s \in Act /\ \A x \in Children : Flow(x[1]) /\ x # d => Step(x, 1) # s
      <4>1. s \in Act /\ Dom[s] = d
        BY <2>2, <3>1, TopsApart
      <4>2. \A x \in Children : Flow(x[1]) => Dom[Step(x, 1)] = x
        BY TopsApart
      <4>3. QED
        BY <4>1, <4>2
    <3>4. frame'[s] = CalledWith(ctx) /\ \A b \in Act \ {s} : frame'[b] = Closed(d)[b]
      BY <1>2, <3>2, <3>3
    <3>5. Counts(ctx)
      BY <2>1, <2>2, <3>1 DEF Accounted, InsCount
    <3>6. Fresh(s) /\ Counts(frame'[s].fc)
      BY <3>4, <3>5, Fresh0, NoOutsCount DEF Fresh
    <3> DEFINE T == {s}
    <3>7. \A t \in T : t \in Act /\ Fresh(t) /\ Counts(frame'[t].fc)
      BY <3>3, <3>6
    <3>8. \A b \in Act \ T : frame'[b] = IF Dom[b] = d THEN Idle ELSE frame[b]
      BY <1>2, <3>4
    <3>9. \A x \in Children : Flow(x[1]) /\ x # d => Step(x, 1) \notin T
      BY <3>3
    <3> HIDE DEF T
    <3>10. QED
      BY <2>8, <2>10, <3>7, <3>8, <3>9, ClosedAccounts
  <2>13. QED
    BY <2>11, <2>12
<1>6. QED
  BY <1>4, <1>5

(* A child execution ends, or is terminated.                                   *)
LEMMA ChildEndsAccounts ==
  ASSUME Shape, Accounted, NEW id \in ChildIds,
         ChildCompletes(id) \/ ChildFails(id) \/ FlowCompletes(id) \/ Terminate(id)
  PROVE  Accounted'
<1>1. PICK st \in {"completed", "failed", "terminated"} : exec' = [exec EXCEPT ![id].status = st]
  BY DEF ChildCompletes, ChildFails, FlowCompletes, Terminate
<1>2. exec[id].status = "running"
  BY DEF ChildCompletes, ChildFails, HandWritten, FlowCompletes, Terminate, Orphan
<1>3. PICK e, r : e = exec[id] /\ r = [e EXCEPT !.status = st]
  OBVIOUS
<1>4. DOMAIN exec = ChildIds /\ DOMAIN e = {"status", "epoch", "act", "in"}
  BY <1>3 DEF Shape, Execs
<1>5. exec' = [exec EXCEPT ![id] = r] /\ r.in = e.in /\ r.act = e.act /\ r.status = st
  BY <1>1, <1>3, <1>4
<1>6. \A i \in ChildIds : Counts(exec'[i].in)
  BY <1>3, <1>5, InsSame
<1>7. \A x \in Children : Id[x] \in ChildIds
  BY DEF ChildIds
<1>8. exec'[id] = r /\ \A i \in ChildIds \ {id} : exec'[i] = exec[i]
  BY <1>4, <1>5
<1>9. \A x \in Children : exec'[Id[x]].status = "completed" /\ exec'[Id[x]].act = x =>
         \/ Id[x] # id /\ exec[Id[x]].status = "completed" /\ exec[Id[x]].act = x
         \/ Id[x] = id /\ st = "completed" /\ e.act = x
  BY <1>5, <1>7, <1>8
<1> DEFINE T == {}
<1>10. \A s \in T : s \in Act /\ Fresh(s) /\ Counts(frame'[s].fc)
  OBVIOUS
<1>11. \A x \in Children : Step(x, 1) \notin T
  OBVIOUS
<1>12. CASE Terminate(id)
  <2>1. PICK d : d = e.act
    OBVIOUS
  <2>2. frame' = Closed(d) /\ st = "terminated"
    <3>1. exec' = [exec EXCEPT ![id].status = "terminated"] /\ frame' = Closed(d)
      BY <1>3, <1>12, <2>1 DEF Terminate
    <3>2. exec'[id].status = "terminated"
      BY <1>3, <1>4, <3>1
    <3>3. QED
      BY <1>5, <1>8, <3>1, <3>2
  <2>3. \A b \in Act \ T : frame'[b] = IF Dom[b] = d THEN Idle ELSE frame[b]
    BY <2>2 DEF Closed
  <2>4. Id[d] = id
    BY <1>2, <1>3, <2>1 DEF Shape, Execs
  <2>5. \A x \in Children : exec'[Id[x]].status = "completed" /\ exec'[Id[x]].act = x =>
           x # d /\ exec[Id[x]].status = "completed" /\ exec[Id[x]].act = x
    BY <1>9, <2>2, <2>4
  <2> HIDE DEF T
  <2>6. QED
    BY <1>6, <1>10, <1>11, <2>3, <2>5, ClosedAccounts
<1>13. CASE ~Terminate(id)
  <2>1. UNCHANGED frame
    BY <1>13 DEF ChildCompletes, ChildFails, FlowCompletes
  <2>2. PICK d : d \notin {Dom[b] : b \in Act} \cup Children
    BY NoSetContainsEverything
  <2>3. \A b \in Act \ T : frame'[b] = IF Dom[b] = d THEN Idle ELSE frame[b]
    BY <2>1, <2>2
  <2>4. \A x \in Children : x # d
    BY <2>2
  <2>5. ASSUME NEW x \in Children, Id[x] = id, st = "completed", e.act = x, Flow(x[1])
        PROVE  frame[Step(x, 1)].st = "ok"
    <3>1. ~ChildFails(id)
      <4>1. ChildFails(id) => exec'[id].status = "failed"
        BY <1>3, <1>4 DEF ChildFails
      <4>2. QED
        BY <1>5, <1>8, <2>5, <4>1
    <3>2. FlowCompletes(id)
      BY <1>3, <1>13, <2>5, <3>1 DEF ChildCompletes, HandWritten
    <3>3. QED
      BY <1>3, <2>5, <3>2 DEF FlowCompletes
  <2> HIDE DEF T
  <2>6. ASSUME NEW x \in Children, exec'[Id[x]].status = "completed", exec'[Id[x]].act = x, Flow(x[1])
        PROVE  /\ x # d /\ Step(x, 1) \notin T
               /\ \/ exec[Id[x]].status = "completed" /\ exec[Id[x]].act = x
                  \/ frame[Step(x, 1)].st = "ok"
    <3>1. CASE Id[x] # id
      BY <1>9, <1>11, <2>4, <2>6, <3>1
    <3>2. CASE Id[x] = id
      BY <1>9, <1>11, <2>4, <2>5, <2>6, <3>2
    <3>3. QED
      BY <3>1, <3>2
  <2>7. QED
    BY <1>6, <1>10, <2>3, <2>6, ClosedAccounts
<1>14. QED
  BY <1>12, <1>13

(* Steps of the clock and of the client.                                       *)
LEMMA SameAccounts ==
  ASSUME Accounted, UNCHANGED <<frame, exec>>
  PROVE  Accounted'
BY DEF Accounted, FlowsRan, Tallied, PutItself, CountsOne, SumsUp, CtxsCount, InsCount, Counts, Tracked, Counted, Active, CountedShards

(* The job ends, or is run again.                                              *)
LEMMA MainAccounts ==
  ASSUME Shape, Accounted, Complete \/ Abort \/ Rerun
  PROVE  Accounted'
<1>1. CASE Complete
  BY <1>1, SameAccounts DEF Complete
<1>2. CASE Abort
  BY <1>2, FailsAccounts DEF Abort, Alive
<1>3. CASE Rerun
  <2>1. frame' = [frame EXCEPT ![Root] = Called] /\ UNCHANGED exec
    BY <1>3 DEF Rerun
  <2>2. Root \in Act /\ Root[1] = 1 /\ DOMAIN frame = Act /\ Dom[Root] = Main
    BY RootAct DEF Root, Shape, Frames
  <2>3. frame'[Root] = Called /\ \A b \in Act \ {Root} : frame'[b] = frame[b]
    BY <2>1, <2>2
  <2> DEFINE T == {Root}
  <2>4. \A s \in T : s \in Act /\ Fresh(s) /\ Counts(frame'[s].fc)
    BY <2>2, <2>3, Fresh0, NoOutsCount DEF Fresh
  <2>5. PICK d : d \notin {Dom[b] : b \in Act} \cup Children
    BY NoSetContainsEverything
  <2>6. \A b \in Act \ T : frame'[b] = IF Dom[b] = d THEN Idle ELSE frame[b]
    BY <2>3, <2>5
  <2>7. \A x \in Children : x # d /\ (Flow(x[1]) => Step(x, 1) \notin T)
    BY <2>2, <2>5, TopsApart
  <2>8. \A id \in ChildIds : Counts(exec'[id].in)
    BY <2>1 DEF Accounted, InsCount
  <2> HIDE DEF T
  <2>9. QED
    BY <2>1, <2>4, <2>6, <2>7, <2>8, ClosedAccounts
<1>4. QED
  BY <1>1, <1>2, <1>3

(* The inductive invariant.                                                      *)
Balanced == Threaded /\ Unskipped /\ Accounted

(* Initially nothing was put.                                                  *)
LEMMA InitBalanced == Init => Balanced
<1> SUFFICES ASSUME Init PROVE Balanced
  OBVIOUS
<1>1. /\ \A a \in Act : frame[a] = IF a = Root THEN Called ELSE Idle
      /\ \A id \in ChildIds : exec[id] = Absent
  BY DEF Init
<1>2. Unskipped
  BY <1>1, FreshOutputs DEF Unskipped
<1>3. FlowsRan
  BY <1>1 DEF FlowsRan, ChildIds, Absent
<1>4. \A a \in Act : Tallied(a)
  BY <1>1, Fresh0 DEF Tallied, PutItself, CountsOne, SumsUp
<1>5. CtxsCount /\ InsCount
  <2>1. Counts(NoOuts)
    BY NoOutsCount DEF Idle
  <2>2. QED
    BY <1>1, <2>1, NoOutsCount DEF CtxsCount, InsCount, Absent
<1>6. QED
  BY <1>2, <1>3, <1>4, <1>5, InitThreaded DEF Balanced, Accounted

(* Every step keeps the accounts.                                              *)
LEMMA StepAccounts ==
  ASSUME Threaded, Unskipped, Accounted, [Next]_vars
  PROVE  Accounted'
<1>1. Shape /\ Stack
  BY DEF Threaded
<1>2. \A a \in Active : a \in Act /\ Alive(Dom[a]) /\ (Dom[a] = Main \/ (Dom[a] \in Children /\ Flow(Dom[a][1])))
  BY <1>1, DomFacts DEF Stack, DeadIdle, Active
<1>3. ASSUME NEW a \in Active, Run(a) \/ ExtractFails(a) PROVE Accounted'
  <2>1. Alive(Dom[a]) /\ (Dom[a] = Main \/ (Dom[a] \in Children /\ Flow(Dom[a][1])))
    BY <1>2
  <2>2. CASE ChildErrs(a) \/ ExtractFails(a)
    BY <1>1, <2>1, <2>2, FailsAccounts DEF ChildErrs, ExtractFails
  <2>3. CASE StartPipeline(a) \/ StepPipeline(a)
    BY <1>1, <2>1, <2>3, StartPipelineAccounts, StepPipelineAccounts
  <2>4. CASE StartParallel(a) \/ \E b \in Subs(a) : JoinParallel(a, b)
    BY <1>1, <2>1, <2>4, StartParallelAccounts, JoinParallelAccounts
  <2>5. CASE StartShard(a) \/ Partitioned(a) \/ StepShard(a)
    BY <1>1, <2>1, <2>5, StartShardAccounts, PartitionedAccounts, StepShardAccounts
  <2>6. CASE ScheduleActivity(a) \/ StartChild(a) \/ ChildReturns(a)
    BY <1>1, <2>1, <2>6, ScheduleActivityAccounts, StartChildAccounts, ChildReturnsAccounts
  <2>7. QED
    BY <1>3, <2>2, <2>3, <2>4, <2>5, <2>6 DEF Run
<1>4. ASSUME NEW t \in tasks, ActivityCompletes(t) \/ ActivityFails(t) PROVE Accounted'
  <2>1. PICK a \in Act : a = t.act /\ Mode(a[1]) = "activity"
    BY <1>1 DEF Shape, Tasks
  <2>2. CASE ~Awaited(t)
    BY <1>4, <2>2, SameAccounts DEF ActivityCompletes, ActivityFails, ActivityFailsWith
  <2>3. CASE Awaited(t)
    <3>1. a \in Active /\ Alive(Dom[a]) /\ (Dom[a] = Main \/ (Dom[a] \in Children /\ Flow(Dom[a][1])))
      BY <1>2, <2>1, <2>3 DEF Awaited, At, Active
    <3>2. CASE ActivityCompletes(t)
      <4>1. Returns(a, Out) /\ UNCHANGED exec
        BY <2>1, <2>3, <3>2 DEF ActivityCompletes
      <4>2. QED
        BY <1>1, <2>1, <3>1, <4>1, OutCounts, ReturnsAccounts DEF Leaf
    <3>3. CASE ActivityFails(t)
      <4>1. Fails(Dom[a])
        BY <2>1, <2>3, <3>3 DEF ActivityFails, ActivityFailsWith
      <4>2. QED
        BY <1>1, <3>1, <4>1, FailsAccounts
    <3>4. QED
      BY <1>4, <3>2, <3>3
  <2>4. QED
    BY <2>2, <2>3
<1>5. ASSUME NEW id \in ChildIds, ChildCompletes(id) \/ ChildFails(id) \/ FlowCompletes(id) \/ Terminate(id)
      PROVE  Accounted'
  BY <1>1, <1>5, ChildEndsAccounts
<1>6. ASSUME Complete \/ Abort \/ Rerun PROVE Accounted'
  BY <1>1, <1>6, MainAccounts
<1>7. ASSUME UNCHANGED vars PROVE Accounted'
  BY <1>7, SameAccounts DEF vars
<1>8. ASSUME NEW d \in Children, FlowTimesOut(d) PROVE Accounted'
  BY <1>1, <1>8, OutOfTime, FailsAccounts
<1>9. QED
  BY <1>3, <1>4, <1>5, <1>6, <1>7, <1>8 DEF Next

(* Every partition of a shard is in its aggregate, as processed or as skipped,   *)
(* if the handler is an activity, a hand-written child or a flow over one        *)
(* activity, in every FlowCtx the aggregate gets into (phase.go 561 to 578):     *)
(* ShardAccounts, for every tree the resume protocol is sound for, any client,   *)
(* and whatever fails.                                                           *)
THEOREM PartitionsAreCounted == Spec => []ShardAccounts
<1>1. Balanced => ShardAccounts
  BY DEF Balanced, Accounted, CtxsCount, Counts, Tracked, ShardAccounts
<1>2. Balanced /\ [Next]_vars => Balanced'
  <2> SUFFICES ASSUME Balanced, [Next]_vars PROVE Balanced'
    OBVIOUS
  <2>1. Threaded' /\ Unskipped'
    BY StepThreaded, UnskippedKeeps DEF Balanced, Threaded
  <2>2. Accounted'
    BY StepAccounts DEF Balanced
  <2>3. QED
    BY <2>1, <2>2 DEF Balanced
<1>3. QED
  BY <1>1, <1>2, InitBalanced, PTL DEF Spec

-------------------------------------------------------------------------------
(* The total of a composite handler.                                             *)

(* An element of s; the partial sums of w, as the fold of the community modules  *)
(* computes them; the subsets of S of at most k elements.                        *)
One(s) == CHOOSE x \in s : TRUE
AddsUp(g, w, S) == g = [s \in SUBSET S |-> IF s = {} THEN 0 ELSE w[One(s)] + g[s \ {One(s)}]]
Small(S, k) == {s \in SUBSET S : Cardinality(s) <= k}

(* Taking one element out of a set leaves a smaller one.                      *)
LEMMA OneLess ==
  ASSUME NEW S, IsFiniteSet(S), NEW k \in Nat, NEW s \in Small(S, k + 1), s # {}
  PROVE  One(s) \in S /\ s \ {One(s)} \in Small(S, k)
<1>1. PICK x : x = One(s)
  OBVIOUS
<1>2. x \in s
  BY <1>1 DEF One
<1>3. s \in SUBSET S /\ Cardinality(s) <= k + 1
  BY DEF Small
<1>4. IsFiniteSet(s)
  BY <1>3, FS_Subset
<1>5. Cardinality(s) \in Nat /\ Cardinality(s \ {x}) = Cardinality(s) - 1
  BY <1>2, <1>4, FS_CardinalityType, FS_RemoveElement
<1>6. QED
  BY <1>1, <1>2, <1>3, <1>5 DEF Small

(* The subsets of a finite set are small for some bound.                      *)
LEMMA SmallAll ==
  ASSUME NEW S, IsFiniteSet(S)
  PROVE  \E k \in Nat : Small(S, k) = SUBSET S
<1>1. Cardinality(S) \in Nat /\ \A s \in SUBSET S : Cardinality(s) <= Cardinality(S)
  BY FS_CardinalityType, FS_Subset
<1>2. Small(S, Cardinality(S)) = SUBSET S
  BY <1>1 DEF Small
<1>3. QED
  BY <1>1, <1>2

(* Only the empty set has no more than no elements.                           *)
LEMMA SmallNone ==
  ASSUME NEW S, IsFiniteSet(S), NEW s \in Small(S, 0)
  PROVE  s = {}
<1>1. s \in SUBSET S /\ Cardinality(s) <= 0
  BY DEF Small
<1>2. IsFiniteSet(s)
  BY <1>1, FS_Subset
<1>3. Cardinality(s) = 0
  BY <1>1, <1>2, FS_CardinalityType
<1>4. QED
  BY <1>2, <1>3, FS_EmptySet

(* A larger bound lets in more of the subsets.                                *)
LEMMA SmallMore ==
  ASSUME NEW S, IsFiniteSet(S), NEW k \in Nat
  PROVE  Small(S, k) \subseteq Small(S, k + 1)
<1> SUFFICES ASSUME NEW s \in Small(S, k) PROVE s \in Small(S, k + 1)
  OBVIOUS
<1>1. s \in SUBSET S /\ Cardinality(s) <= k
  BY DEF Small
<1>2. Cardinality(s) \in Nat
  BY <1>1, FS_Subset, FS_CardinalityType
<1>3. QED
  BY <1>1, <1>2 DEF Small

(* The sum over a finite set is defined, by its size ...                         *)
LEMMA SumDefined ==
  ASSUME NEW S, IsFiniteSet(S), NEW w
  PROVE  \E g : AddsUp(g, w, S)
<1> DEFINE Def(g, k) == g = [s \in Small(S, k) |-> IF s = {} THEN 0 ELSE w[One(s)] + g[s \ {One(s)}]]
           N == {k \in Nat : \E g : Def(g, k)}
<1>1. 0 \in N
  <2>1. Def([s \in Small(S, 0) |-> 0], 0)
    BY SmallNone
  <2>2. QED
    BY <2>1
<1>2. ASSUME NEW k \in Nat, k \in N PROVE k + 1 \in N
  <2>1. PICK f : Def(f, k)
    BY <1>2
  <2> DEFINE g == [s \in Small(S, k + 1) |-> IF s = {} THEN 0 ELSE w[One(s)] + f[s \ {One(s)}]]
  <2>2. ASSUME NEW s \in Small(S, k) PROVE g[s] = f[s]
    BY <2>1, SmallMore
  <2>3. ASSUME NEW s \in Small(S, k + 1)
        PROVE  g[s] = IF s = {} THEN 0 ELSE w[One(s)] + g[s \ {One(s)}]
    <3>1. s # {} => s \ {One(s)} \in Small(S, k)
      BY OneLess
    <3>2. s # {} => g[s \ {One(s)}] = f[s \ {One(s)}]
      BY <2>2, <3>1
    <3>3. QED
      BY <3>2
  <2>4. g = [s \in Small(S, k + 1) |-> IF s = {} THEN 0 ELSE w[One(s)] + g[s \ {One(s)}]]
    BY <2>3
  <2> HIDE DEF g
  <2>5. QED
    BY <2>4
<1>3. Nat \subseteq N
  <2> HIDE DEF N
  <2>1. QED
    BY <1>1, <1>2, NatSteps
<1>4. PICK k \in Nat : Small(S, k) = SUBSET S
  BY SmallAll
<1>5. QED
  BY <1>3, <1>4 DEF AddsUp

(* The sum of the n of the outputs of f over S.                                  *)
Total(f, S) == MapThenSumSet(LAMBDA x : f[x].n, S)

(* ... and a sum of numbers is one.                                              *)
LEMMA SumIsNat ==
  ASSUME NEW S, IsFiniteSet(S), NEW w, \A x \in S : w[x] \in Nat, NEW g, AddsUp(g, w, S)
  PROVE  g[S] \in Nat
<1> DEFINE N == {k \in Nat : \A s \in Small(S, k) : g[s] \in Nat}
<1>1. 0 \in N
  BY SmallNone DEF AddsUp, Small
<1>2. ASSUME NEW k \in Nat, k \in N PROVE k + 1 \in N
  <2> SUFFICES ASSUME NEW s \in Small(S, k + 1) PROVE g[s] \in Nat
    OBVIOUS
  <2>1. g[s] = IF s = {} THEN 0 ELSE w[One(s)] + g[s \ {One(s)}]
    BY DEF AddsUp, Small
  <2>2. s # {} => One(s) \in S /\ g[s \ {One(s)}] \in Nat
    BY <1>2, OneLess
  <2>3. QED
    BY <2>1, <2>2
<1>3. Nat \subseteq N
  <2> HIDE DEF N
  <2>1. QED
    BY <1>1, <1>2, NatSteps
<1>4. PICK k \in Nat : Small(S, k) = SUBSET S
  BY SmallAll
<1>5. QED
  BY <1>3, <1>4

(* The total of natural numbers over a finite set is one.                     *)
LEMMA TotalIsNat ==
  ASSUME NEW f, NEW S, IsFiniteSet(S), \A x \in S : f[x].n \in Nat
  PROVE  Total(f, S) \in Nat
<1> DEFINE w == [x \in S |-> f[x].n]
           Eq(g) == g = [s \in SUBSET S |-> IF s = {} THEN 0 ELSE f[One(s)].n + g[s \ {One(s)}]]
<1>1. Total(f, S) = (CHOOSE g : Eq(g))[S]
  BY DEF Total, MapThenSumSet, MapThenFoldSet, One
<1>2. ASSUME NEW s \in SUBSET S, s # {} PROVE w[One(s)] = f[One(s)].n
  <2>1. One(s) \in S
    BY <1>2 DEF One
  <2>2. QED
    BY <2>1
<1>3. \A g : AddsUp(g, w, S) <=> Eq(g)
  <2> SUFFICES ASSUME NEW g PROVE AddsUp(g, w, S) <=> Eq(g)
    OBVIOUS
  <2>1. [s \in SUBSET S |-> IF s = {} THEN 0 ELSE w[One(s)] + g[s \ {One(s)}]]
        = [s \in SUBSET S |-> IF s = {} THEN 0 ELSE f[One(s)].n + g[s \ {One(s)}]]
    <3> HIDE DEF w
    <3>1. QED
      BY <1>2
  <2>2. QED
    BY <2>1 DEF AddsUp
<1>4. \E g : AddsUp(g, w, S)
  BY SumDefined
<1>5. PICK h : h = CHOOSE g : Eq(g)
  OBVIOUS
<1>6. AddsUp(h, w, S)
  <2> HIDE DEF w, Eq
  <2>1. QED
    BY <1>3, <1>4, <1>5
<1>7. \A x \in S : w[x] \in Nat
  OBVIOUS
<1>8. h[S] \in Nat
  <2> HIDE DEF w, Eq
  <2>1. QED
    BY <1>6, <1>7, SumIsNat
<1>9. QED
  BY <1>1, <1>5, <1>8

(* The names in a FlowCtx are finitely many.                                     *)
LEMMA CtxFinite ==
  ASSUME NEW fc, IsCtx(fc)
  PROVE  IsFiniteSet(DOMAIN fc) /\ \A x \in DOMAIN fc : fc[x] \in Vals \ {None, Skipped}
<1>1. DOMAIN fc \subseteq Names /\ \A x \in DOMAIN fc : fc[x] \in Vals \ {None, Skipped}
  BY DEF IsCtx, ToSet
<1>2. IsFiniteSet(Node)
  BY RootNode, FS_Interval DEF Node
<1>3. [n \in Node |-> Name(n)] \in Surjection(Node, Names)
  BY DEF Surjection, Names
<1>4. IsFiniteSet(Names)
  BY <1>2, <1>3, FS_Surjection
<1>5. QED
  BY <1>1, <1>4, FS_Subset

-------------------------------------------------------------------------------
(* Types.                                                                        *)

(* The outputs that the actions put.                                          *)
LEMMA ValsMade ==
  /\ None \in Vals /\ Skipped \in Vals /\ Out \in Vals \ {None, Skipped}
  /\ Val("mark") \in Vals \ {None, Skipped} /\ Val("map") \in Vals \ {None, Skipped}
  /\ \A k, s \in Nat : [tag |-> "agg", n |-> k, skips |-> s] \in Vals \ {None, Skipped}
BY DEF Vals, Out, None, Skipped, Val

(* A merge of two FlowCtxs is a FlowCtx.                                      *)
LEMMA OverCtx ==
  ASSUME NEW fc, NEW sub, IsCtx(fc), IsCtx(sub)
  PROVE  IsCtx(Over(fc, sub))
<1>1. DOMAIN Over(fc, sub) = DOMAIN fc \cup DOMAIN sub
  BY DEF Over
<1>2. \A x \in DOMAIN Over(fc, sub) : Over(fc, sub)[x] = IF x \in DOMAIN sub THEN sub[x] ELSE fc[x]
  BY DEF Over
<1>3. QED
  BY <1>1, <1>2 DEF IsCtx, ToSet

(* An output put into a FlowCtx leaves a FlowCtx.                             *)
LEMMA PutCtx ==
  ASSUME NEW fc, IsCtx(fc), NEW n \in Node, NEW v \in Vals \ {None, Skipped}
  PROVE  IsCtx(Put(fc, n, v))
<1>1. PICK one : one = [x \in {Name(n)} |-> v]
  OBVIOUS
<1>2. IsCtx(one)
  BY <1>1 DEF IsCtx, ToSet, Names
<1>3. QED
  BY <1>1, <1>2, OverCtx DEF Put

(* The frames of a phase that is idle, or just called.                        *)
LEMMA FramesMade ==
  /\ IsCtx(NoOuts) /\ IsFrame(Idle) /\ IsFrame(Called)
  /\ \A ctx : IsCtx(ctx) => IsFrame(CalledWith(ctx))
<1>1. IsCtx(NoOuts)
  BY DEF IsCtx, NoOuts, ToSet
<1>2. QED
  BY <1>1, ValsMade DEF IsFrame, Idle, Called, CalledWith

(* Every frame and execution has its type.                                       *)
Framed == \A a \in Act : IsFrame(frame[a])
Launched == \A id \in ChildIds : IsExec(exec[id])

(* The FlowCtx a phase works with.                                               *)
LEMMA CtxTyped ==
  ASSUME Framed, NEW a \in Act
  PROVE  IsCtx(Ctx(a))
BY OwnFacts DEF Framed, IsFrame, Ctx

(* A phase that puts an output and returns.                                   *)
LEMMA PutTyped ==
  ASSUME Frames, Framed, NEW a \in Act, NEW v \in Vals \ {None, Skipped},
         frame' = [frame EXCEPT ![a].st = "ok", ![Own[a]].fc = Put(@, a[1], v)]
  PROVE  Framed'
<1>1. DOMAIN frame = Act /\ \A b \in Act : DOMAIN frame[b] = Fields
  BY DEF Frames
<1>2. PICK o \in Act : o = Own[a]
  BY OwnFacts
<1>3. PICK fc : fc = Put(frame[o].fc, a[1], v)
  OBVIOUS
<1>4. IsCtx(fc)
  BY <1>3, PutCtx, ActFacts DEF Framed, IsFrame
<1>5. frame' = [frame EXCEPT ![a].st = "ok", ![o].fc = fc]
  BY <1>1, <1>2, <1>3 DEF Fields
<1>6. ASSUME NEW b \in Act PROVE IsFrame(frame'[b])
  BY <1>1, <1>2, <1>4, <1>5 DEF Framed, IsFrame, Fields
<1>7. QED
  BY <1>6 DEF Framed

(* A leaf that returns: to a shard, or into the FlowCtx of its caller.        *)
LEMMA ReturnsTyped ==
  ASSUME Frames, Framed, NEW a \in Act, NEW v \in Vals, Returns(a, v), v # None
  PROVE  Framed'
<1>1. DOMAIN frame = Act /\ \A b \in Act : DOMAIN frame[b] = Fields
  BY DEF Frames
<1>2. CASE Handler(a[1]) \/ Partitioner(a[1])
  <2>1. frame' = [frame EXCEPT ![a].st = "ok", ![a].val = v]
    BY <1>2 DEF Returns
  <2>2. ASSUME NEW b \in Act PROVE IsFrame(frame'[b])
    BY <1>1, <2>1 DEF Framed, IsFrame, Fields
  <2>3. QED
    BY <2>2 DEF Framed
<1>3. CASE ~(Handler(a[1]) \/ Partitioner(a[1]))
  <2>1. PICK w : w = (IF v = Skipped THEN Val("mark") ELSE v)
    OBVIOUS
  <2>2. w \in Vals \ {None, Skipped}
    BY <2>1, ValsMade
  <2>3. frame' = [frame EXCEPT ![a].st = "ok", ![Own[a]].fc = Put(@, a[1], w)]
    BY <1>3, <2>1 DEF Returns
  <2>4. QED
    BY <2>2, <2>3, PutTyped
<1>4. QED
  BY <1>2, <1>3

(* A shard that puts its aggregate.                                           *)
LEMMA PutAggTyped ==
  ASSUME Frames, Framed, NEW a \in Act, NEW k \in Nat, NEW s \in Nat, PutAgg(a, k, s)
  PROVE  Framed'
BY ValsMade, PutTyped DEF PutAgg

(* The frames of S are what they should be, the others as they were.             *)
LEMMA OthersTyped ==
  ASSUME Framed, NEW S, \A b \in S \cap Act : IsFrame(frame'[b]), \A b \in Act \ S : frame'[b] = frame[b]
  PROVE  Framed'
<1>1. ASSUME NEW b \in Act PROVE IsFrame(frame'[b])
  BY DEF Framed
<1>2. QED
  BY <1>1 DEF Framed

(* A step of a pipeline is another phase.                                     *)
LEMMA StepIn ==
  ASSUME NEW a \in Act, Mode(a[1]) # "shard", NEW j \in 1..Len(Tree[a[1]].steps)
  PROVE  Step(a, j) \in Act /\ Step(a, j) # a
<1>1. Step(a, j) \in Calls(a)
  BY StepCalls
<1>2. QED
  BY <1>1, CallFacts

(* A pipeline that starts,                                                    *)
LEMMA StartPipelineTyped ==
  ASSUME Frames, Framed, NEW a \in Act, StartPipeline(a)
  PROVE  Framed'
<1>1. DOMAIN frame = Act /\ DOMAIN frame[a] = Fields /\ IsFrame(frame[a]) /\ Mode(a[1]) = "pipeline"
  BY DEF Frames, Framed, StartPipeline
<1>2. CASE Kids(a[1]) = {}
  <2>1. frame' = [frame EXCEPT ![a].st = "ok"]
    BY <1>2 DEF StartPipeline
  <2>2. IsFrame(frame'[a]) /\ \A b \in Act \ {a} : frame'[b] = frame[b]
    BY <1>1, <2>1 DEF IsFrame, Fields
  <2>3. QED
    BY <2>2, OthersTyped
<1>3. CASE Kids(a[1]) # {}
  <2>1. PICK c : c = Step(a, 1)
    OBVIOUS
  <2>2. c \in Act /\ c # a
    <3>1. Len(Tree[a[1]].steps) \in Nat
      BY StepCalls
    <3>2. 1 \in 1..Len(Tree[a[1]].steps)
      BY <1>3, <3>1, ActFacts, StepFacts
    <3>3. QED
      BY <1>1, <2>1, <3>2, StepIn
  <2>3. frame' = [frame EXCEPT ![a].st = "busy", ![a].at = 1, ![c] = Called]
    BY <1>3, <2>1 DEF StartPipeline
  <2>4. frame'[c] = Called /\ \A b \in Act \ {a, c} : frame'[b] = frame[b]
    BY <1>1, <2>2, <2>3
  <2>5. IsFrame(frame'[a])
    BY <1>1, <2>2, <2>3 DEF IsFrame, Fields
  <2>6. QED
    BY <2>4, <2>5, FramesMade, OthersTyped
<1>4. QED
  BY <1>2, <1>3

(* or goes on to its next step.                                               *)
LEMMA StepPipelineTyped ==
  ASSUME Frames, Framed, NEW a \in Act, StepPipeline(a)
  PROVE  Framed'
<1>1. DOMAIN frame = Act /\ DOMAIN frame[a] = Fields /\ IsFrame(frame[a]) /\ Mode(a[1]) = "pipeline"
  BY DEF Frames, Framed, StepPipeline, StepPipelineTo
<1>2. PICK k : k = frame[a].at + 1
  OBVIOUS
<1>3. k \in Nat /\ k >= 1 /\ Len(Tree[a[1]].steps) \in Nat
  BY <1>1, <1>2, StepCalls DEF IsFrame
<1>4. CASE k > Len(Tree[a[1]].steps)
  <2>1. frame' = [frame EXCEPT ![a].st = "ok"]
    BY <1>2, <1>4 DEF StepPipeline, StepPipelineTo
  <2>2. IsFrame(frame'[a]) /\ \A b \in Act \ {a} : frame'[b] = frame[b]
    BY <1>1, <2>1 DEF IsFrame, Fields
  <2>3. QED
    BY <2>2, OthersTyped
<1>5. CASE ~(k > Len(Tree[a[1]].steps))
  <2>1. PICK c : c = Step(a, k)
    OBVIOUS
  <2>2. c \in Act /\ c # a
    <3>1. k \in 1..Len(Tree[a[1]].steps)
      BY <1>3, <1>5
    <3>2. QED
      BY <1>1, <2>1, <3>1, StepIn
  <2>3. frame' = [frame EXCEPT ![a].at = k, ![c] = Called]
    BY <1>2, <1>5, <2>1 DEF StepPipeline, StepPipelineTo
  <2>4. frame'[c] = Called /\ \A b \in Act \ {a, c} : frame'[b] = frame[b]
    BY <1>1, <2>2, <2>3
  <2>5. IsFrame(frame'[a])
    BY <1>1, <1>3, <2>2, <2>3 DEF IsFrame, Fields
  <2>6. QED
    BY <2>4, <2>5, FramesMade, OthersTyped
<1>6. QED
  BY <1>4, <1>5

(* A parallel that starts its branches,                                       *)
LEMMA StartParallelTyped ==
  ASSUME Frames, Framed, NEW a \in Act, StartParallel(a)
  PROVE  Framed'
<1>1. DOMAIN frame = Act /\ DOMAIN frame[a] = Fields /\ IsFrame(frame[a])
  BY DEF Frames, Framed
<1>2. PICK ctx : ctx = CalledWith(Ctx(a))
  OBVIOUS
<1>3. IsFrame(ctx)
  BY <1>2, CtxTyped, FramesMade
<1>4. PICK st : st = IF Subs(a) = {} THEN "ok" ELSE "busy"
  OBVIOUS
<1>5. PICK f : f = [frame[a] EXCEPT !.st = st]
  OBVIOUS
<1>6. IsFrame(f)
  BY <1>1, <1>4, <1>5 DEF IsFrame, Fields
<1>7. \A b \in Act : frame'[b] = IF b \in Subs(a) THEN ctx ELSE IF b # a THEN frame[b] ELSE f
  BY <1>2, <1>4, <1>5 DEF StartParallel
<1>8. \A b \in Act : IsFrame(frame'[b])
  BY <1>3, <1>6, <1>7 DEF Framed
<1>9. QED
  BY <1>8 DEF Framed

(* or takes in the result of one.                                             *)
LEMMA JoinParallelTyped ==
  ASSUME Frames, Framed, NEW a \in Act, NEW b \in Subs(a), JoinParallel(a, b)
  PROVE  Framed'
<1>1. DOMAIN frame = Act /\ (\A x \in Act : DOMAIN frame[x] = Fields /\ IsFrame(frame[x])) /\ Mode(a[1]) = "parallel"
  BY DEF Frames, Framed, JoinParallel, JoinThen
<1>2. b \in Act /\ b # a
  BY <1>1, StepCalls, CallFacts
<1>3. PICK o \in Act : o = Own[a] /\ AtOrBelow(a, o)
  BY OwnFacts
<1>4. b # o
  BY <1>1, <1>2, <1>3, StepCalls, CallFacts, Antisymmetric
<1>5. PICK fc : fc = Merge(frame[o].fc, frame[b].fc)
  OBVIOUS
<1>6. IsCtx(fc)
  BY <1>1, <1>2, <1>5, OverCtx DEF Merge, IsFrame
<1>7. PICK st \in {"ok", "busy"} :
        frame' = [frame EXCEPT ![Own[a]].fc = Merge(@, frame[b].fc), ![b] = Idle, ![a].st = st]
  BY DEF JoinParallel, JoinThen
<1>8. frame' = [frame EXCEPT ![o].fc = fc, ![b] = Idle, ![a].st = st]
  BY <1>1, <1>3, <1>5, <1>7 DEF Fields
<1>9. frame'[b] = Idle /\ \A x \in Act \ {a, b, o} : frame'[x] = frame[x]
  BY <1>1, <1>2, <1>4, <1>8
<1>10. ASSUME NEW x \in {a, o} PROVE IsFrame(frame'[x])
  BY <1>1, <1>2, <1>3, <1>4, <1>6, <1>8, <1>10 DEF IsFrame, Fields
<1>11. QED
  BY <1>9, <1>10, FramesMade, OthersTyped

(* A shard that calls its partitioner,                                        *)
LEMMA StartShardTyped ==
  ASSUME Frames, Framed, NEW a \in Act, StartShard(a)
  PROVE  Framed'
<1>1. DOMAIN frame = Act /\ DOMAIN frame[a] = Fields /\ IsFrame(frame[a]) /\ Mode(a[1]) = "shard"
  BY DEF Frames, Framed, StartShard, IsShard
<1>2. PICK c : c = Step(a, 1)
  OBVIOUS
<1>3. c \in Act /\ c # a
  BY <1>1, <1>2, ShardCalls
<1>4. frame' = [frame EXCEPT ![a].st = "busy", ![a].at = 0, ![c] = Called]
  BY <1>2 DEF StartShard
<1>5. frame'[c] = Called /\ \A b \in Act \ {a, c} : frame'[b] = frame[b]
  BY <1>1, <1>3, <1>4
<1>6. IsFrame(frame'[a])
  BY <1>1, <1>3, <1>4 DEF IsFrame, Fields
<1>7. QED
  BY <1>5, <1>6, FramesMade, OthersTyped

(* has its partitions,                                                        *)
LEMMA PartitionedTyped ==
  ASSUME Frames, Framed, NEW a \in Act, Partitioned(a)
  PROVE  Framed'
<1>1. DOMAIN frame = Act /\ DOMAIN frame[a] = Fields /\ IsFrame(frame[a]) /\ Mode(a[1]) = "shard" /\ Partitions(a) \in Nat
  BY ShardCalls DEF Frames, Framed, Partitioned, IsShard
<1>2. CASE PutAgg(a, 0, 0)
  BY <1>2, PutAggTyped
<1>3. CASE ~PutAgg(a, 0, 0)
  <2>1. PICK h, ctx : h = HandlerOf(a, 1) /\ ctx = CalledWith(Ctx(a))
    OBVIOUS
  <2>2. Partitions(a) # 0 /\ frame' = [frame EXCEPT ![a].at = 1, ![h] = ctx]
    BY <1>3, <2>1 DEF Partitioned
  <2>3. h \in Act /\ h # a
    <3>1. 1 \in 1..Partitions(a)
      BY <1>1, <2>2
    <3>2. QED
      BY <1>1, <2>1, <3>1, ShardCalls
  <2>4. IsFrame(ctx)
    BY <2>1, CtxTyped, FramesMade
  <2>5. frame'[h] = ctx /\ \A b \in Act \ {a, h} : frame'[b] = frame[b]
    BY <1>1, <2>2, <2>3
  <2>6. IsFrame(frame'[a])
    BY <1>1, <2>2, <2>3 DEF IsFrame, Fields
  <2>7. QED
    BY <2>4, <2>5, <2>6, OthersTyped
<1>4. QED
  BY <1>2, <1>3

(* What a handler adds is a number.                                              *)
LEMMA GainTyped ==
  ASSUME Framed, NEW h \in Act
  PROVE  Gain(h) \in Nat /\ SkipGain(h) \in Nat
<1>1. PICK f : f = frame[h]
  OBVIOUS
<1>2. IsFrame(f)
  BY <1>1 DEF Framed
<1>3. CASE Leaf(h[1])
  BY <1>1, <1>2, <1>3 DEF Gain, SkipGain, IsFrame, Vals
<1>4. CASE ~Leaf(h[1])
  <2>1. PICK fc : fc = f.fc
    OBVIOUS
  <2>2. IsFiniteSet(DOMAIN fc) /\ \A x \in DOMAIN fc : fc[x].n \in Nat
    BY <1>2, <2>1, CtxFinite DEF IsFrame, Vals
  <2>3. Total(fc, DOMAIN fc) \in Nat
    BY <2>2, TotalIsNat
  <2>4. Gain(h) = Total(fc, DOMAIN fc)
    <3>1. Gain(h) = Total(frame[h].fc, DOMAIN frame[h].fc)
      BY <1>4 DEF Gain, Total, MapThenSumSet, MapThenFoldSet
    <3>2. QED
      BY <1>1, <2>1, <3>1
  <2>5. QED
    BY <2>3, <2>4 DEF SkipGain
<1>5. QED
  BY <1>3, <1>4

(* or is through with one of them: the sums stay numbers.                     *)
LEMMA StepShardTyped ==
  ASSUME Shape, Stack, Framed, NEW a \in Act, StepShard(a)
  PROVE  Framed'
<1>1. PICK i, h, P : i = frame[a].at /\ h = HandlerOf(a, i) /\ P = Partitions(a)
  OBVIOUS
<1>2. Mode(a[1]) = "shard" /\ frame[a].st = "busy" /\ i > 0 /\ IsFrame(frame[a])
  BY <1>1 DEF StepShard, StepShardWith, IsShard, At, Framed
<1>3. DOMAIN frame = Act /\ \A b \in Act : DOMAIN frame[b] = Fields
  BY DEF Shape, Frames
<1>4. P \in Nat /\ i \in 1..P
  <2>1. P \in Nat
    BY <1>1, <1>2, ShardCalls
  <2>2. i \in 0..P
    BY <1>1, <1>2 DEF Stack, AtStep, Busy
  <2>3. QED
    BY <1>2, <2>1, <2>2
<1>5. h \in Calls(a) /\ h \in Act /\ h # a
  BY <1>1, <1>2, <1>4, ShardCalls
<1>6. PICK sum, skips : sum = frame[a].sum + Gain(h) /\ skips = frame[a].skips + SkipGain(h)
  OBVIOUS
<1>7. sum \in Nat /\ skips \in Nat
  BY <1>2, <1>5, <1>6, GainTyped DEF IsFrame
<1>8. CASE i = P
  <2>1. PutAgg(a, sum, skips)
    BY <1>1, <1>6, <1>8 DEF StepShard, StepShardWith
  <2>2. QED
    BY <1>7, <2>1, PutAggTyped DEF Shape
<1>9. CASE i # P
  <2>1. PICK g, j : g = HandlerOf(a, i + 1) /\ j = i + 1
    OBVIOUS
  <2>2. PICK o \in Act : o = Own[a] /\ AtOrBelow(a, o)
    BY OwnFacts
  <2>3. PICK fc, ctx : fc = frame[o].fc /\ ctx = CalledWith(fc)
    OBVIOUS
  <2>4. frame' = [frame EXCEPT ![a].at = j, ![a].sum = sum, ![a].skips = skips,
                               ![o].fc = fc, ![h] = Idle, ![g] = ctx]
    BY <1>1, <1>6, <1>9, <2>1, <2>2, <2>3 DEF StepShard, StepShardWith, Ctx
  <2>5. g \in Calls(a) /\ g \in Act /\ g # a
    <3>1. i + 1 \in 1..P
      BY <1>4, <1>9
    <3>2. QED
      BY <1>1, <1>2, <2>1, <3>1, ShardCalls
  <2>6. o \notin {h, g}
    BY <1>5, <2>2, <2>5, CallFacts, Antisymmetric
  <2>7. IsFrame(ctx)
    BY <2>2, <2>3, FramesMade DEF Framed, IsFrame
  <2>8. IsFrame(frame'[g]) /\ IsFrame(frame'[h])
    <3>1. frame'[g] = ctx /\ (frame'[h] = Idle \/ h = g)
      BY <1>3, <1>5, <2>2, <2>4, <2>5, <2>6
    <3>2. QED
      BY <2>7, <3>1, FramesMade
  <2>9. ASSUME NEW b \in {a, o} PROVE IsFrame(frame'[b])
    <3>1. j \in Nat
      BY <1>4, <2>1
    <3>2. IsFrame(frame[a]) /\ IsFrame(frame[o])
      BY <2>2 DEF Framed
    <3>3. QED
      BY <1>3, <1>5, <1>7, <2>2, <2>3, <2>4, <2>5, <2>6, <2>9, <3>1, <3>2 DEF IsFrame, Fields
  <2>10. \A b \in Act \ {a, h, g, o} : frame'[b] = frame[b]
    BY <1>3, <1>5, <2>2, <2>4, <2>5, <2>6
  <2>11. QED
    BY <2>8, <2>9, <2>10, OthersTyped
<1>10. QED
  BY <1>8, <1>9

(* An activity that is scheduled.                                             *)
LEMMA ScheduleActivityTyped ==
  ASSUME Frames, Framed, NEW a \in Act, ScheduleActivity(a)
  PROVE  Framed'
<1>1. DOMAIN frame = Act /\ DOMAIN frame[a] = Fields /\ IsFrame(frame[a])
  BY DEF Frames, Framed
<1>2. frame' = [frame EXCEPT ![a].st = "busy"]
  BY DEF ScheduleActivity
<1>3. IsFrame(frame'[a]) /\ \A b \in Act \ {a} : frame'[b] = frame[b]
  BY <1>1, <1>2 DEF IsFrame, Fields
<1>4. QED
  BY <1>3, OthersTyped

(* An execution that is another's but for its status or its epoch.               *)
LEMMA ExecTyped ==
  ASSUME Execs, Launched, NEW id \in ChildIds, NEW r, IsExec(r), exec' = [exec EXCEPT ![id] = r]
  PROVE  Launched'
<1>1. exec'[id] = r /\ \A i \in ChildIds \ {id} : exec'[i] = exec[i]
  BY DEF Execs
<1>2. ASSUME NEW i \in ChildIds PROVE IsExec(exec'[i])
  BY <1>1 DEF Launched
<1>3. QED
  BY <1>2 DEF Launched

(* A child workflow that starts, or is skipped.                               *)
LEMMA StartChildTyped ==
  ASSUME Shape, Framed, Launched, NEW a \in Act, Alive(Dom[a]), StartChild(a)
  PROVE  Framed' /\ Launched'
<1>1. Mode(a[1]) = "workflow" /\ a \in Children /\ Id[a] \in ChildIds
  BY DEF StartChild, StartChildUnder, Children, ChildIds
<1>2. DOMAIN frame = Act /\ DOMAIN frame[a] = Fields /\ IsFrame(frame[a])
  BY DEF Shape, Frames, Framed
<1>3. CASE exec[Id[a]].status \in {"running", "completed"}
  <2>1. Returns(a, Skipped) /\ UNCHANGED exec
    BY <1>3 DEF StartChild, StartChildUnder, SkipChild
  <2>2. Skipped # None
    BY DEF Skipped, None, Val
  <2>3. Framed'
    BY <2>1, <2>2, ValsMade, ReturnsTyped DEF Shape
  <2>4. QED
    BY <2>1, <2>3 DEF Launched
<1>4. CASE exec[Id[a]].status \notin {"running", "completed"}
  <2>1. PICK ctx, e : ctx = Ctx(a) /\ e = Append(Epoch(Dom[a]), 1)
    OBVIOUS
  <2>2. PICK r : r = [status |-> "running", act |-> a, in |-> ctx, epoch |-> e]
    OBVIOUS
  <2>3. PICK call, f : call = CalledWith(ctx) /\ f = [frame[a] EXCEPT !.st = "busy"]
    OBVIOUS
  <2>4. /\ exec' = [exec EXCEPT ![Id[a]] = r]
        /\ frame' = [b \in Act |-> IF b = a THEN f ELSE IF b \in Subs(a) THEN call ELSE frame[b]]
    BY <1>4, <2>1, <2>2, <2>3 DEF StartChild, StartChildUnder
  <2>5. IsCtx(ctx) /\ IsFrame(call)
    BY <2>1, <2>3, CtxTyped, FramesMade
  <2>6. IsFrame(f)
    BY <1>2, <2>3 DEF IsFrame, Fields
  <2>7. e \in Seq(Nat)
    BY <2>1, EpochFacts
  <2>8. IsExec(r)
    BY <1>1, <2>2, <2>5, <2>7 DEF IsExec
  <2>9. Launched'
    BY <1>1, <2>4, <2>8, ExecTyped DEF Shape
  <2>10. \A b \in Act : IsFrame(frame'[b])
    BY <2>4, <2>5, <2>6 DEF Framed
  <2>11. QED
    BY <2>9, <2>10 DEF Framed
<1>5. QED
  BY <1>3, <1>4

(* A flow over a leaf has its output: the leaf has put it.                       *)
LEMMA ChildReturnsTyped ==
  ASSUME Shape, Accounted, Framed, NEW a \in Act, ChildReturns(a)
  PROVE  Framed'
<1>1. /\ Mode(a[1]) = "workflow" /\ a \in Children /\ Returns(a, ChildOut(a))
      /\ exec[Id[a]].status = "completed" /\ exec[Id[a]].act = a
  BY DEF ChildReturns, Ended, Children
<1>2. ChildOut(a) \in Vals \ {None, Skipped}
  <2>1. CASE ~Flow(a[1])
    BY <2>1, ValsMade DEF ChildOut
  <2>2. CASE Flow(a[1])
    <3>1. PICK r : r = Step(a, 1)
      OBVIOUS
    <3>2. CASE ~Leaf(r[1])
      BY <2>2, <3>1, <3>2, ValsMade DEF ChildOut
    <3>3. CASE Leaf(r[1])
      <4>1. r \in Act /\ r \in Calls(a) /\ Own[r] = r /\ frame[r].st = "ok"
        BY <1>1, <2>2, <3>1, TopsApart, FlowTopOwns DEF Accounted, FlowsRan
      <4>2. ~Handler(r[1]) /\ ~Partitioner(r[1])
        BY <1>1, <4>1, CallFacts DEF Handler, Partitioner, IsShardPart
      <4>3. PICK fc : fc = frame[r].fc
        OBVIOUS
      <4>4. Name(r[1]) \in DOMAIN fc
        BY <3>3, <4>1, <4>2, <4>3 DEF Accounted, Tallied, PutItself
      <4>5. IsCtx(fc)
        BY <4>1, <4>3 DEF Framed, IsFrame
      <4>6. fc[Name(r[1])] \in Vals \ {None, Skipped}
        BY <4>4, <4>5, CtxFinite
      <4>7. ChildOut(a) = fc[Name(r[1])]
        BY <2>2, <3>1, <3>3, <4>3 DEF ChildOut
      <4>8. QED
        BY <4>6, <4>7
    <3>4. QED
      BY <3>2, <3>3
  <2>3. QED
    BY <2>1, <2>2
<1>3. QED
  BY <1>1, <1>2, ReturnsTyped DEF Shape

(* The states of the main workflow.                                             *)
Statuses == {"running", "completed", "failed"}

(* A workflow that closes leaves idle frames.                                    *)
LEMMA ClosedTyped ==
  ASSUME Framed, NEW d
  PROVE  DOMAIN Closed(d) = Act /\ \A b \in Act : IsFrame(Closed(d)[b])
<1>1. DOMAIN Closed(d) = Act /\ \A b \in Act : Closed(d)[b] = IF Dom[b] = d THEN Idle ELSE frame[b]
  BY DEF Closed
<1>2. QED
  BY <1>1, FramesMade DEF Framed

(* A workflow that fails closes, or starts over.                              *)
LEMMA FailsTyped ==
  ASSUME Shape, Framed, Launched, status \in Statuses,
         NEW d, d = Main \/ (d \in Children /\ Flow(d[1])), Alive(d), Fails(d)
  PROVE  Framed' /\ Launched' /\ status' \in Statuses
<1>1. DOMAIN Closed(d) = Act /\ \A b \in Act : IsFrame(Closed(d)[b])
  BY ClosedTyped
<1>2. CASE d = Main
  <2>1. status' = "failed" /\ frame' = Closed(d) /\ UNCHANGED exec
    BY <1>2 DEF Fails
  <2>2. \A b \in Act : IsFrame(frame'[b])
    BY <1>1, <2>1
  <2>3. Framed' /\ Launched'
    BY <2>1, <2>2 DEF Framed, Launched
  <2>4. QED
    BY <2>1, <2>3 DEF Statuses
<1>3. CASE d # Main
  <2>1. PICK e, id : e = exec[Id[d]] /\ id = Id[d]
    OBVIOUS
  <2>2. d \in Act /\ Mode(d[1]) = "workflow" /\ Flow(d[1]) /\ id \in ChildIds
    BY <1>3, <2>1 DEF Children, ChildIds
  <2>3. /\ IsExec(e) /\ e.status = "running" /\ e.epoch \in Seq(Nat) /\ e.epoch # <<>>
        /\ DOMAIN e = {"status", "epoch", "act", "in"}
    <3>1. e.status = "running"
      BY <1>3, <2>1 DEF Alive, Running
    <3>2. QED
      BY <2>1, <2>2, <3>1 DEF Launched, Shape, Execs
  <2>4. PICK p : p = Append(Front(e.epoch), Last(e.epoch) + 1)
    OBVIOUS
  <2>5. p \in Seq(Nat)
    <3>1. PICK q, k : q = Front(e.epoch) /\ k = Last(e.epoch)
      OBVIOUS
    <3>2. q \in Seq(Nat) /\ k + 1 \in Nat
      BY <2>3, <3>1, Fronts
    <3>3. QED
      BY <2>4, <3>1, <3>2
  <2>6. PICK r : r = (IF Again(e) THEN [e EXCEPT !.epoch = p] ELSE [e EXCEPT !.status = "failed"])
    OBVIOUS
  <2>7. exec' = [exec EXCEPT ![id] = r] /\ UNCHANGED status
    BY <1>3, <2>1, <2>4, <2>6 DEF Fails
  <2>8. IsExec(r)
    BY <2>3, <2>5, <2>6 DEF IsExec
  <2>9. Launched'
    BY <2>2, <2>7, <2>8, ExecTyped DEF Shape
  <2>10. CASE ~Again(e)
    <3>1. frame' = Closed(d)
      BY <1>3, <2>1, <2>10 DEF Fails
    <3>2. \A b \in Act : IsFrame(frame'[b])
      BY <1>1, <3>1
    <3>3. QED
      BY <2>7, <2>9, <3>2 DEF Framed
  <2>11. CASE Again(e)
    <3>1. PICK s, call : s = Step(d, 1) /\ call = CalledWith(e.in)
      OBVIOUS
    <3>2. frame' = [Closed(d) EXCEPT ![s] = call]
      BY <1>3, <2>1, <2>11, <3>1 DEF Fails
    <3>3. s \in Act
      BY <2>2, <3>1, FlowCalls
    <3>4. IsFrame(call)
      BY <2>3, <3>1, FramesMade DEF IsExec
    <3>5. \A b \in Act : IsFrame(frame'[b])
      BY <1>1, <3>2, <3>3, <3>4
    <3>6. QED
      BY <2>7, <2>9, <3>5 DEF Framed
  <2>12. QED
    BY <2>10, <2>11
<1>4. QED
  BY <1>2, <1>3

(* A child execution ends, or is terminated.                                     *)
LEMMA ChildEndsTyped ==
  ASSUME Shape, Framed, Launched, status \in Statuses, NEW id \in ChildIds,
         ChildCompletes(id) \/ ChildFails(id) \/ FlowCompletes(id) \/ Terminate(id)
  PROVE  Framed' /\ Launched' /\ status' \in Statuses
<1>1. PICK st \in {"completed", "failed", "terminated"} : exec' = [exec EXCEPT ![id].status = st]
  BY DEF ChildCompletes, ChildFails, FlowCompletes, Terminate
<1>2. PICK e, r : e = exec[id] /\ r = [e EXCEPT !.status = st]
  OBVIOUS
<1>3. DOMAIN exec = ChildIds /\ DOMAIN e = {"status", "epoch", "act", "in"} /\ IsExec(e)
  BY <1>2 DEF Shape, Execs, Launched
<1>4. exec' = [exec EXCEPT ![id] = r]
  BY <1>1, <1>2, <1>3
<1>5. IsExec(r)
  BY <1>2, <1>3 DEF IsExec
<1>6. Launched'
  BY <1>4, <1>5, ExecTyped DEF Shape
<1>7. status' \in Statuses
  BY DEF ChildCompletes, ChildFails, FlowCompletes, Terminate
<1>8. Framed'
  <2>1. CASE Terminate(id)
    <3>1. PICK d : d = exec[id].act
      OBVIOUS
    <3>2. frame' = Closed(d)
      BY <2>1, <3>1 DEF Terminate
    <3>3. \A b \in Act : IsFrame(frame'[b])
      BY <3>2, ClosedTyped
    <3>4. QED
      BY <3>3 DEF Framed
  <2>2. CASE ~Terminate(id)
    BY <2>2 DEF ChildCompletes, ChildFails, FlowCompletes, Framed
  <2>3. QED
    BY <2>1, <2>2
<1>9. QED
  BY <1>6, <1>7, <1>8

(* Nothing of what is typed moves.                                               *)
LEMMA SameTyped ==
  ASSUME Framed, Launched, UNCHANGED <<frame, exec>>
  PROVE  Framed' /\ Launched'
BY DEF Framed, Launched

(* The main workflow ends, or is started again.                               *)
LEMMA MainTyped ==
  ASSUME Shape, Framed, Launched, status \in Statuses, Complete \/ Abort \/ Rerun
  PROVE  Framed' /\ Launched' /\ status' \in Statuses
<1>1. CASE Complete
  <2>1. status' \in Statuses
    BY <1>1 DEF Complete, Statuses
  <2>2. QED
    BY <1>1, <2>1, SameTyped DEF Complete
<1>2. CASE Abort
  BY <1>2, FailsTyped DEF Abort, Alive
<1>3. CASE Rerun
  <2>1. frame' = [frame EXCEPT ![Root] = Called] /\ UNCHANGED exec /\ status' \in Statuses
    BY <1>3 DEF Rerun, Statuses
  <2>2. Root \in Act /\ DOMAIN frame = Act
    BY RootAct DEF Shape, Frames
  <2>3. frame'[Root] = Called /\ \A b \in Act \ {Root} : frame'[b] = frame[b]
    BY <2>1, <2>2
  <2>4. Framed'
    BY <2>3, FramesMade, OthersTyped
  <2>5. QED
    BY <2>1, <2>4 DEF Launched
<1>4. QED
  BY <1>1, <1>2, <1>3

(* A phase that takes a step.                                                    *)
LEMMA RunTyped ==
  ASSUME Shape, Stack, Accounted, Framed, Launched, status \in Statuses, NEW a \in Active, Alive(Dom[a]),
         Dom[a] = Main \/ (Dom[a] \in Children /\ Flow(Dom[a][1])), Run(a) \/ ExtractFails(a)
  PROVE  Framed' /\ Launched' /\ status' \in Statuses
<1>1. a \in Act /\ Frames
  BY DEF Active, Shape
<1>2. CASE ChildErrs(a) \/ ExtractFails(a)
  BY <1>2, FailsTyped DEF ChildErrs, ExtractFails
<1>3. CASE StartPipeline(a) \/ StepPipeline(a)
  <2>1. Framed'
    BY <1>1, <1>3, StartPipelineTyped, StepPipelineTyped
  <2>2. QED
    BY <1>3, <2>1 DEF StartPipeline, StepPipeline, StepPipelineTo, Launched
<1>4. CASE StartParallel(a) \/ \E b \in Subs(a) : JoinParallel(a, b)
  <2>1. Framed'
    BY <1>1, <1>4, StartParallelTyped, JoinParallelTyped
  <2>2. QED
    BY <1>4, <2>1 DEF StartParallel, JoinParallel, JoinThen, Launched
<1>5. CASE StartShard(a) \/ Partitioned(a) \/ StepShard(a)
  <2>1. Framed'
    BY <1>1, <1>5, StartShardTyped, PartitionedTyped, StepShardTyped
  <2>2. QED
    BY <1>5, <2>1 DEF StartShard, Partitioned, StepShard, StepShardWith, Launched
<1>6. CASE ScheduleActivity(a)
  <2>1. Framed'
    BY <1>1, <1>6, ScheduleActivityTyped
  <2>2. QED
    BY <1>6, <2>1 DEF ScheduleActivity, Launched
<1>7. CASE StartChild(a)
  <2>1. UNCHANGED status
    BY <1>7 DEF StartChild, StartChildUnder, SkipChild
  <2>2. QED
    BY <1>1, <1>7, <2>1, StartChildTyped
<1>8. CASE ChildReturns(a)
  <2>1. Framed'
    BY <1>1, <1>8, ChildReturnsTyped
  <2>2. QED
    BY <1>8, <2>1 DEF ChildReturns, Launched
<1>9. QED
  BY <1>2, <1>3, <1>4, <1>5, <1>6, <1>7, <1>8 DEF Run

(* An activity that ends.                                                        *)
LEMMA ActivityTyped ==
  ASSUME Shape, Stack, Framed, Launched, status \in Statuses, NEW t \in tasks,
         ActivityCompletes(t) \/ ActivityFails(t)
  PROVE  Framed' /\ Launched' /\ status' \in Statuses
<1>1. PICK a \in Act : a = t.act
  BY DEF Shape, Tasks
<1>2. CASE ~Awaited(t)
  BY <1>2, SameTyped DEF ActivityCompletes, ActivityFails, ActivityFailsWith
<1>3. CASE Awaited(t)
  <2>1. CASE ActivityCompletes(t)
    <3>1. Returns(a, Out) /\ UNCHANGED <<exec, status>>
      BY <1>1, <1>3, <2>1 DEF ActivityCompletes
    <3>2. Framed'
      BY <3>1, ValsMade, ReturnsTyped DEF Shape
    <3>3. QED
      BY <3>1, <3>2 DEF Launched
  <2>2. CASE ActivityFails(t)
    <3>1. Fails(Dom[a])
      BY <1>1, <1>3, <2>2 DEF ActivityFails, ActivityFailsWith
    <3>2. Alive(Dom[a]) /\ (Dom[a] = Main \/ (Dom[a] \in Children /\ Flow(Dom[a][1])))
      BY <1>1, <1>3, DomFacts DEF Awaited, At
    <3>3. QED
      BY <3>1, <3>2, FailsTyped
  <2>3. QED
    BY <2>1, <2>2
<1>4. QED
  BY <1>2, <1>3

(* What is scheduled and what is done is work; the counters stay in bounds.      *)
Recorded ==
  /\ run \in 1..MaxRuns /\ faults \in 0..MaxFaults
  /\ tasks \subseteq [act : Work, epoch : Seq(Nat)] /\ done \subseteq Work

(* A fault is counted up to the bound.                                        *)
LEMMA FaultCounts ==
  ASSUME faults \in 0..MaxFaults, Fault
  PROVE  faults' \in 0..MaxFaults
BY PhaseTreeAssumption DEF Fault

(* Every step keeps these.                                                    *)
LEMMA StepRecorded ==
  ASSUME Shape, Stack, Recorded, Next
  PROVE  Recorded'
<1>1. ASSUME NEW a \in Active, Run(a) \/ ExtractFails(a) PROVE Recorded'
  <2>1. a \in Act /\ Alive(Dom[a])
    BY DEF Active, Stack, DeadIdle
  <2>2. CASE ScheduleActivity(a)
    <3>1. PICK e : e = Epoch(Dom[a])
      OBVIOUS
    <3>2. e \in Seq(Nat)
      <4>1. CASE Dom[a] = Main
        BY <3>1, <4>1 DEF Epoch, Shape
      <4>2. CASE Dom[a] # Main
        <5>1. PICK d \in Children : d = Dom[a]
          BY <2>1, <4>2, DomFacts
        <5>2. exec[Id[d]].status = "running" /\ Id[d] \in ChildIds
          BY <2>1, <4>2, <5>1 DEF Alive, Running, ChildIds
        <5>3. QED
          BY <3>1, <4>2, <5>1, <5>2 DEF Epoch, Shape, Execs
      <4>3. QED
        BY <4>1, <4>2
    <3>3. a \in Work
      BY <2>1, <2>2 DEF ScheduleActivity, Work, Leaf, Flow
    <3>4. tasks' = tasks \cup {[act |-> a, epoch |-> e]} /\ UNCHANGED <<run, faults, done>>
      BY <2>2, <3>1 DEF ScheduleActivity
    <3>5. QED
      BY <3>2, <3>3, <3>4 DEF Recorded
  <2>3. CASE ExtractFails(a)
    <3>1. UNCHANGED <<run, tasks, done>> /\ (Fault \/ UNCHANGED faults)
      BY <2>3 DEF ExtractFails
    <3>2. QED
      BY <3>1, FaultCounts DEF Recorded
  <2>4. CASE Run(a) /\ ~ScheduleActivity(a)
    <3>1. UNCHANGED <<run, tasks, done, faults>>
      BY <2>4 DEF Run, StartPipeline, StepPipeline, StepPipelineTo, StartParallel, JoinParallel, JoinThen,
                  StartShard, Partitioned, StepShard, StepShardWith, StartChild, StartChildUnder,
                  ChildReturns, ChildErrs
    <3>2. QED
      BY <3>1 DEF Recorded
  <2>5. QED
    BY <1>1, <2>2, <2>3, <2>4
<1>2. ASSUME NEW t \in tasks, ActivityCompletes(t) \/ ActivityFails(t) PROVE Recorded'
  <2>1. t.act \in Work
    BY DEF Recorded
  <2>2. UNCHANGED run /\ tasks' \subseteq tasks /\ done' \subseteq done \cup {t.act} /\ (Fault \/ UNCHANGED faults)
    BY <1>2 DEF ActivityCompletes, ActivityFails, ActivityFailsWith
  <2>3. QED
    BY <2>1, <2>2, FaultCounts DEF Recorded
<1>3. ASSUME NEW id \in ChildIds, ChildCompletes(id) \/ ChildFails(id) \/ FlowCompletes(id) \/ Terminate(id)
      PROVE  Recorded'
  <2>1. ChildCompletes(id) => exec[id].act \in Work
    <3> SUFFICES ASSUME ChildCompletes(id) PROVE exec[id].act \in Work
      OBVIOUS
    <3>1. exec[id].status = "running" /\ ~Flow(exec[id].act[1])
      BY DEF ChildCompletes, HandWritten
    <3>2. exec[id].act \in Children
      BY <3>1 DEF Shape, Execs
    <3>3. QED
      BY <3>1, <3>2 DEF Work, Children, Leaf
  <2>2. UNCHANGED <<run, tasks>> /\ (Fault \/ UNCHANGED faults)
    BY <1>3 DEF ChildCompletes, ChildFails, FlowCompletes, Terminate
  <2>3. done' = done \/ (ChildCompletes(id) /\ done' = done \cup {exec[id].act})
    BY <1>3 DEF ChildCompletes, ChildFails, FlowCompletes, Terminate
  <2>4. QED
    BY <2>1, <2>2, <2>3, FaultCounts DEF Recorded
<1>4. ASSUME Complete \/ Abort \/ Rerun PROVE Recorded'
  <2>1. run' \in 1..MaxRuns
    BY <1>4, PhaseTreeAssumption DEF Complete, Abort, Rerun, Recorded
  <2>2. UNCHANGED <<tasks, done>> /\ (Fault \/ UNCHANGED faults)
    BY <1>4 DEF Complete, Abort, Rerun
  <2>3. QED
    BY <2>1, <2>2, FaultCounts DEF Recorded
<1>5. ASSUME NEW d \in Children, FlowTimesOut(d) PROVE Recorded'
  BY <1>5, FaultCounts DEF FlowTimesOut, Recorded
<1>6. QED
  BY <1>1, <1>2, <1>3, <1>4, <1>5 DEF Next

(* Types: which of the frames, executions, tasks and counters are what.          *)
LEMMA TypeParts ==
  TypeOK <=> Recorded /\ status \in Statuses /\ DOMAIN frame = Act /\ DOMAIN exec = ChildIds /\ Framed /\ Launched
BY DEF TypeOK, Recorded, Statuses, Framed, Launched

(* Initially all is as typed.                                                 *)
LEMMA InitTyped == Init => TypeOK
<1> SUFFICES ASSUME Init PROVE TypeOK
  OBVIOUS
<1>1. Recorded /\ status \in Statuses /\ DOMAIN frame = Act /\ DOMAIN exec = ChildIds
  BY PhaseTreeAssumption DEF Init, Recorded, Statuses
<1>2. \A b \in Act : IsFrame(frame[b])
  BY FramesMade DEF Init
<1>3. IsExec(Absent)
  BY FramesMade DEF IsExec, Absent
<1>4. \A id \in ChildIds : IsExec(exec[id])
  BY <1>3 DEF Init
<1>5. QED
  BY <1>1, <1>2, <1>4, TypeParts DEF Framed, Launched

(* Every step keeps the types, if flows have run and leaves have put what is taken. *)
LEMMA StepTyped ==
  ASSUME Threaded, Threaded', Accounted, TypeOK, [Next]_vars
  PROVE  TypeOK'
<1>1. Shape /\ Stack /\ Recorded /\ status \in Statuses /\ Framed /\ Launched
  BY TypeParts DEF Threaded
<1>2. DOMAIN frame' = Act /\ DOMAIN exec' = ChildIds
  BY DEF Threaded, Shape, Frames, Execs
<1>3. CASE UNCHANGED vars
  BY <1>3 DEF vars, TypeOK, IsFrame, IsExec
<1>4. CASE Next
  <2>1. Recorded'
    BY <1>1, <1>4, StepRecorded
  <2>2. ASSUME NEW a \in Active, Run(a) \/ ExtractFails(a)
        PROVE  Framed' /\ Launched' /\ status' \in Statuses
    <3>1. a \in Act /\ Alive(Dom[a]) /\ (Dom[a] = Main \/ (Dom[a] \in Children /\ Flow(Dom[a][1])))
      BY <1>1, DomFacts DEF Stack, DeadIdle, Active
    <3>2. QED
      BY <1>1, <2>2, <3>1, RunTyped
  <2>3. ASSUME NEW d \in Children, FlowTimesOut(d) PROVE Framed' /\ Launched' /\ status' \in Statuses
    BY <1>1, <2>3, OutOfTime, FailsTyped
  <2>4. Framed' /\ Launched' /\ status' \in Statuses
    BY <1>1, <1>4, <2>2, <2>3, ActivityTyped, ChildEndsTyped, MainTyped DEF Next
  <2>5. QED
    BY <1>2, <2>1, <2>4 DEF TypeOK, Recorded, Statuses, Framed, Launched
<1>5. QED
  BY <1>3, <1>4

(* Whatever Phase.run, runShard and schedule do (phase.go 426 to 645), every      *)
(* FlowCtx holds outputs only (flowctx.go 16), under names of phases; the sums   *)
(* of a shard and the outputs taken from it are counts; an execution has the     *)
(* FlowCtx and an epoch it started with; what was scheduled or done is work:     *)
(* TypeOK, for every tree, any client, and whatever fails.                       *)
THEOREM TypesHold == Spec => []TypeOK
<1> DEFINE Inv == Balanced /\ TypeOK
<1>1. Init => Inv
  BY InitBalanced, InitTyped
<1>2. Inv /\ [Next]_vars => Inv'
  <2> SUFFICES ASSUME Balanced, TypeOK, [Next]_vars PROVE Balanced' /\ TypeOK'
    OBVIOUS
  <2>1. Threaded' /\ Unskipped'
    BY StepThreaded, UnskippedKeeps DEF Balanced, Threaded
  <2>2. Accounted'
    BY StepAccounts DEF Balanced
  <2>3. TypeOK'
    BY <2>1, StepTyped DEF Balanced
  <2>4. QED
    BY <2>1, <2>2, <2>3 DEF Balanced
<1>3. QED
  BY <1>1, <1>2, PTL DEF Spec
===============================================================================
