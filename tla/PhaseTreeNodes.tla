---------------------------- MODULE PhaseTreeNodes ----------------------------
(* The phases of a tree and their activations: what lies below what, for every   *)
(* tree.                                                                         *)
EXTENDS PhaseTree, Induction, TLAPS

LEMMA RootNode == Len(Tree) \in Nat \ {0} /\ 1 \in Node
<1> DEFINE R == [mode : Modes, name : Seq(STRING), steps : Seq(Nat), parts : Seq(Seq(STRING))]
<1>1. Tree \in Seq(R) /\ Len(Tree) > 0
  BY PhaseTreeAssumption
<1> HIDE DEF R
<1>2. QED
  BY <1>1 DEF Node

LEMMA NodeFacts ==
  ASSUME NEW n \in Node
  PROVE  /\ n \in Nat /\ n >= 1
         /\ Mode(n) \in Modes /\ Name(n) \in Seq(STRING)
         /\ Tree[n].steps \in Seq(Nat) /\ Tree[n].parts \in Seq(Seq(STRING))
<1> DEFINE R == [mode : Modes, name : Seq(STRING), steps : Seq(Nat), parts : Seq(Seq(STRING))]
<1>1. Tree \in Seq(R) /\ Len(Tree) > 0
  BY PhaseTreeAssumption
<1>2. Tree[n] \in R
  <2> HIDE DEF R
  <2>1. QED
    BY <1>1 DEF Node
<1>3. QED
  BY <1>2, RootNode DEF Node, Mode, Name

LEMMA KidFacts ==
  ASSUME NEW n \in Node, NEW c \in Kids(n)
  PROVE  c \in Node /\ c > n /\ c # 1
BY PhaseTreeAssumption, NodeFacts DEF Node

(* The steps of a phase are its kids, each once.                                 *)
LEMMA StepFacts ==
  ASSUME NEW n \in Node
  PROVE  /\ \A j \in 1..Len(Tree[n].steps) : Tree[n].steps[j] \in Kids(n)
         /\ \A c \in Kids(n) : \E j \in 1..Len(Tree[n].steps) : c = Tree[n].steps[j]
         /\ \A i, j \in 1..Len(Tree[n].steps) : Tree[n].steps[i] = Tree[n].steps[j] => i = j
<1>1. Tree[n].steps \in Seq(Nat) /\ IsInjective(Tree[n].steps)
  BY PhaseTreeAssumption, NodeFacts
<1>2. DOMAIN Tree[n].steps = 1..Len(Tree[n].steps)
  BY <1>1
<1>3. QED
  BY <1>1, <1>2 DEF Kids, ToSet, IsInjective

LEMMA Table1 == \A f : Table(f) = f
BY DEF Table

LEMMA ParentFacts ==
  ASSUME NEW n \in Node, n # 1
  PROVE  /\ Parent[n] \in Node /\ n \in Kids(Parent[n]) /\ Parent[n] < n
         /\ \A m \in Node : n \in Kids(m) => m = Parent[n]
<1>1. Parent[n] = CHOOSE m \in Node : n \in Kids(m)
  <2>1. Parent = [k \in Node \ {1} |-> CHOOSE m \in Node : k \in Kids(m)]
    BY Table1 DEF Parent
  <2>2. QED
    BY <2>1
<1>2. PICK m \in Node : n \in Kids(m) /\ \A k \in Node : n \in Kids(k) => k = m
  BY PhaseTreeAssumption
<1>3. Parent[n] = m
  BY <1>1, <1>2
<1>4. QED
  BY <1>2, <1>3, KidFacts

LEMMA KidParent ==
  ASSUME NEW n \in Node, NEW c \in Kids(n)
  PROVE  Parent[c] = n
BY KidFacts, ParentFacts

-------------------------------------------------------------------------------
(* Phases at or below a phase.                                                   *)

LEMMA DescIs ==
  ASSUME NEW n \in Node
  PROVE  Desc[n] = {n} \cup UNION {Desc[c] : c \in Kids(n)}
<1> DEFINE L == Len(Tree)
           own == [m \in 1..L |-> {m}]
           below == [m \in 1..L |-> Kids(m)]
<1>1. \E f : f = [m \in Node |-> {m} \cup UNION {f[c] : c \in Kids(m)}]
  <2>1. L \in Nat /\ \A m \in 1..L : \A c \in below[m] : c \in 1..L /\ c > m
    BY RootNode, NodeFacts, KidFacts DEF Node
  <2> HIDE DEF own, below, L
  <2>2. PICK f : FromBelow(f, L, own, below)
    BY <2>1, DownTheTree
  <2>3. f = [m \in 1..L |-> own[m] \cup UNION {f[c] : c \in below[m]}]
    BY <2>2 DEF FromBelow
  <2>4. f = [m \in Node |-> {m} \cup UNION {f[c] : c \in Kids(m)}]
    BY <2>3 DEF own, below, L, Node
  <2>5. QED
    BY <2>4
<1>2. Desc = [m \in Node |-> {m} \cup UNION {Desc[c] : c \in Kids(m)}]
  BY <1>1 DEF Desc
<1>3. QED
  BY <1>2

(* Induction from the leaves to the root, and from the root to the leaves.       *)
LEMMA FromTheLeaves ==
  ASSUME NEW S, \A n \in Node : (\A c \in Kids(n) : c \in S) => n \in S
  PROVE  Node \subseteq S
<1> DEFINE L == Len(Tree)
           T == {k \in Nat : \A n \in Node : n > L - k => n \in S}
<1>1. L \in Nat
  BY RootNode
<1>2. 0 \in T
  BY <1>1 DEF Node
<1>3. ASSUME NEW k \in Nat, k \in T PROVE k + 1 \in T
  <2>1. ASSUME NEW n \in Node, n > L - (k + 1) PROVE n \in S
    <3>1. \A c \in Kids(n) : c \in S
      BY <1>1, <1>3, <2>1, KidFacts DEF Node
    <3>2. QED
      BY <3>1
  <2>2. QED
    BY <2>1
<1>4. L \in T
  <2> HIDE DEF T
  <2>1. QED
    BY <1>1, <1>2, <1>3, NatSteps
<1>5. QED
  BY <1>1, <1>4 DEF Node

LEMMA FromTheRoot ==
  ASSUME NEW S, 1 \in S, \A n \in Node \ {1} : Parent[n] \in S => n \in S
  PROVE  Node \subseteq S
<1> DEFINE B == Node \ S
<1> SUFFICES ASSUME B # {} PROVE FALSE
  OBVIOUS
<1>1. PICK m \in B : \A k \in B : m <= k
  <2>1. B \subseteq Nat
    BY DEF Node
  <2> HIDE DEF B
  <2>2. QED
    BY <2>1, LeastNat
<1>2. m \in Node \ {1} /\ Parent[m] \in Node /\ Parent[m] < m
  BY <1>1, ParentFacts
<1>3. Parent[m] \in S
  BY <1>1, <1>2 DEF Node
<1>4. QED
  BY <1>1, <1>2, <1>3

LEMMA DescNodes ==
  ASSUME NEW n \in Node, NEW m \in Desc[n]
  PROVE  m \in Node /\ m >= n
<1> DEFINE S == {k \in Node : \A l \in Desc[k] : l \in Node /\ l >= k}
<1>1. ASSUME NEW k \in Node, \A c \in Kids(k) : c \in S PROVE k \in S
  BY <1>1, DescIs, KidFacts DEF Node
<1>2. Node \subseteq S
  <2> HIDE DEF S
  <2>1. QED
    BY <1>1, FromTheLeaves
<1>3. QED
  BY <1>2

LEMMA DescSelf ==
  ASSUME NEW n \in Node
  PROVE  n \in Desc[n] /\ \A c \in Kids(n) : Desc[c] \subseteq Desc[n] /\ c \in Desc[n]
BY DescIs, KidFacts

LEMMA DescTrans ==
  ASSUME NEW n \in Node, NEW m \in Desc[n]
  PROVE  Desc[m] \subseteq Desc[n]
<1> DEFINE S == {k \in Node : \A l \in Desc[k] : Desc[l] \subseteq Desc[k]}
<1>1. ASSUME NEW k \in Node, \A c \in Kids(k) : c \in S PROVE k \in S
  <2>1. ASSUME NEW l \in Desc[k] PROVE Desc[l] \subseteq Desc[k]
    <3>1. CASE l = k
      BY <3>1
    <3>2. CASE l # k
      <4>1. PICK c \in Kids(k) : l \in Desc[c]
        BY <3>2, DescIs
      <4>2. QED
        BY <1>1, <4>1, DescSelf
    <3>3. QED
      BY <3>1, <3>2
  <2>2. QED
    BY <2>1
<1>2. Node \subseteq S
  <2> HIDE DEF S
  <2>1. QED
    BY <1>1, FromTheLeaves
<1>3. QED
  BY <1>2

LEMMA DescParent ==
  ASSUME NEW n \in Node, NEW m \in Desc[n], m # n
  PROVE  m \in Node \ {1} /\ Parent[m] \in Desc[n]
<1> DEFINE S == {k \in Node : \A l \in Desc[k] : l # k => l \in Node \ {1} /\ Parent[l] \in Desc[k]}
<1>1. ASSUME NEW k \in Node, \A c \in Kids(k) : c \in S PROVE k \in S
  <2>1. ASSUME NEW l \in Desc[k], l # k PROVE l \in Node \ {1} /\ Parent[l] \in Desc[k]
    <3>1. PICK c \in Kids(k) : l \in Desc[c]
      BY <2>1, DescIs
    <3>2. CASE l = c
      BY <3>1, <3>2, KidFacts, KidParent, DescSelf
    <3>3. CASE l # c
      BY <1>1, <3>1, <3>3, DescSelf
    <3>4. QED
      BY <3>2, <3>3
  <2>2. QED
    BY <2>1
<1>2. Node \subseteq S
  <2> HIDE DEF S
  <2>1. QED
    BY <1>1, FromTheLeaves
<1>3. QED
  BY <1>2

LEMMA DescRoot == Node \subseteq Desc[1]
<1>1. 1 \in Desc[1]
  BY DescSelf, RootNode
<1>2. ASSUME NEW n \in Node \ {1}, Parent[n] \in Desc[1] PROVE n \in Desc[1]
  <2>1. 1 \in Node
    BY RootNode
  <2>2. Parent[n] \in Node /\ n \in Desc[Parent[n]]
    BY ParentFacts, DescSelf
  <2>3. QED
    BY <1>2, <2>1, <2>2, DescTrans
<1>3. QED
  BY <1>1, <1>2, FromTheRoot

-------------------------------------------------------------------------------
(* What a phase takes over from the one that holds it.                           *)

(* A function made from the root down.                                           *)
FromParent(f, root, make) == f[1] = root /\ \A n \in Node \ {1} : f[n] = make[<<n, f[Parent[n]]>>]

LEMMA DownFromRoot ==
  ASSUME NEW V, NEW root \in V, NEW make, \A n \in Node \ {1} : \A v \in V : make[<<n, v>>] \in V
  PROVE  \E f \in [Node -> V] : FromParent(f, root, make)
<1> DEFINE L == Len(Tree)
           mk == [x \in (2..L) \X V |-> make[<<x[1], x[2]>>]]
<1>1. L \in Nat \ {0}
  BY RootNode
<1>2. mk \in [(2..L) \X V -> V]
  BY <1>1 DEF Node
<1>3. \A n \in 2..L : Parent[n] \in 1..L /\ Parent[n] < n
  BY <1>1, ParentFacts DEF Node
<1>4. PICK f \in [1..L -> V] : FromAbove(f, L, root, mk, Parent)
  <2> HIDE DEF L, mk
  <2>1. L \in Nat
    BY <1>1
  <2>2. QED
    BY <1>2, <1>3, <2>1, UpTheTree
<1>5. f[1] = root
  BY <1>1, <1>4 DEF FromAbove
<1>6. ASSUME NEW n \in Node \ {1} PROVE f[n] = make[<<n, f[Parent[n]]>>]
  <2>1. n \in 2..L /\ Parent[n] \in 1..L
    BY <1>1, <1>3 DEF Node
  <2>2. f[n] = mk[<<n, f[Parent[n]]>>]
    <3> HIDE DEF mk, L
    <3>1. f = [k \in 1..L |-> IF k = 1 THEN root ELSE mk[<<k, f[Parent[k]]>>]]
      BY <1>4 DEF FromAbove
    <3>2. n \in 1..L /\ n # 1
      BY <1>1, <2>1
    <3>3. QED
      BY <3>1, <3>2
  <2>3. f[Parent[n]] \in V
    BY <1>4, <2>1
  <2>4. QED
    BY <2>1, <2>2, <2>3
<1>7. QED
  BY <1>4, <1>5, <1>6 DEF Node, FromParent

LEMMA WithinSeq ==
  ASSUME NEW n \in Node \ {1}, NEW v \in SUBSET Seq(Nat)
  PROVE  Within(n, v) \in SUBSET Seq(Nat)
<1>1. DOMAIN Tree[Parent[n]].parts \subseteq Nat
  <2>1. Tree[Parent[n]].parts \in Seq(Seq(STRING))
    BY ParentFacts, NodeFacts
  <2>2. QED
    BY <2>1
<1>2. \A p \in v, i \in DOMAIN Tree[Parent[n]].parts : Append(p, i) \in Seq(Nat)
  BY <1>1
<1>3. CASE Handler(n)
  <2>1. PICK D : D = DOMAIN Tree[Parent[n]].parts
    OBVIOUS
  <2>2. Within(n, v) = {Append(p, i) : p \in v, i \in D}
    BY <1>3, <2>1 DEF Within
  <2>3. \A p \in v, i \in D : Append(p, i) \in Seq(Nat)
    BY <1>2, <2>1
  <2>4. {Append(p, i) : p \in v, i \in D} \subseteq Seq(Nat)
    BY <2>3
  <2>5. QED
    BY <2>2, <2>4
<1>4. CASE ~Handler(n)
  BY <1>4 DEF Within
<1>5. QED
  BY <1>3, <1>4

LEMMA PartsAre ==
  /\ Parts[1] = {<<>>}
  /\ \A n \in Node \ {1} : Parts[n] = Within(n, Parts[Parent[n]])
  /\ \A n \in Node : Parts[n] \in SUBSET Seq(Nat)
<1> DEFINE V == SUBSET Seq(Nat)
           mk == [x \in (Node \ {1}) \X V |-> Within(x[1], x[2])]
           Eq(f) == f = [n \in Node |-> IF n = 1 THEN {<<>>} ELSE Within(n, f[Parent[n]])]
<1>1. \A n \in Node \ {1} : \A v \in V : mk[<<n, v>>] = Within(n, v) /\ Within(n, v) \in V
  BY WithinSeq
<1>2. {<<>>} \in V
  OBVIOUS
<1> HIDE DEF V
<1>3. PICK f \in [Node -> V] : FromParent(f, {<<>>}, mk)
  <2>1. \A n \in Node \ {1} : \A v \in V : mk[<<n, v>>] \in V
    BY <1>1
  <2> HIDE DEF mk
  <2>2. QED
    BY <1>2, <2>1, DownFromRoot
<1>4. \A n \in Node \ {1} : f[n] = Within(n, f[Parent[n]])
  <2> HIDE DEF mk
  <2>1. QED
    BY <1>1, <1>3, ParentFacts DEF FromParent
<1>5. Eq(f)
  BY <1>3, <1>4 DEF FromParent
<1>6. Parts = CHOOSE g : Eq(g)
  BY DEF Parts
<1>7. Eq(Parts)
  <2> HIDE DEF Eq
  <2>1. QED
    BY <1>5, <1>6
<1>8. Parts[1] = {<<>>} /\ \A n \in Node \ {1} : Parts[n] = Within(n, Parts[Parent[n]])
  BY <1>7, RootNode
<1>9. Node \subseteq {n \in Node : Parts[n] \in V}
  <2> DEFINE S == {n \in Node : Parts[n] \in V}
  <2>1. 1 \in S
    BY <1>2, <1>8, RootNode
  <2>2. ASSUME NEW n \in Node \ {1}, Parent[n] \in S PROVE n \in S
    BY <1>1, <1>8, <2>2
  <2> HIDE DEF S
  <2>3. Node \subseteq S
    BY <2>1, <2>2, FromTheRoot
  <2>4. QED
    BY <2>3 DEF S
<1>10. QED
  BY <1>8, <1>9 DEF V

(* How many handlers are around a phase.                                         *)
LEMMA DepthIs ==
  /\ Depth[1] = 0
  /\ \A n \in Node \ {1} : Depth[n] = Depth[Parent[n]] + (IF Handler(n) THEN 1 ELSE 0)
  /\ \A n \in Node : Depth[n] \in Nat
<1> DEFINE V == Nat
           mk == [x \in (Node \ {1}) \X V |-> x[2] + (IF Handler(x[1]) THEN 1 ELSE 0)]
           Eq(f) == f = [n \in Node |-> IF n = 1 THEN 0 ELSE f[Parent[n]] + (IF Handler(n) THEN 1 ELSE 0)]
<1>1. 0 \in V
  BY RootNode
<1>2. \A n \in Node \ {1} : \A v \in V : mk[<<n, v>>] = (v + (IF Handler(n) THEN 1 ELSE 0)) /\ mk[<<n, v>>] \in V
  BY ParentFacts
<1>3. PICK f \in [Node -> V] : FromParent(f, 0, mk)
  <2>1. \A n \in Node \ {1} : \A v \in V : mk[<<n, v>>] \in V
    BY <1>2
  <2> HIDE DEF mk, V
  <2>2. QED
    BY <1>1, <2>1, DownFromRoot
<1>4. ASSUME NEW n \in Node \ {1} PROVE f[n] = f[Parent[n]] + (IF Handler(n) THEN 1 ELSE 0)
  <2> HIDE DEF mk, V
  <2>1. f[Parent[n]] \in V
    BY <1>3, ParentFacts
  <2>2. f[n] = mk[<<n, f[Parent[n]]>>]
    BY <1>3 DEF FromParent
  <2>3. QED
    BY <1>2, <2>1, <2>2
<1>5. Eq(f)
  BY <1>3, <1>4 DEF FromParent
<1>6. Depth = CHOOSE g : Eq(g)
  BY DEF Depth
<1>7. Eq(Depth)
  <2> HIDE DEF Eq
  <2>1. QED
    BY <1>5, <1>6
<1>8. Depth[1] = 0 /\ \A n \in Node \ {1} : Depth[n] = Depth[Parent[n]] + (IF Handler(n) THEN 1 ELSE 0)
  BY <1>7, RootNode
<1> DEFINE S == {n \in Node : Depth[n] \in V}
<1>9. 1 \in S
  BY <1>1, <1>8, RootNode
<1>10. ASSUME NEW n \in Node \ {1}, Parent[n] \in S PROVE n \in S
  <2> HIDE DEF mk, V
  <2>1. mk[<<n, Depth[Parent[n]]>>] = (Depth[Parent[n]] + (IF Handler(n) THEN 1 ELSE 0)) /\ mk[<<n, Depth[Parent[n]]>>] \in V
    BY <1>2, <1>10
  <2>2. QED
    BY <1>8, <2>1
<1>11. Node \subseteq S
  <2> HIDE DEF S
  <2>1. QED
    BY <1>9, <1>10, FromTheRoot
<1>12. QED
  BY <1>8, <1>11

(* The flow that runs a phase, 0 for the main workflow.                          *)
LEMMA DomNodeIs ==
  /\ DomNode[1] = 0
  /\ \A n \in Node \ {1} : DomNode[n] = IF Flow(Parent[n]) THEN Parent[n] ELSE DomNode[Parent[n]]
  /\ \A n \in Node : DomNode[n] \in {0} \cup Node
<1> DEFINE V == {0} \cup Node
           mk == [x \in (Node \ {1}) \X V |-> IF Flow(Parent[x[1]]) THEN Parent[x[1]] ELSE x[2]]
           Eq(f) == f = [n \in Node |-> IF n = 1 THEN 0 ELSE IF Flow(Parent[n]) THEN Parent[n] ELSE f[Parent[n]]]
<1>1. 0 \in V
  BY RootNode
<1>2. \A n \in Node \ {1} : \A v \in V : mk[<<n, v>>] = (IF Flow(Parent[n]) THEN Parent[n] ELSE v) /\ mk[<<n, v>>] \in V
  BY ParentFacts
<1>3. PICK f \in [Node -> V] : FromParent(f, 0, mk)
  <2>1. \A n \in Node \ {1} : \A v \in V : mk[<<n, v>>] \in V
    BY <1>2
  <2> HIDE DEF mk, V
  <2>2. QED
    BY <1>1, <2>1, DownFromRoot
<1>4. ASSUME NEW n \in Node \ {1} PROVE f[n] = IF Flow(Parent[n]) THEN Parent[n] ELSE f[Parent[n]]
  <2> HIDE DEF mk, V
  <2>1. f[Parent[n]] \in V
    BY <1>3, ParentFacts
  <2>2. f[n] = mk[<<n, f[Parent[n]]>>]
    BY <1>3 DEF FromParent
  <2>3. QED
    BY <1>2, <2>1, <2>2
<1>5. Eq(f)
  BY <1>3, <1>4 DEF FromParent
<1>6. DomNode = CHOOSE g : Eq(g)
  BY DEF DomNode
<1>7. Eq(DomNode)
  <2> HIDE DEF Eq
  <2>1. QED
    BY <1>5, <1>6
<1>8. DomNode[1] = 0 /\ \A n \in Node \ {1} : DomNode[n] = IF Flow(Parent[n]) THEN Parent[n] ELSE DomNode[Parent[n]]
  BY <1>7, RootNode
<1> DEFINE S == {n \in Node : DomNode[n] \in V}
<1>9. 1 \in S
  BY <1>1, <1>8, RootNode
<1>10. ASSUME NEW n \in Node \ {1}, Parent[n] \in S PROVE n \in S
  <2> HIDE DEF mk, V
  <2>1. mk[<<n, DomNode[Parent[n]]>>] = (IF Flow(Parent[n]) THEN Parent[n] ELSE DomNode[Parent[n]]) /\ mk[<<n, DomNode[Parent[n]]>>] \in V
    BY <1>2, <1>10
  <2>2. QED
    BY <1>8, <2>1
<1>11. Node \subseteq S
  <2> HIDE DEF S
  <2>1. QED
    BY <1>9, <1>10, FromTheRoot
<1>12. QED
  BY <1>8, <1>11

(* The phase whose FlowCtx a phase uses.                                         *)
LEMMA OwnNodeIs ==
  /\ OwnNode[1] = 1
  /\ \A n \in Node \ {1} : OwnNode[n] = IF Clone(n) THEN n ELSE OwnNode[Parent[n]]
  /\ \A n \in Node : OwnNode[n] \in Node
<1> DEFINE V == Node
           mk == [x \in (Node \ {1}) \X V |-> IF Clone(x[1]) THEN x[1] ELSE x[2]]
           Eq(f) == f = [n \in Node |-> IF Clone(n) THEN n ELSE f[Parent[n]]]
<1>1. 1 \in V
  BY RootNode
<1>2. \A n \in Node \ {1} : \A v \in V : mk[<<n, v>>] = (IF Clone(n) THEN n ELSE v) /\ mk[<<n, v>>] \in V
  BY ParentFacts
<1>3. PICK f \in [Node -> V] : FromParent(f, 1, mk)
  <2>1. \A n \in Node \ {1} : \A v \in V : mk[<<n, v>>] \in V
    BY <1>2
  <2> HIDE DEF mk, V
  <2>2. QED
    BY <1>1, <2>1, DownFromRoot
<1>4. ASSUME NEW n \in Node \ {1} PROVE f[n] = IF Clone(n) THEN n ELSE f[Parent[n]]
  <2> HIDE DEF mk, V
  <2>1. f[Parent[n]] \in V
    BY <1>3, ParentFacts
  <2>2. f[n] = mk[<<n, f[Parent[n]]>>]
    BY <1>3 DEF FromParent
  <2>3. QED
    BY <1>2, <2>1, <2>2
<1>5. Eq(f)
  BY <1>3, <1>4 DEF FromParent, Clone
<1>6. OwnNode = CHOOSE g : Eq(g)
  BY DEF OwnNode
<1>7. Eq(OwnNode)
  <2> HIDE DEF Eq
  <2>1. QED
    BY <1>5, <1>6
<1>8. OwnNode[1] = 1 /\ \A n \in Node \ {1} : OwnNode[n] = IF Clone(n) THEN n ELSE OwnNode[Parent[n]]
  BY <1>7, RootNode DEF Clone
<1> DEFINE S == {n \in Node : OwnNode[n] \in V}
<1>9. 1 \in S
  BY <1>1, <1>8, RootNode
<1>10. ASSUME NEW n \in Node \ {1}, Parent[n] \in S PROVE n \in S
  <2> HIDE DEF mk, V
  <2>1. mk[<<n, OwnNode[Parent[n]]>>] = (IF Clone(n) THEN n ELSE OwnNode[Parent[n]]) /\ mk[<<n, OwnNode[Parent[n]]>>] \in V
    BY <1>2, <1>10
  <2>2. QED
    BY <1>8, <2>1
<1>11. Node \subseteq S
  <2> HIDE DEF S
  <2>1. QED
    BY <1>9, <1>10, FromTheRoot
<1>12. QED
  BY <1>8, <1>11

-------------------------------------------------------------------------------
(* Activations.                                                                  *)

LEMMA SubSeqWhole ==
  ASSUME NEW S, NEW s \in Seq(S)
  PROVE  SubSeq(s, 1, Len(s)) = s
OBVIOUS

LEMMA SubSeqTwice ==
  ASSUME NEW S, NEW s \in Seq(S), NEW k \in 0..Len(s), NEW l \in 0..k
  PROVE  /\ SubSeq(s, 1, k) \in Seq(S) /\ Len(SubSeq(s, 1, k)) = k
         /\ SubSeq(SubSeq(s, 1, k), 1, l) = SubSeq(s, 1, l)
OBVIOUS

LEMMA SubSeqAppend ==
  ASSUME NEW S, NEW s \in Seq(S), NEW e \in S, NEW l \in 0..Len(s)
  PROVE  SubSeq(Append(s, e), 1, l) = SubSeq(s, 1, l)
OBVIOUS

(* The partitions of a phase, from those of the phase that holds it.             *)
LEMMA PartsFrom ==
  ASSUME NEW n \in Node \ {1}, NEW p \in Parts[n]
  PROVE  IF Handler(n) THEN \E q \in Parts[Parent[n]], i \in 1..Len(Tree[Parent[n]].parts) : p = Append(q, i)
         ELSE p \in Parts[Parent[n]]
<1>1. DOMAIN Tree[Parent[n]].parts = 1..Len(Tree[Parent[n]].parts)
  <2>1. Tree[Parent[n]].parts \in Seq(Seq(STRING))
    BY ParentFacts, NodeFacts
  <2>2. QED
    BY <2>1
<1>2. p \in Within(n, Parts[Parent[n]])
  BY PartsAre
<1>3. CASE Handler(n)
  <2>1. p \in {Append(q, i) : q \in Parts[Parent[n]], i \in DOMAIN Tree[Parent[n]].parts}
    BY <1>2, <1>3 DEF Within
  <2>2. PICK q \in Parts[Parent[n]], i \in DOMAIN Tree[Parent[n]].parts : p = Append(q, i)
    BY <2>1
  <2>3. QED
    BY <1>1, <1>3, <2>2
<1>4. CASE ~Handler(n)
  BY <1>2, <1>4 DEF Within
<1>5. QED
  BY <1>3, <1>4

LEMMA PartsLen ==
  ASSUME NEW n \in Node, NEW p \in Parts[n]
  PROVE  p \in Seq(Nat) /\ Len(p) = Depth[n]
<1> DEFINE S == {m \in Node : \A q \in Parts[m] : q \in Seq(Nat) /\ Len(q) = Depth[m]}
<1>1. 1 \in S
  BY PartsAre, DepthIs, RootNode
<1>2. ASSUME NEW m \in Node \ {1}, Parent[m] \in S PROVE m \in S
  <2>1. ASSUME NEW q \in Parts[m] PROVE q \in Seq(Nat) /\ Len(q) = Depth[m]
    <3>1. CASE Handler(m)
      <4>1. PICK r \in Parts[Parent[m]], i \in 1..Len(Tree[Parent[m]].parts) : q = Append(r, i)
        BY <3>1, PartsFrom
      <4>2. r \in Seq(Nat) /\ Len(r) = Depth[Parent[m]] /\ i \in Nat
        BY <1>2
      <4>3. Depth[m] = Depth[Parent[m]] + 1
        BY <3>1, DepthIs
      <4>4. QED
        BY <4>1, <4>2, <4>3
    <3>2. CASE ~Handler(m)
      <4>1. Depth[m] = Depth[Parent[m]] + 0 /\ Depth[m] \in Nat /\ Depth[Parent[m]] \in Nat
        BY <3>2, DepthIs, ParentFacts
      <4>2. QED
        BY <1>2, <3>2, <4>1, PartsFrom
    <3>3. QED
      BY <3>1, <3>2
  <2>2. QED
    BY <2>1
<1>3. Node \subseteq S
  <2> HIDE DEF S
  <2>1. QED
    BY <1>1, <1>2, FromTheRoot
<1>4. QED
  BY <1>3

LEMMA PartsPrefix ==
  ASSUME NEW n \in Node, NEW m \in Desc[n], NEW p \in Parts[m]
  PROVE  Depth[n] <= Depth[m] /\ SubSeq(p, 1, Depth[n]) \in Parts[n]
<1> DEFINE good(k) == Depth[n] <= Depth[k] /\ \A q \in Parts[k] : SubSeq(q, 1, Depth[n]) \in Parts[n]
           S == {k \in Node : k \in Desc[n] => good(k)}
<1>1. good(n)
  <2>1. \A q \in Parts[n] : SubSeq(q, 1, Depth[n]) = q
    BY PartsLen, SubSeqWhole
  <2>2. Depth[n] \in Nat
    BY DepthIs
  <2>3. Depth[n] <= Depth[n]
    BY <2>2
  <2>4. \A q \in Parts[n] : SubSeq(q, 1, Depth[n]) \in Parts[n]
    BY <2>1, Zenon
  <2>5. QED
    BY <2>3, <2>4
<1>2. 1 \in S
  <2>1. 1 \in Desc[n] => n = 1
    BY DescNodes, NodeFacts
  <2>2. QED
    BY <1>1, <2>1, RootNode
<1>3. ASSUME NEW k \in Node \ {1}, Parent[k] \in S PROVE k \in S
  <2>1. ASSUME k \in Desc[n], k # n PROVE good(k)
    <3>1. good(Parent[k]) /\ Parent[k] \in Node
      BY <1>3, <2>1, DescParent, ParentFacts
    <3>2. Depth[n] <= Depth[k]
      BY <3>1, DepthIs
    <3>3. ASSUME NEW q \in Parts[k] PROVE SubSeq(q, 1, Depth[n]) \in Parts[n]
      <4>1. CASE Handler(k)
        <5>1. PICK r \in Parts[Parent[k]], i \in 1..Len(Tree[Parent[k]].parts) : q = Append(r, i)
          BY <4>1, PartsFrom
        <5>2. r \in Seq(Nat) /\ Len(r) = Depth[Parent[k]] /\ i \in Nat /\ Depth[n] \in Nat
          BY <3>1, PartsLen, DepthIs
        <5>3. SubSeq(q, 1, Depth[n]) = SubSeq(r, 1, Depth[n])
          BY <3>1, <5>1, <5>2, SubSeqAppend
        <5>4. QED
          BY <3>1, <5>3
      <4>2. CASE ~Handler(k)
        BY <3>1, <4>2, PartsFrom
      <4>3. QED
        BY <4>1, <4>2
    <3>4. QED
      BY <3>2, <3>3
  <2>2. QED
    BY <1>1, <2>1
<1>4. Node \subseteq S
  <2> HIDE DEF S
  <2>1. QED
    BY <1>2, <1>3, FromTheRoot
<1>5. QED
  BY <1>4, DescNodes

LEMMA ActFacts ==
  ASSUME NEW a \in Act
  PROVE  /\ a = <<a[1], a[2]>> /\ a[1] \in Node /\ a[2] \in Parts[a[1]]
         /\ a[2] \in Seq(Nat) /\ Len(a[2]) = Depth[a[1]] /\ Depth[a[1]] \in Nat
<1>1. PICK n \in Node : a \in {n} \X Parts[n]
  BY DEF Act
<1>2. a[1] = n /\ a[2] \in Parts[n] /\ a = <<a[1], a[2]>>
  BY <1>1
<1>3. QED
  BY <1>2, PartsLen, DepthIs

LEMMA ActIs ==
  ASSUME NEW n \in Node, NEW p \in Parts[n]
  PROVE  <<n, p>> \in Act
BY DEF Act

(* Activation b is a or is run, at any depth, on behalf of a.                    *)
AtOrBelow(b, a) == b[1] \in Desc[a[1]] /\ SubSeq(b[2], 1, Len(a[2])) = a[2]

(* The activations that a calls.                                                 *)
Calls(a) ==
  IF Mode(a[1]) = "shard" THEN {Step(a, 1)} \cup {HandlerOf(a, i) : i \in 1..Partitions(a)} ELSE Subs(a)

LEMMA BelowSelf ==
  ASSUME NEW a \in Act
  PROVE  AtOrBelow(a, a)
BY ActFacts, DescSelf, SubSeqWhole DEF AtOrBelow

LEMMA BelowSameNode ==
  ASSUME NEW a \in Act, NEW b \in Act, AtOrBelow(b, a)
  PROVE  /\ b[1] >= a[1] /\ b[1] \in Nat /\ a[1] \in Nat
         /\ b[1] = a[1] => b = a
         /\ Len(a[2]) \in 0..Len(b[2])
<1>1. b[1] \in Desc[a[1]] /\ SubSeq(b[2], 1, Depth[a[1]]) = a[2]
  BY ActFacts DEF AtOrBelow
<1>2. b[1] >= a[1] /\ b[1] \in Nat /\ a[1] \in Nat
  BY <1>1, ActFacts, DescNodes, NodeFacts
<1>3. b[1] = a[1] => b = a
  <2>1. b[1] = a[1] => SubSeq(b[2], 1, Depth[a[1]]) = b[2]
    BY ActFacts, SubSeqWhole
  <2>2. QED
    BY <1>1, <2>1, ActFacts
<1>4. Len(a[2]) \in 0..Len(b[2])
  <2>1. a[1] \in Node /\ b[2] \in Parts[b[1]]
    BY ActFacts
  <2>2. Depth[a[1]] <= Depth[b[1]]
    BY <1>1, <2>1, PartsPrefix
  <2>3. QED
    BY <2>2, ActFacts
<1>5. QED
  BY <1>2, <1>3, <1>4

LEMMA BelowTrans ==
  ASSUME NEW a \in Act, NEW b \in Act, NEW c \in Act, AtOrBelow(b, a), AtOrBelow(c, b)
  PROVE  AtOrBelow(c, a)
<1>1. c[1] \in Desc[a[1]]
  BY ActFacts, DescTrans DEF AtOrBelow
<1>2. SubSeq(c[2], 1, Len(a[2])) = a[2]
  <2>1. Len(a[2]) \in 0..Len(b[2]) /\ Len(b[2]) \in 0..Len(c[2])
    BY BelowSameNode
  <2>2. SubSeq(SubSeq(c[2], 1, Len(b[2])), 1, Len(a[2])) = SubSeq(c[2], 1, Len(a[2]))
    BY <2>1, ActFacts, SubSeqTwice
  <2>3. QED
    BY <2>2 DEF AtOrBelow
<1>3. QED
  BY <1>1, <1>2 DEF AtOrBelow

(* What goes up from an activation to a phase around it.                         *)
LEMMA UpAct ==
  ASSUME NEW a \in Act, NEW n \in Node, a[1] \in Desc[n]
  PROVE  Up(a, n) \in Act /\ AtOrBelow(a, Up(a, n)) /\ Up(a, n)[1] = n
<1>1. Up(a, n) \in Act
  BY ActFacts, ActIs, PartsPrefix DEF Up
<1>2. Len(Up(a, n)[2]) = Depth[n] /\ Up(a, n)[1] = n
  BY <1>1, ActFacts DEF Up
<1>3. QED
  BY <1>1, <1>2 DEF AtOrBelow, Up

LEMMA UpIs ==
  ASSUME NEW a \in Act, NEW c \in Act, AtOrBelow(a, c)
  PROVE  Up(a, c[1]) = c
BY ActFacts DEF AtOrBelow, Up

-------------------------------------------------------------------------------
(* Calls.                                                                        *)

LEMMA ShardSteps ==
  ASSUME NEW n \in Node, Mode(n) = "shard"
  PROVE  /\ Len(Tree[n].steps) = 2
         /\ Handler(Tree[n].steps[2]) /\ ~Handler(Tree[n].steps[1]) /\ Partitioner(Tree[n].steps[1])
         /\ Kids(n) = {Tree[n].steps[1], Tree[n].steps[2]}
<1>1. Len(Tree[n].steps) = 2
  BY PhaseTreeAssumption DEF Mode
<1>2. Tree[n].steps[1] \in Kids(n) /\ Tree[n].steps[2] \in Kids(n) /\ Tree[n].steps[1] # Tree[n].steps[2]
  BY <1>1, StepFacts
<1>3. Parent[Tree[n].steps[1]] = n /\ Parent[Tree[n].steps[2]] = n
  BY <1>2, KidParent
<1>4. Kids(n) = {Tree[n].steps[1], Tree[n].steps[2]}
  BY <1>1, <1>2, StepFacts
<1>5. QED
  BY <1>1, <1>2, <1>3, <1>4, KidFacts DEF Handler, Partitioner, IsShardPart

LEMMA HandlerKid ==
  ASSUME NEW n \in Node, NEW k \in Kids(n)
  PROVE  Handler(k) <=> Mode(n) = "shard" /\ k = Tree[n].steps[2]
BY KidParent, KidFacts DEF Handler, IsShardPart

LEMMA PartitionsAre ==
  ASSUME NEW a \in Act
  PROVE  Partitions(a) \in Nat /\ DOMAIN Tree[a[1]].parts = 1..Partitions(a)
<1>1. Tree[a[1]].parts \in Seq(Seq(STRING))
  BY ActFacts, NodeFacts
<1>2. QED
  BY <1>1 DEF Partitions

LEMMA SubAct ==
  ASSUME NEW a \in Act, NEW k \in Kids(a[1]), ~Handler(k)
  PROVE  Sub(a, k) \in Act /\ AtOrBelow(Sub(a, k), a)
<1>1. k \in Node \ {1} /\ Parent[k] = a[1]
  BY ActFacts, KidFacts, KidParent
<1>2. Parts[k] = Parts[a[1]]
  <2>1. Parts[k] = Within(k, Parts[a[1]])
    BY <1>1, PartsAre
  <2>2. QED
    BY <2>1 DEF Within
<1>3. Sub(a, k) \in Act
  BY <1>1, <1>2, ActFacts, ActIs DEF Sub
<1>4. SubSeq(a[2], 1, Len(a[2])) = a[2] /\ k \in Desc[a[1]]
  BY ActFacts, SubSeqWhole, DescSelf
<1>5. QED
  BY <1>3, <1>4 DEF AtOrBelow, Sub

LEMMA HandlerAct ==
  ASSUME NEW a \in Act, Mode(a[1]) = "shard", NEW i \in 1..Partitions(a)
  PROVE  HandlerOf(a, i) \in Act /\ AtOrBelow(HandlerOf(a, i), a)
<1> DEFINE k == Tree[a[1]].steps[2]
<1>1. k \in Kids(a[1]) /\ Handler(k) /\ a[1] \in Node
  BY ActFacts, ShardSteps
<1>2. k \in Node \ {1} /\ Parent[k] = a[1]
  BY <1>1, KidFacts, KidParent
<1>3. Append(a[2], i) \in Parts[k]
  <2>1. Parts[k] = Within(k, Parts[a[1]]) /\ i \in DOMAIN Tree[a[1]].parts
    BY <1>2, PartsAre, PartitionsAre
  <2>2. Within(k, Parts[a[1]]) = {Append(p, j) : p \in Parts[a[1]], j \in DOMAIN Tree[a[1]].parts}
    BY <1>1, <1>2 DEF Within
  <2>3. a[2] \in Parts[a[1]]
    BY ActFacts
  <2>4. Append(a[2], i) \in {Append(p, j) : p \in Parts[a[1]], j \in DOMAIN Tree[a[1]].parts}
    BY <2>1, <2>3
  <2> HIDE DEF k
  <2>5. Append(a[2], i) \in Within(k, Parts[a[1]])
    BY <2>2, <2>4
  <2>6. QED
    BY <2>1, <2>5
<1>4. HandlerOf(a, i) \in Act
  BY <1>2, <1>3, ActIs DEF HandlerOf
<1>5. SubSeq(Append(a[2], i), 1, Len(a[2])) = a[2]
  <2>1. a[2] \in Seq(Nat) /\ i \in Nat
    BY ActFacts, PartitionsAre
  <2>2. SubSeq(Append(a[2], i), 1, Len(a[2])) = SubSeq(a[2], 1, Len(a[2]))
    BY <2>1, SubSeqAppend
  <2>3. QED
    BY <2>1, <2>2, SubSeqWhole
<1>6. QED
  BY <1>1, <1>4, <1>5, DescSelf DEF AtOrBelow, HandlerOf

LEMMA CallFacts ==
  ASSUME NEW a \in Act, NEW b \in Calls(a)
  PROVE  /\ b \in Act /\ AtOrBelow(b, a) /\ b # a
         /\ b[1] \in Kids(a[1]) /\ b[1] > a[1] /\ Parent[b[1]] = a[1]
<1>1. b[1] \in Kids(a[1]) /\ b \in Act /\ AtOrBelow(b, a)
  <2>1. CASE Mode(a[1]) = "shard" /\ b = Step(a, 1)
    <3>1. Tree[a[1]].steps[1] \in Kids(a[1]) /\ ~Handler(Tree[a[1]].steps[1])
      BY <2>1, ActFacts, ShardSteps
    <3>2. QED
      BY <2>1, <3>1, SubAct DEF Step, Sub
  <2>2. CASE Mode(a[1]) = "shard" /\ b # Step(a, 1)
    <3>1. PICK i \in 1..Partitions(a) : b = HandlerOf(a, i)
      BY <2>2 DEF Calls
    <3>2. QED
      BY <2>2, <3>1, ActFacts, ShardSteps, HandlerAct DEF HandlerOf
  <2>3. CASE Mode(a[1]) # "shard"
    <3>1. PICK k \in Kids(a[1]) : b = Sub(a, k)
      BY <2>3 DEF Calls, Subs
    <3>2. ~Handler(k)
      BY <2>3, ActFacts, HandlerKid
    <3>3. QED
      BY <3>1, <3>2, SubAct DEF Sub
  <2>4. QED
    BY <2>1, <2>2, <2>3
<1>2. QED
  BY <1>1, ActFacts, KidFacts, KidParent, NodeFacts

(* What is below an activation is at or below one that it calls.                 *)
LEMMA BelowSplit ==
  ASSUME NEW a \in Act, NEW b \in Act, AtOrBelow(b, a), b # a
  PROVE  \E c \in Calls(a) : AtOrBelow(b, c)
<1>1. b[1] \in Desc[a[1]] /\ b[1] # a[1] /\ a[1] \in Node
  BY BelowSameNode, ActFacts DEF AtOrBelow
<1>2. PICK k \in Kids(a[1]) : b[1] \in Desc[k]
  BY <1>1, DescIs
<1>3. k \in Node \ {1} /\ Parent[k] = a[1]
  BY <1>1, KidFacts, KidParent
<1> DEFINE c == Up(b, k)
<1>4. c \in Act /\ AtOrBelow(b, c) /\ c[1] = k
  BY <1>2, <1>3, UpAct
<1>5. c[2] \in Parts[k] /\ c[2] = SubSeq(b[2], 1, Depth[k]) /\ SubSeq(b[2], 1, Len(a[2])) = a[2]
  BY ZenonT(40), <1>4, ActFacts DEF Up, AtOrBelow
<1>6. Depth[k] \in Nat /\ Depth[a[1]] \in Nat /\ Depth[k] = Depth[a[1]] + (IF Handler(k) THEN 1 ELSE 0)
  BY <1>1, <1>3, DepthIs
<1>7. SubSeq(c[2], 1, Len(a[2])) = a[2]
  <2>1. Depth[k] \in 0..Len(b[2]) /\ Len(a[2]) \in 0..Depth[k] /\ b[2] \in Seq(Nat)
    BY SMTT(40), <1>2, <1>3, <1>6, ActFacts, PartsPrefix
  <2>2. QED
    BY <1>5, <2>1, SubSeqTwice
<1>8. CASE Handler(k)
  <2>1. Mode(a[1]) = "shard" /\ k = Tree[a[1]].steps[2]
    BY <1>1, <1>8, HandlerKid
  <2>2. PICK p \in Parts[a[1]], i \in 1..Partitions(a) : c[2] = Append(p, i)
    BY <1>3, <1>5, <1>8, PartsFrom DEF Partitions
  <2>3. p = a[2]
    <3>1. p \in Seq(Nat) /\ Len(p) = Len(a[2]) /\ i \in Nat
      <4>1. p \in Seq(Nat) /\ Len(p) = Depth[a[1]]
        BY <1>1, PartsLen
      <4>2. Len(a[2]) = Depth[a[1]]
        BY ActFacts
      <4>3. i \in Nat
        BY PartitionsAre
      <4>4. QED
        BY <4>1, <4>2, <4>3
    <3>2. SubSeq(Append(p, i), 1, Len(p)) = p
      BY <3>1, SubSeqAppend, SubSeqWhole
    <3>3. QED
      BY <1>7, <2>2, <3>1, <3>2
  <2>4. c = HandlerOf(a, i)
    BY <1>4, <2>1, <2>2, <2>3, ActFacts DEF HandlerOf
  <2>5. QED
    BY <1>4, <2>1, <2>4 DEF Calls
<1>9. CASE ~Handler(k)
  <2>1. c[2] = a[2]
    <3>1. Len(c[2]) = Len(a[2]) /\ c[2] \in Seq(Nat)
      BY <1>4, <1>6, <1>9, ActFacts
    <3>2. QED
      BY <1>7, <3>1, SubSeqWhole
  <2>2. c = Sub(a, k)
    BY <1>4, <2>1, ActFacts DEF Sub
  <2>3. CASE Mode(a[1]) = "shard"
    <3>1. k = Tree[a[1]].steps[1]
      BY <1>1, <1>9, <2>3, ShardSteps
    <3>2. QED
      BY <1>4, <2>2, <2>3, <3>1 DEF Calls, Step
  <2>4. CASE Mode(a[1]) # "shard"
    BY <1>4, <2>2, <2>4 DEF Calls, Subs
  <2>5. QED
    BY <2>3, <2>4
<1>10. QED
  BY <1>8, <1>9

LEMMA StepCalls ==
  ASSUME NEW a \in Act
  PROVE  /\ Mode(a[1]) # "shard" => Calls(a) = {Step(a, j) : j \in 1..Len(Tree[a[1]].steps)}
         /\ Mode(a[1]) # "shard" => Calls(a) = Subs(a)
         /\ Mode(a[1]) = "shard" => Step(a, 1) \in Calls(a) /\ \A i \in 1..Partitions(a) : HandlerOf(a, i) \in Calls(a)
         /\ Len(Tree[a[1]].steps) \in Nat
         /\ Mode(a[1]) = "workflow" => Calls(a) = IF Flow(a[1]) THEN {Step(a, 1)} ELSE {}
         /\ Mode(a[1]) = "activity" => Calls(a) = {}
         /\ Kids(a[1]) = {} => Subs(a) = {}
<1> DEFINE s == Tree[a[1]].steps
<1>1. a[1] \in Node /\ s \in Seq(Nat)
  BY ActFacts, NodeFacts
<1>2. Mode(a[1]) # "shard" => Calls(a) = Subs(a)
  BY DEF Calls
<1>3. Subs(a) = {Step(a, j) : j \in 1..Len(s)}
  <2>1. Kids(a[1]) = {s[j] : j \in 1..Len(s)}
    <3>1. DOMAIN s = 1..Len(s)
      BY <1>1
    <3>2. QED
      BY <3>1 DEF Kids, ToSet
  <2>2. QED
    BY <2>1 DEF Subs, Step
<1>4. Mode(a[1]) = "shard" => Step(a, 1) \in Calls(a) /\ \A i \in 1..Partitions(a) : HandlerOf(a, i) \in Calls(a)
  BY DEF Calls
<1>5. Mode(a[1]) = "workflow" => Calls(a) = IF Flow(a[1]) THEN {Step(a, 1)} ELSE {}
  <2> SUFFICES ASSUME Mode(a[1]) = "workflow" PROVE Calls(a) = IF Flow(a[1]) THEN {Step(a, 1)} ELSE {}
    OBVIOUS
  <2>1. Len(s) <= 1
    <3>1. Tree[a[1]].mode = "workflow"
      BY DEF Mode
    <3>2. QED
      BY <1>1, <3>1, PhaseTreeAssumption
  <2>2. Calls(a) = {Step(a, j) : j \in 1..Len(s)}
    BY <1>2, <1>3
  <2>3. CASE s = <<>>
    <3>1. 1..Len(s) = {}
      BY <1>1, <2>3
    <3>2. QED
      BY <2>2, <2>3, <3>1 DEF Flow
  <2>4. CASE s # <<>>
    <3>1. 1..Len(s) = {1}
      BY <1>1, <2>1, <2>4
    <3>2. QED
      BY <2>2, <2>4, <3>1 DEF Flow
  <2>5. QED
    BY <2>3, <2>4
<1>6. Mode(a[1]) = "activity" => Calls(a) = {}
  <2> SUFFICES ASSUME Mode(a[1]) = "activity" PROVE Calls(a) = {}
    OBVIOUS
  <2>1. Len(s) = 0
    BY <1>1, PhaseTreeAssumption DEF Mode
  <2>2. QED
    BY <1>2, <1>3, <2>1
<1>7. QED
  BY <1>1, <1>2, <1>3, <1>4, <1>5, <1>6 DEF Subs

LEMMA LeafBelow ==
  ASSUME NEW a \in Act, Leaf(a[1]), ~Flow(a[1]), NEW b \in Act, AtOrBelow(b, a)
  PROVE  b = a
BY BelowSplit, StepCalls DEF Leaf

-------------------------------------------------------------------------------
(* The workflow that runs an activation.                                         *)

LEMMA DomNodeFacts ==
  ASSUME NEW n \in Node, DomNode[n] # 0
  PROVE  DomNode[n] \in Node /\ Flow(DomNode[n]) /\ n \in Desc[DomNode[n]] /\ n # DomNode[n]
<1> DEFINE good(k) == DomNode[k] # 0 =>
             DomNode[k] \in Node /\ Flow(DomNode[k]) /\ k \in Desc[DomNode[k]] /\ k # DomNode[k]
           S == {k \in Node : good(k)}
<1>1. 1 \in S
  BY DomNodeIs, RootNode
<1>2. ASSUME NEW k \in Node \ {1}, Parent[k] \in S PROVE k \in S
  <2>1. Parent[k] \in Node /\ k \in Desc[Parent[k]] /\ Parent[k] < k /\ k \in Nat
    BY ParentFacts, DescSelf, NodeFacts
  <2>2. CASE Flow(Parent[k])
    BY <2>1, <2>2, DomNodeIs
  <2>3. CASE ~Flow(Parent[k])
    <3>1. DomNode[k] = DomNode[Parent[k]]
      BY <2>3, DomNodeIs
    <3>2. ASSUME DomNode[k] # 0 PROVE good(k)
      <4>1. DomNode[k] \in Node /\ Flow(DomNode[k]) /\ Parent[k] \in Desc[DomNode[k]]
        BY <1>2, <3>1, <3>2
      <4>2. k \in Desc[DomNode[k]] /\ DomNode[k] <= Parent[k] /\ DomNode[k] \in Nat /\ Parent[k] \in Nat
        BY <2>1, <4>1, DescTrans, DescNodes, NodeFacts
      <4>3. QED
        BY <2>1, <4>1, <4>2
    <3>3. QED
      BY <3>2
  <2>4. QED
    BY <2>2, <2>3
<1>3. Node \subseteq S
  <2> HIDE DEF S
  <2>1. QED
    BY <1>1, <1>2, FromTheRoot
<1>4. QED
  BY <1>3

LEMMA DomIs ==
  ASSUME NEW a \in Act
  PROVE  Dom[a] = IF DomNode[a[1]] = 0 THEN Main ELSE Up(a, DomNode[a[1]])
<1>1. Dom = [c \in Act |-> IF DomNode[c[1]] = 0 THEN Main ELSE Up(c, DomNode[c[1]])]
  BY Table1 DEF Dom
<1>2. QED
  BY <1>1

LEMMA DomFacts ==
  ASSUME NEW a \in Act, Dom[a] # Main
  PROVE  /\ Dom[a] \in Act /\ Dom[a] \in Children /\ Flow(Dom[a][1]) /\ Dom[a][1] = DomNode[a[1]]
         /\ AtOrBelow(a, Dom[a]) /\ a # Dom[a] /\ DomNode[a[1]] # 0 /\ Dom[a][1] < a[1]
<1>1. DomNode[a[1]] # 0 /\ Dom[a] = Up(a, DomNode[a[1]])
  BY DomIs
<1>2. DomNode[a[1]] \in Node /\ Flow(DomNode[a[1]]) /\ a[1] \in Desc[DomNode[a[1]]] /\ a[1] # DomNode[a[1]]
  BY <1>1, ActFacts, DomNodeFacts
<1>3. Dom[a] \in Act /\ AtOrBelow(a, Dom[a]) /\ Dom[a][1] = DomNode[a[1]]
  BY <1>1, <1>2, UpAct
<1>4. DomNode[a[1]] < a[1]
  <2>1. a[1] >= DomNode[a[1]] /\ a[1] \in Nat /\ DomNode[a[1]] \in Nat
    BY <1>2, ActFacts, DescNodes, NodeFacts
  <2>2. QED
    BY <1>2, <2>1
<1>5. QED
  BY <1>1, <1>2, <1>3, <1>4 DEF Children, Flow

LEMMA NotMain ==
  ASSUME NEW a \in Act
  PROVE  a # Main
BY ActFacts, NodeFacts DEF Main

LEMMA UpUp ==
  ASSUME NEW a \in Act, NEW b \in Act, AtOrBelow(b, a), NEW n \in Node, a[1] \in Desc[n]
  PROVE  Up(b, n) = Up(a, n)
<1>1. Depth[n] \in 0..Len(a[2]) /\ Len(a[2]) \in 0..Len(b[2]) /\ b[2] \in Seq(Nat)
  <2>1. Depth[n] <= Depth[a[1]] /\ Depth[n] \in Nat
    BY ActFacts, PartsPrefix, DepthIs
  <2>2. QED
    BY <2>1, ActFacts, BelowSameNode
<1>2. SubSeq(SubSeq(b[2], 1, Len(a[2])), 1, Depth[n]) = SubSeq(b[2], 1, Depth[n])
  BY <1>1, SubSeqTwice
<1>3. QED
  BY <1>2 DEF AtOrBelow, Up

LEMMA DomCalls ==
  ASSUME NEW a \in Act, NEW b \in Calls(a)
  PROVE  Dom[b] = IF Flow(a[1]) THEN a ELSE Dom[a]
<1>1. b \in Act /\ AtOrBelow(b, a) /\ b[1] \in Node \ {1} /\ Parent[b[1]] = a[1] /\ a[1] \in Node
  BY CallFacts, ActFacts, KidFacts
<1>2. CASE Flow(a[1])
  <2>1. DomNode[b[1]] = a[1] /\ a[1] # 0
    BY <1>1, <1>2, DomNodeIs, NodeFacts
  <2>2. QED
    BY <1>1, <1>2, <2>1, DomIs, UpIs
<1>3. CASE ~Flow(a[1])
  <2>1. DomNode[b[1]] = DomNode[a[1]]
    BY <1>1, <1>3, DomNodeIs
  <2>2. CASE DomNode[a[1]] = 0
    BY <1>1, <1>3, <2>1, <2>2, DomIs
  <2>3. CASE DomNode[a[1]] # 0
    <3>1. DomNode[a[1]] \in Node /\ a[1] \in Desc[DomNode[a[1]]]
      BY <1>1, <2>3, DomNodeFacts
    <3>2. Up(b, DomNode[a[1]]) = Up(a, DomNode[a[1]])
      BY <1>1, <3>1, UpUp
    <3>3. QED
      BY <1>1, <1>3, <2>1, <2>3, <3>2, DomIs
  <2>4. QED
    BY <2>2, <2>3
<1>4. QED
  BY <1>2, <1>3

(* What is below an activation runs in the same workflow or in one below it.     *)
LEMMA DomNodeBelow ==
  ASSUME NEW n \in Node, NEW m \in Desc[n]
  PROVE  DomNode[m] = DomNode[n] \/ (DomNode[m] # 0 /\ DomNode[m] \in Desc[n])
<1> DEFINE good(k) == DomNode[k] = DomNode[n] \/ (DomNode[k] # 0 /\ DomNode[k] \in Desc[n])
           S == {k \in Node : k \in Desc[n] => good(k)}
<1>1. 1 \in S
  <2>1. 1 \in Desc[n] => n = 1
    BY DescNodes, NodeFacts
  <2>2. QED
    BY <2>1, RootNode
<1>2. ASSUME NEW k \in Node \ {1}, Parent[k] \in S PROVE k \in S
  <2>1. ASSUME k \in Desc[n], k # n PROVE good(k)
    <3>1. Parent[k] \in Desc[n] /\ Parent[k] \in Node /\ good(Parent[k])
      BY <1>2, <2>1, DescParent
    <3>2. CASE Flow(Parent[k])
      BY <3>1, <3>2, DomNodeIs, NodeFacts
    <3>3. CASE ~Flow(Parent[k])
      BY <3>1, <3>3, DomNodeIs
    <3>4. QED
      BY <3>2, <3>3
  <2>2. QED
    BY <2>1
<1>3. Node \subseteq S
  <2> HIDE DEF S
  <2>1. QED
    BY <1>1, <1>2, FromTheRoot
<1>4. QED
  BY <1>3, DescNodes

LEMMA DomBelow ==
  ASSUME NEW a \in Act, NEW b \in Act, AtOrBelow(b, a)
  PROVE  \/ Dom[b] = Dom[a]
         \/ Dom[b] # Main /\ AtOrBelow(Dom[b], a)
<1>1. a[1] \in Node /\ b[1] \in Desc[a[1]]
  BY ActFacts DEF AtOrBelow
<1>2. CASE DomNode[b[1]] = DomNode[a[1]]
  <2>1. CASE DomNode[a[1]] = 0
    BY <1>2, <2>1, DomIs
  <2>2. CASE DomNode[a[1]] # 0
    <3>1. DomNode[a[1]] \in Node /\ a[1] \in Desc[DomNode[a[1]]]
      BY <1>1, <2>2, DomNodeFacts
    <3>2. QED
      BY <1>2, <2>2, <3>1, DomIs, UpUp
  <2>3. QED
    BY <2>1, <2>2
<1>3. CASE DomNode[b[1]] # 0 /\ DomNode[b[1]] \in Desc[a[1]]
  <2> DEFINE d == DomNode[b[1]]
  <2>1. Dom[b] = Up(b, d)
    BY <1>3, DomIs
  <2>2. d \in Node /\ b[1] \in Desc[d]
    BY <1>1, <1>3, DomNodeFacts, DescNodes
  <2>3. Up(b, d) \in Act /\ Up(b, d)[1] = d /\ Up(b, d)[2] = SubSeq(b[2], 1, Depth[d])
    BY <2>2, UpAct DEF Up
  <2>4. Depth[d] \in 0..Len(b[2]) /\ Len(a[2]) \in 0..Depth[d] /\ b[2] \in Seq(Nat)
    <3>1. Depth[a[1]] <= Depth[d] /\ Depth[d] \in Nat
      <4>1. Up(b, d)[2] \in Parts[d]
        BY <2>3, ActFacts
      <4>2. QED
        BY <1>1, <1>3, <2>2, <4>1, PartsPrefix, DepthIs
    <3>2. Depth[d] <= Depth[b[1]]
      BY <2>2, ActFacts, PartsPrefix
    <3>3. QED
      BY <3>1, <3>2, ActFacts
  <2>5. SubSeq(SubSeq(b[2], 1, Depth[d]), 1, Len(a[2])) = SubSeq(b[2], 1, Len(a[2]))
    BY <2>4, SubSeqTwice
  <2>6. AtOrBelow(Dom[b], a)
    BY <1>3, <2>1, <2>3, <2>5 DEF AtOrBelow
  <2>7. Dom[b] # Main
    BY <2>1, <2>3, NotMain
  <2>8. QED
    BY <2>6, <2>7
<1>4. QED
  BY <1>1, <1>2, <1>3, DomNodeBelow

(* Nothing else that its workflow runs is below a child workflow.                *)
LEMMA ChildIsTip ==
  ASSUME NEW y \in Children, NEW a \in Act, AtOrBelow(a, y), Dom[a] = Dom[y]
  PROVE  a = y
<1> SUFFICES ASSUME a # y PROVE FALSE
  OBVIOUS
<1>1. y \in Act /\ Mode(y[1]) = "workflow"
  BY DEF Children
<1>2. PICK c \in Calls(y) : AtOrBelow(a, c)
  BY <1>1, BelowSplit
<1>3. Flow(y[1])
  BY <1>1, <1>2, StepCalls
<1>4. c \in Act /\ Dom[c] = y /\ c[1] > y[1]
  BY <1>1, <1>2, <1>3, CallFacts, DomCalls
<1>5. Dom[y] # y
  <2>1. Dom[y] # Main => Dom[y][1] < y[1] /\ y[1] \in Nat
    BY <1>1, DomFacts, ActFacts, NodeFacts
  <2>2. QED
    BY <1>1, <2>1, NotMain
<1>6. Dom[y] # Main /\ AtOrBelow(Dom[y], c)
  BY <1>2, <1>4, <1>5, DomBelow
<1>7. Dom[y] \in Act /\ Dom[y][1] < y[1] /\ Dom[y][1] >= c[1]
  BY <1>1, <1>4, <1>6, DomFacts, BelowSameNode
<1>8. QED
  BY SMTT(40), <1>1, <1>4, <1>7, ActFacts, NodeFacts

(* A child below an activation is at or below one that the workflow of the       *)
(* activation runs.                                                              *)
LEMMA ChildBelow ==
  ASSUME NEW r \in Act, NEW x \in Children, AtOrBelow(x, r)
  PROVE  \E y \in Children : AtOrBelow(x, y) /\ AtOrBelow(y, r) /\ Dom[y] = Dom[r]
<1> DEFINE C == {y \in Children : AtOrBelow(x, y) /\ AtOrBelow(y, r)}
           M == {y[1] : y \in C}
<1>1. x \in Act /\ x \in C
  BY BelowSelf DEF Children
<1>2. PICK m \in M : \A k \in M : m <= k
  <2>1. M \subseteq Nat /\ M # {}
    BY <1>1, ActFacts, NodeFacts DEF Children
  <2> HIDE DEF M
  <2>2. QED
    BY <2>1, LeastNat
<1>3. PICK y \in C : y[1] = m
  BY <1>2
<1>4. y \in Act
  BY DEF Children
<1>5. CASE Dom[y] # Dom[r]
  <2>1. Dom[y] # Main /\ AtOrBelow(Dom[y], r)
    BY <1>4, <1>5, DomBelow
  <2>2. Dom[y] \in Act /\ Dom[y] \in Children /\ AtOrBelow(y, Dom[y]) /\ Dom[y][1] < y[1]
    BY <1>4, <2>1, DomFacts
  <2>3. AtOrBelow(x, Dom[y])
    BY <1>1, <1>4, <2>2, BelowTrans
  <2>4. Dom[y][1] \in M
    BY <2>1, <2>2, <2>3
  <2>5. y[1] <= Dom[y][1]
    BY <1>2, <1>3, <2>4
  <2>6. y[1] \in Nat /\ Dom[y][1] \in Nat
    BY <1>4, <2>2, ActFacts, NodeFacts
  <2>7. QED
    BY <2>2, <2>5, <2>6
<1>6. QED
  BY <1>5

-------------------------------------------------------------------------------
(* The work of an activation.                                                    *)

LEMMA WorkIs ==
  ASSUME NEW a \in Act
  PROVE  WorkUnder(a) = {w \in Work : AtOrBelow(w, a)}
BY DEF WorkUnder, AtOrBelow

LEMMA RootAct == Root \in Act /\ Dom[Root] = Main /\ WorkUnder(Root) = Work
<1>1. Root \in Act
  BY RootNode, PartsAre, ActIs DEF Root
<1>2. Dom[Root] = Main
  BY <1>1, DomIs, DomNodeIs DEF Root
<1>3. ASSUME NEW w \in Work PROVE AtOrBelow(w, Root)
  <2>1. w[1] \in Desc[1] /\ w[2] \in Seq(Nat)
    BY ActFacts, DescRoot DEF Work
  <2>2. SubSeq(w[2], 1, Len(<<>>)) = <<>>
    BY <2>1
  <2>3. QED
    BY <2>1, <2>2 DEF AtOrBelow, Root
<1>4. QED
  BY <1>1, <1>2, <1>3, WorkIs

LEMMA AllBelowRoot ==
  ASSUME NEW a \in Act
  PROVE  AtOrBelow(a, Root)
<1>1. a[1] \in Desc[1] /\ a[2] \in Seq(Nat)
  BY ActFacts, DescRoot
<1>2. SubSeq(a[2], 1, Len(<<>>)) = <<>>
  BY <1>1
<1>3. QED
  BY <1>1, <1>2 DEF AtOrBelow, Root

===============================================================================
