------------------------------ MODULE FlowCtxProof ------------------------------
(* Proofs about FlowCtxs, for every input, any partitions, names and numbers of  *)
(* FlowCtxs.                                                                     *)
EXTENDS FlowCtx, Induction, TLAPS

-------------------------------------------------------------------------------
(* Sequences of anything.                                                        *)

IsSeq(s) == Len(s) \in Nat /\ s = [i \in 1..Len(s) |-> s[i]]

LEMMA SeqIs == ASSUME NEW s, IsSeq(s) PROVE DOMAIN s = 1..Len(s)
BY DEF IsSeq

LEMMA InSeq == ASSUME NEW S, NEW s \in Seq(S) PROVE IsSeq(s)
<1>1. Len(s) \in Nat /\ s \in [1..Len(s) -> S]
  OBVIOUS
<1>2. QED
  BY <1>1 DEF IsSeq

LEMMA SeqSome == ASSUME NEW s, IsSeq(s) PROVE \E S : s \in Seq(S)
<1>1. s \in Seq({s[i] : i \in 1..Len(s)})
  <2> DEFINE S == {s[i] : i \in 1..Len(s)}
  <2>1. s \in [1..Len(s) -> S]
    BY DEF IsSeq
  <2>2. s \in Seq(S)
    <3> HIDE DEF S
    <3>1. QED
      BY <2>1 DEF IsSeq
  <2>3. QED
    BY <2>2
<1>2. QED
  BY <1>1

LEMMA AppendIs ==
  ASSUME NEW s, IsSeq(s), NEW e
  PROVE  /\ IsSeq(Append(s, e)) /\ Len(Append(s, e)) = Len(s) + 1
         /\ \A i \in 1..Len(s) : Append(s, e)[i] = s[i]
         /\ Append(s, e)[Len(s) + 1] = e
<1>1. PICK S : s \in Seq(S)
  BY SeqSome
<1> DEFINE T == S \cup {e}
<1>2. s \in Seq(T) /\ e \in T
  BY <1>1
<1> HIDE DEF T
<1>3. Append(s, e) \in Seq(T) /\ Len(Append(s, e)) = Len(s) + 1
  BY <1>2
<1>4. IsSeq(Append(s, e))
  BY <1>3, InSeq
<1>5. QED
  BY <1>2, <1>4, <1>3

LEMMA ConcatIs ==
  ASSUME NEW s, IsSeq(s), NEW t, IsSeq(t)
  PROVE  /\ IsSeq(s \o t) /\ Len(s \o t) = Len(s) + Len(t)
         /\ \A i \in 1..Len(s) : (s \o t)[i] = s[i]
         /\ \A i \in 1..Len(t) : (s \o t)[Len(s) + i] = t[i]
<1>1. PICK S : s \in Seq(S)
  BY SeqSome
<1>2. PICK S2 : t \in Seq(S2)
  BY SeqSome
<1> DEFINE T == S \cup S2
<1>3. s \in Seq(T) /\ t \in Seq(T)
  BY <1>1, <1>2
<1> HIDE DEF T
<1>4. s \o t \in Seq(T) /\ Len(s \o t) = Len(s) + Len(t)
  BY <1>3
<1>5. IsSeq(s \o t)
  BY <1>4, InSeq
<1>6. QED
  BY <1>3, <1>4, <1>5

LEMMA PairIs ==
  ASSUME NEW a, NEW b
  PROVE  IsSeq(<<a, b>>) /\ Len(<<a, b>>) = 2 /\ <<a, b>>[1] = a /\ <<a, b>>[2] = b
BY DEF IsSeq

ReplacedAt(t, s, i, e) == t = [s EXCEPT ![i] = e]

LEMMA ExceptIs ==
  ASSUME NEW s, IsSeq(s), NEW i \in 1..Len(s), NEW e, NEW t, ReplacedAt(t, s, i, e)
  PROVE  IsSeq(t) /\ Len(t) = Len(s) /\ \A j \in 1..Len(s) : t[j] = IF j = i THEN e ELSE s[j]
<1>1. PICK n \in Nat : n = Len(s)
  BY DEF IsSeq
<1>2. t = [j \in 1..n |-> IF j = i THEN e ELSE s[j]]
  BY <1>1 DEF IsSeq, ReplacedAt
<1>3. Len(t) = n
  BY <1>2
<1>4. QED
  BY <1>1, <1>2, <1>3 DEF IsSeq

LEMMA SeqEq ==
  ASSUME NEW s, IsSeq(s), NEW t, IsSeq(t), Len(s) = Len(t), \A i \in 1..Len(s) : s[i] = t[i]
  PROVE  s = t
BY DEF IsSeq

TwoAfter(u, s, a, b) == u = s \o <<a, b>>

LEMMA TwoMore ==
  ASSUME NEW s, IsSeq(s), NEW a, NEW b, NEW u, TwoAfter(u, s, a, b)
  PROVE  /\ IsSeq(u) /\ Len(u) = Len(s) + 2
         /\ \A i \in 1..Len(s) : u[i] = s[i]
         /\ u[Len(s) + 1] = a /\ u[Len(s) + 2] = b
<1>1. PICK t : t = <<a, b>>
  OBVIOUS
<1>2. IsSeq(t) /\ Len(t) = 2 /\ t[1] = a /\ t[2] = b
  BY <1>1, PairIs
<1>3. IsSeq(t)
  BY <1>2
<1>4. IsSeq(s \o t)
  BY <1>3, ConcatIs
<1>5. Len(s \o t) = Len(s) + Len(t)
  BY <1>3, ConcatIs
<1>6. \A i \in 1..Len(s) : (s \o t)[i] = s[i]
  BY <1>3, ConcatIs
<1>7. \A i \in 1..Len(t) : (s \o t)[Len(s) + i] = t[i]
  BY <1>3, ConcatIs
<1>8. u = s \o t
  BY <1>1 DEF TwoAfter
<1>9. u[Len(s) + 1] = a /\ u[Len(s) + 2] = b
  <2>1. 1 \in 1..Len(t) /\ 2 \in 1..Len(t)
    BY <1>2
  <2>2. (s \o t)[Len(s) + 1] = t[1] /\ (s \o t)[Len(s) + 2] = t[2]
    BY <2>1, <1>7
  <2>3. QED
    BY <2>2, <1>2, <1>8
<1>10. QED
  BY <1>2, <1>4, <1>5, <1>6, <1>8, <1>9

(* The first of two is written over.                                             *)
LEMMA FirstOfTwo ==
  ASSUME NEW s, IsSeq(s), NEW a, NEW b, NEW u, TwoAfter(u, s, a, b),
         NEW x, NEW t, t = [u EXCEPT ![Len(s) + 1] = x]
  PROVE  TwoAfter(t, s, x, b)
<1>1. PICK n \in Nat : n = Len(s)
  BY DEF IsSeq
<1>2. IsSeq(u) /\ Len(u) = n + 2 /\ u[n + 2] = b /\ \A i \in 1..n : u[i] = s[i]
  BY <1>1, TwoMore
<1>3. IsSeq(t) /\ Len(t) = n + 2 /\ \A j \in 1..(n + 2) : t[j] = IF j = n + 1 THEN x ELSE u[j]
  <2>1. PICK i : i = n + 1
    OBVIOUS
  <2>2. i \in 1..Len(u) /\ ReplacedAt(t, u, i, x)
    BY <1>1, <1>2, <2>1 DEF ReplacedAt
  <2>3. IsSeq(t) /\ Len(t) = Len(u) /\ \A j \in 1..Len(u) : t[j] = IF j = i THEN x ELSE u[j]
    BY <1>2, <2>2, ExceptIs
  <2>4. QED
    BY <1>2, <2>1, <2>3
<1>4. PICK r : r = s \o <<x, b>>
  OBVIOUS
<1>5. TwoAfter(r, s, x, b)
  BY <1>4 DEF TwoAfter
<1>6. IsSeq(r) /\ Len(r) = n + 2 /\ r[n + 1] = x /\ r[n + 2] = b /\ \A i \in 1..n : r[i] = s[i]
  BY <1>1, <1>5, TwoMore
<1>7. \A j \in 1..(n + 2) : t[j] = r[j]
  <2>1. ASSUME NEW j \in 1..(n + 2) PROVE t[j] = r[j]
    <3>1. j \in 1..n \/ j = n + 1 \/ j = n + 2
      BY <1>1
    <3>2. QED
      BY <3>1, <1>1, <1>2, <1>3, <1>6
  <2>2. QED
    BY <2>1
<1>8. t = r
  BY <1>3, <1>6, <1>7, SeqEq
<1>9. QED
  BY <1>5, <1>8

-------------------------------------------------------------------------------
(* The maps of the FlowCtxs.                                                     *)

Fields == {"input", "outputs", "kind", "up", "around", "st", "results", "items"}

(* Each FlowCtx has two maps of its own, made with it.                           *)
Owned(c) ==
  /\ DOMAIN ctx[c] = Fields
  /\ ctx[c].input = 2 * c - 1 /\ ctx[c].outputs = 2 * c

(* What a FlowCtx is for: it is younger than the one it was made in, which waits  *)
(* for it, and no partition is entered from within a handler.                    *)
Placed(c) ==
  /\ c = 1 => ctx[c].kind = "main" /\ ctx[c].up = 0
  /\ c # 1 => /\ ctx[c].kind \in {"branch", "handler", "remote"}
              /\ ctx[c].up \in 1..(c - 1)
              /\ ctx[c].st = "live" => ctx[ctx[c].up].st = "live"
              /\ ctx[c].kind = "handler" => ctx[ctx[c].up].kind # "handler"

Counted(c) ==
  /\ IsSeq(ctx[c].results)
  /\ ctx[c].kind # "handler" => Len(ctx[c].results) < Len(Coords)

Made ==
  /\ IsSeq(heap) /\ IsSeq(ctx) /\ Len(ctx) > 0 /\ Len(heap) = 2 * Len(ctx)
  /\ \A c \in FlowCtxs : Owned(c) /\ Placed(c) /\ Counted(c)

LEMMA ForIs ==
  ASSUME NEW new, NEW kind, NEW c, NEW around
  PROVE  LET f == For(new, kind, c, around)
         IN  /\ DOMAIN f = Fields
             /\ f.input = new.input /\ f.outputs = new.outputs /\ f.kind = kind /\ f.up = c
             /\ f.around = around /\ f.st = "live" /\ f.results = <<>> /\ f.items = 0
BY DEF For, Fields

LEMMA Ctxs == Made => FlowCtxs = 1..Len(ctx) /\ Len(ctx) \in Nat
BY SeqIs DEF Made, FlowCtxs, IsSeq

(* A FlowCtx whose fields are kept.                                              *)
Refs(cs, c) ==
  /\ DOMAIN cs[c] = Fields
  /\ cs[c].input = ctx[c].input /\ cs[c].outputs = ctx[c].outputs
  /\ cs[c].kind = ctx[c].kind /\ cs[c].up = ctx[c].up /\ cs[c].around = ctx[c].around

(* The contents of the maps after a step, of those that were there before it.    *)
Contents(c, input, outputs) == In(c)' = input /\ Outs(c)' = outputs
Kept(c) == Contents(c, In(c), Outs(c))

(* A step that makes one FlowCtx, of two new maps.                               *)
Appended(cs, kind, c, around) ==
  ctx' = Append(cs, For([input |-> Len(heap) + 1, outputs |-> Len(heap) + 2], kind, c, around))

LEMMA OneMore ==
  ASSUME Made, NEW cs, IsSeq(cs), Len(cs) = Len(ctx), \A c \in FlowCtxs : Refs(cs, c),
         NEW x, NEW y, TwoAfter(heap', heap, x, y),
         NEW kind, NEW c, NEW around, NEW n, n = Len(ctx) + 1,
         Appended(cs, kind, c, around)
  PROVE  /\ IsSeq(heap') /\ IsSeq(ctx') /\ Len(ctx') = n /\ Len(heap') = 2 * n
         /\ FlowCtxs' = FlowCtxs \cup {n} /\ n \notin FlowCtxs
         /\ \A d \in FlowCtxs : ctx'[d] = cs[d] /\ Owned(d)' /\ Kept(d)
         /\ Owned(n)' /\ Contents(n, x, y)
         /\ ctx'[n].kind = kind /\ ctx'[n].up = c /\ ctx'[n].around = around
         /\ ctx'[n].st = "live" /\ ctx'[n].results = <<>> /\ ctx'[n].items = 0
<1> DEFINE new == [input |-> Len(heap) + 1, outputs |-> Len(heap) + 2]
           f == For(new, kind, c, around)
<1>1. IsSeq(heap) /\ IsSeq(ctx) /\ Len(heap) = 2 * Len(ctx) /\ Len(ctx) \in Nat
  BY DEF Made, IsSeq
<1>2. /\ DOMAIN f = Fields /\ f.input = 2 * n - 1 /\ f.outputs = 2 * n
      /\ f.kind = kind /\ f.up = c /\ f.around = around
      /\ f.st = "live" /\ f.results = <<>> /\ f.items = 0
  <2>1. new.input = 2 * n - 1 /\ new.outputs = 2 * n
    BY <1>1
  <2> HIDE DEF new
  <2>2. QED
    BY <2>1, ForIs
<1>3. ctx' = Append(cs, f)
  BY DEF Appended
<1> HIDE DEF f
<1>4. /\ IsSeq(ctx') /\ Len(ctx') = n /\ ctx'[n] = f /\ \A d \in 1..Len(ctx) : ctx'[d] = cs[d]
  BY <1>3, <1>1, AppendIs
<1>5. /\ IsSeq(heap') /\ Len(heap') = 2 * n
      /\ heap'[2 * n - 1] = x /\ heap'[2 * n] = y /\ \A i \in 1..Len(heap) : heap'[i] = heap[i]
  <2>2. PICK h : h = heap
    OBVIOUS
  <2>1. TwoAfter(heap', h, x, y)
    BY <2>2
  <2>3. /\ IsSeq(heap') /\ Len(heap') = Len(h) + 2 /\ \A i \in 1..Len(h) : heap'[i] = h[i]
        /\ heap'[Len(h) + 1] = x /\ heap'[Len(h) + 2] = y
    BY <1>1, <2>1, <2>2, TwoMore
  <2>4. Len(heap) + 1 = 2 * n - 1 /\ Len(heap) + 2 = 2 * n
    BY <1>1
  <2>5. QED
    BY <2>2, <2>3, <2>4
<1>6. FlowCtxs = 1..Len(ctx) /\ FlowCtxs' = 1..n
  BY <1>1, <1>4, SeqIs DEF FlowCtxs
<1>7. FlowCtxs' = FlowCtxs \cup {n} /\ n \notin FlowCtxs
  BY <1>6, <1>1
<1>8. ASSUME NEW d \in FlowCtxs PROVE ctx'[d] = cs[d] /\ Owned(d)' /\ Kept(d)
  <2>1. d \in 1..Len(ctx) /\ ctx'[d] = cs[d] /\ Owned(d) /\ Refs(cs, d)
    BY <1>4, <1>6 DEF Made
  <2>2. 2 * d - 1 \in 1..Len(heap) /\ 2 * d \in 1..Len(heap)
    BY <2>1, <1>1
  <2>3. Owned(d)'
    BY <2>1 DEF Owned, Refs
  <2>4. QED
    BY <2>1, <2>2, <2>3, <1>5 DEF Owned, Kept, Contents, In, Outs
<1>9. Owned(n)' /\ Contents(n, x, y)
  BY <1>2, <1>4, <1>5 DEF Owned, Contents, In, Outs
<1>10. QED
  BY <1>2, <1>4, <1>5, <1>7, <1>8, <1>9

(* A step that writes to the outputs of one FlowCtx.                             *)
LEMMA OneWritten ==
  ASSUME Made, NEW c \in FlowCtxs, NEW m, heap' = [heap EXCEPT ![ctx[c].outputs] = m],
         IsSeq(ctx'), Len(ctx') = Len(ctx), \A d \in FlowCtxs : Refs(ctx', d)
  PROVE  /\ IsSeq(heap') /\ Len(heap') = 2 * Len(ctx') /\ FlowCtxs' = FlowCtxs
         /\ \A d \in FlowCtxs : Owned(d)'
         /\ Contents(c, In(c), m) /\ \A d \in FlowCtxs \ {c} : Kept(d)
<1>1. IsSeq(heap) /\ Len(heap) = 2 * Len(ctx) /\ Len(ctx) \in Nat /\ FlowCtxs = 1..Len(ctx)
  BY Ctxs DEF Made
<1>2. heap' = [i \in 1..Len(heap) |-> IF i = ctx[c].outputs THEN m ELSE heap[i]]
  BY <1>1 DEF IsSeq
<1>3. IsSeq(heap') /\ Len(heap') = Len(heap)
  <2>1. PICK n \in Nat : n = Len(heap)
    BY <1>1 DEF IsSeq
  <2>2. PICK r : r = ctx[c].outputs
    OBVIOUS
  <2>3. heap' = [i \in 1..n |-> IF i = r THEN m ELSE heap[i]]
    BY <1>2, <2>1, <2>2
  <2>4. Len(heap') = n
    BY <2>3
  <2>5. QED
    BY <2>1, <2>3, <2>4 DEF IsSeq
<1>4. FlowCtxs' = FlowCtxs
  BY <1>1, SeqIs DEF FlowCtxs
<1>5. ASSUME NEW d \in FlowCtxs
      PROVE  /\ Owned(d)' /\ In(d)' = In(d)
             /\ Outs(d)' = IF d = c THEN m ELSE Outs(d)
  <2>1. Owned(d) /\ Owned(c) /\ Refs(ctx', d) /\ d \in 1..Len(ctx) /\ c \in 1..Len(ctx)
    BY <1>1 DEF Made
  <2>2. 2 * d - 1 \in 1..Len(heap) /\ 2 * d \in 1..Len(heap) /\ 2 * d - 1 # 2 * c /\ (2 * d = 2 * c <=> d = c)
    BY <2>1, <1>1
  <2>3. Owned(d)' /\ ctx'[d].input = 2 * d - 1 /\ ctx'[d].outputs = 2 * d
    BY <2>1 DEF Owned, Refs
  <2>4. heap'[2 * d - 1] = heap[2 * d - 1] /\ heap'[2 * d] = IF d = c THEN m ELSE heap[2 * d]
    BY <2>1, <2>2, <1>2 DEF Owned
  <2>5. QED
    BY <2>1, <2>3, <2>4 DEF Owned, In, Outs
<1>6. QED
  BY <1>1, <1>3, <1>4, <1>5 DEF Contents, Kept

-------------------------------------------------------------------------------
(* What each action does to the FlowCtxs.                                        *)

Settled(d) == ctx'[d].st = "joined" => ctx[d].st = "joined"

(* FlowCtxs ns are made for c, from what it holds.                               *)
Adds(ns, kind, c, around, input, outputs) ==
  /\ FlowCtxs' = FlowCtxs \cup ns /\ ns \cap FlowCtxs = {}
  /\ \A d \in FlowCtxs : Refs(ctx', d) /\ Kept(d) /\ Settled(d)
  /\ \A n \in ns : /\ Contents(n, input, outputs)
                    /\ ctx'[n].kind = kind /\ ctx'[n].up = c /\ ctx'[n].around = around
                    /\ ctx'[n].st = "live" /\ ctx'[n].results = <<>> /\ ctx'[n].items = 0
  /\ UNCHANGED <<put, items>>

Writes(c, m) ==
  /\ ctx[c].st = "live" /\ FlowCtxs' = FlowCtxs
  /\ \A d \in FlowCtxs : Refs(ctx', d)
  /\ Contents(c, In(c), m) /\ \A d \in FlowCtxs \ {c} : Kept(d)

Merges(b) ==
  /\ ctx[b].kind = "branch" /\ Writes(ctx[b].up, Over(Outs(b), Outs(ctx[b].up)))
  /\ \A d \in FlowCtxs \ {b} : Settled(d)
  /\ UNCHANGED <<put, items>>

Puts(c, m) ==
  /\ put < Len(Names) /\ put' = put + 1
  /\ Writes(c, Over(Under(NextName, m), Outs(c)))
  /\ \A d \in FlowCtxs : Settled(d)

(* A partition is done.                                                          *)
Rests ==
  /\ FlowCtxs' = FlowCtxs
  /\ \A d \in FlowCtxs : Refs(ctx', d) /\ Kept(d) /\ Settled(d)
  /\ UNCHANGED <<put, items>>

(* One FlowCtx may end, that none waits for.                                     *)
Ends(e) ==
  \A d \in FlowCtxs : ctx'[d].st = ctx[d].st \/ (d = e /\ ~Busy(e) /\ ctx'[e].st # "live")

(* What becomes of the results of partitions.                                    *)
Hold(c, results, n) ==
  \A d \in FlowCtxs :
    /\ ctx'[d].results = IF d = c THEN results ELSE ctx[d].results
    /\ ctx'[d].items = IF d = c THEN n ELSE ctx[d].items
Unheld == \A d \in FlowCtxs : ctx'[d].results = ctx[d].results /\ ctx'[d].items = ctx[d].items

LEMMA PlacedKeeps ==
  ASSUME Made, \A d \in FlowCtxs : Refs(ctx', d), NEW e, Ends(e)
  PROVE  \A d \in FlowCtxs : Placed(d)'
<1> SUFFICES ASSUME NEW d \in FlowCtxs PROVE Placed(d)'
  OBVIOUS
<1>1. FlowCtxs = 1..Len(ctx) /\ Len(ctx) \in Nat
  BY Ctxs
<1>2. Placed(d) /\ Refs(ctx', d) /\ (d # 1 => ctx[d].up \in FlowCtxs /\ Placed(ctx[d].up) /\ Refs(ctx', ctx[d].up))
  BY SMTT(40), <1>1 DEF Made, Placed
<1>3. d # 1 /\ ctx'[d].st = "live" => ctx'[ctx[d].up].st = "live"
  BY <1>2 DEF Placed, Ends, Busy
<1>4. QED
  BY <1>2, <1>3 DEF Placed, Refs

LEMMA ForkIs ==
  ASSUME Made, NEW c \in FlowCtxs, Fork(c)
  PROVE  Made' /\ Unheld /\ Adds({Len(ctx) + 1, Len(ctx) + 2}, "branch", c, ctx[c].around, In(c), Outs(c))
<1>1. FlowCtxs = 1..Len(ctx) /\ IsSeq(ctx) /\ IsSeq(heap) /\ Len(heap) = 2 * Len(ctx)
  BY Ctxs DEF Made
<1>2. PICK n \in Nat : n = Len(ctx)
  BY <1>1 DEF IsSeq
<1>3. PICK x, y, h, cs, around : x = In(c) /\ y = Outs(c) /\ h = heap /\ cs = ctx /\ around = ctx[c].around
  OBVIOUS
<1> DEFINE f(k) == For([input |-> k - 1, outputs |-> k], "branch", c, around)
<1>4. PICK h1 : h1 = h \o <<x, y>>
  OBVIOUS
<1>5. /\ IsSeq(h1) /\ Len(h1) = 2 * n + 2
      /\ \A i \in 1..2*n : h1[i] = h[i]
      /\ h1[2 * n + 1] = x /\ h1[2 * n + 2] = y
  <2>1. TwoAfter(h1, h, x, y)
    BY <1>4 DEF TwoAfter
  <2>2. IsSeq(h) /\ Len(h) = 2 * n
    BY <1>1, <1>2, <1>3
  <2>3. /\ IsSeq(h1) /\ Len(h1) = Len(h) + 2
        /\ \A i \in 1..Len(h) : h1[i] = h[i]
        /\ h1[Len(h) + 1] = x /\ h1[Len(h) + 2] = y
    <3> HIDE DEF f
    <3>1. IsSeq(h)
      BY <2>2
    <3>2. QED
      BY ONLY <3>1, <2>1, TwoMore
  <2>4. QED
    BY <2>2, <2>3
<1>6. heap' = h1 \o <<x, y>> /\ ctx' = cs \o <<f(2 * n + 2), f(2 * n + 4)>>
  <2>1. /\ heap' = h1 \o <<x, y>>
        /\ ctx' = cs \o <<For([input |-> Len(h) + 1, outputs |-> Len(h) + 2], "branch", c, around),
                          For([input |-> Len(h1) + 1, outputs |-> Len(h1) + 2], "branch", c, around)>>
    <3>1. clone(heap, c) = [heap |-> h1, input |-> Len(h) + 1, outputs |-> Len(h) + 2]
      BY <1>3, <1>4 DEF clone
    <3>2. clone(h1, c) = [heap |-> h1 \o <<x, y>>, input |-> Len(h1) + 1, outputs |-> Len(h1) + 2]
      BY <1>3 DEF clone
    <3>3. PICK ca, cb : ca = clone(heap, c) /\ cb = clone(h1, c)
      OBVIOUS
    <3>4. ca.heap = h1 /\ cb.heap = h1 \o <<x, y>>
      BY <3>1, <3>2, <3>3
    <3>5. heap' = cb.heap /\ ctx' = cs \o <<For(ca, "branch", c, around), For(cb, "branch", c, around)>>
      BY <1>3, <3>3, <3>4 DEF Fork
    <3>6. /\ For(ca, "branch", c, around) = For([input |-> Len(h) + 1, outputs |-> Len(h) + 2], "branch", c, around)
          /\ For(cb, "branch", c, around) = For([input |-> Len(h1) + 1, outputs |-> Len(h1) + 2], "branch", c, around)
      BY <3>1, <3>2, <3>3 DEF For
    <3>7. QED
      BY <3>4, <3>5, <3>6
  <2>2. /\ Len(h) + 1 = (2 * n + 2) - 1 /\ Len(h) + 2 = 2 * n + 2
        /\ Len(h1) + 1 = (2 * n + 4) - 1 /\ Len(h1) + 2 = 2 * n + 4
    BY <1>1, <1>2, <1>3, <1>5
  <2>3. QED
    BY <2>1, <2>2
<1>7. /\ IsSeq(heap') /\ Len(heap') = 2 * n + 4
      /\ \A i \in 1..2*n : heap'[i] = heap[i]
      /\ heap'[2 * n + 1] = x /\ heap'[2 * n + 2] = y
      /\ heap'[2 * n + 3] = x /\ heap'[2 * n + 4] = y
  <2>1. /\ IsSeq(heap') /\ Len(heap') = Len(h1) + 2
        /\ \A i \in 1..Len(h1) : heap'[i] = h1[i]
        /\ heap'[Len(h1) + 1] = x /\ heap'[Len(h1) + 2] = y
    <3>1. TwoAfter(heap', h1, x, y)
      BY <1>6 DEF TwoAfter
    <3>2. QED
      BY SMTT(40), <1>5, <3>1, TwoMore
  <2>2. QED
    BY <2>1, <1>5, <1>3
<1>8. \A k : /\ DOMAIN f(k) = Fields /\ f(k).input = k - 1 /\ f(k).outputs = k
             /\ f(k).kind = "branch" /\ f(k).up = c /\ f(k).around = around
             /\ f(k).st = "live" /\ f(k).results = <<>> /\ f(k).items = 0
  BY ForIs
<1> HIDE DEF f
<1>9. /\ IsSeq(ctx') /\ Len(ctx') = n + 2 /\ \A d \in FlowCtxs : ctx'[d] = ctx[d]
      /\ ctx'[n + 1] = f(2 * n + 2) /\ ctx'[n + 2] = f(2 * n + 4)
  <2>1. PICK fa, fb : fa = f(2 * n + 2) /\ fb = f(2 * n + 4)
    OBVIOUS
  <2>2. TwoAfter(ctx', cs, fa, fb)
    BY <1>6, <2>1 DEF TwoAfter
  <2>3. IsSeq(cs) /\ Len(cs) = n /\ FlowCtxs = 1..n
    BY <1>1, <1>2, <1>3
  <2>4. QED
    BY SMTT(40), <1>3, <2>1, <2>2, <2>3, TwoMore
<1>10. FlowCtxs' = FlowCtxs \cup {n + 1, n + 2} /\ {n + 1, n + 2} \cap FlowCtxs = {}
  <2>1. FlowCtxs' = 1..(n + 2) /\ FlowCtxs = 1..n
    BY <1>1, <1>2, <1>9, SeqIs DEF FlowCtxs
  <2>2. QED
    BY <2>1
<1>11. ASSUME NEW d \in FlowCtxs PROVE Refs(ctx', d) /\ Kept(d) /\ Owned(d)' /\ Counted(d)'
  <2>1. Owned(d) /\ Counted(d) /\ ctx'[d] = ctx[d] /\ 2 * d - 1 \in 1..2*n /\ 2 * d \in 1..2*n
    BY <1>1, <1>2, <1>9 DEF Made
  <2>2. QED
    BY <2>1, <1>7 DEF Owned, Refs, Kept, Contents, In, Outs, Counted
<1>12. ASSUME NEW k \in {n + 1, n + 2}
       PROVE  /\ Owned(k)' /\ Contents(k, x, y) /\ ctx'[k].kind = "branch" /\ ctx'[k].up = c
              /\ ctx'[k].around = around /\ ctx'[k].st = "live" /\ ctx'[k].results = <<>> /\ ctx'[k].items = 0
  <2>1. ctx'[k] = f(2 * k)
    BY <1>9
  <2>2. heap'[2 * k - 1] = x /\ heap'[2 * k] = y
    BY <1>7
  <2>3. QED
    BY <1>8, <2>1, <2>2 DEF Owned, Contents, In, Outs
<1>13. \A d \in FlowCtxs : Placed(d)'
  <2>1. Ends(c)
    BY <1>9 DEF Ends
  <2>2. QED
    BY <2>1, <1>11, PlacedKeeps
<1>14. \A k \in {n + 1, n + 2} : Placed(k)' /\ Counted(k)'
  <2>1. ctx[c].st = "live" /\ c \in 1..n /\ ctx'[c] = ctx[c]
    BY <1>1, <1>2, <1>9 DEF Fork, Free
  <2>2. IsSeq(<<>>) /\ Len(<<>>) < Len(Coords)
    BY FlowCtxAssumption DEF IsSeq
  <2>3. QED
    BY <1>12, <2>1, <2>2 DEF Placed, Counted
<1>15. Made'
  BY <1>1, <1>2, <1>7, <1>9, <1>10, <1>11, <1>12, <1>13, <1>14 DEF Made
<1>16. \A d \in FlowCtxs : Settled(d)
  BY <1>9 DEF Settled
<1>17. UNCHANGED <<put, items>>
  BY DEF Fork
<1>18. Unheld
  BY <1>9 DEF Unheld
<1>19. QED
  BY <1>2, <1>3, <1>10, <1>11, <1>12, <1>15, <1>16, <1>17, <1>18 DEF Adds

(* The FlowCtxs of cs, from those there are: one may have ended.                 *)
After(cs, e) ==
  /\ IsSeq(cs) /\ Len(cs) = Len(ctx)
  /\ \A d \in FlowCtxs :
       /\ Refs(cs, d)
       /\ cs[d].st = ctx[d].st \/ (d = e /\ ~Busy(e) /\ cs[e].st # "live")
       /\ IsSeq(cs[d].results) /\ (cs[d].kind # "handler" => Len(cs[d].results) < Len(Coords))

LEMMA SameAfter == Made => \A e : After(ctx, e)
BY DEF Made, After, Refs, Owned, Counted

LEMMA AddOne ==
  ASSUME Made, NEW cs, NEW e, After(cs, e), cs[e].st # "joined" \/ ctx[e].st = "joined",
         NEW x, NEW y, TwoAfter(heap', heap, x, y),
         NEW kind \in {"branch", "handler", "remote"}, NEW c \in FlowCtxs, cs[c].st = "live",
         kind = "handler" => ctx[c].kind # "handler",
         NEW around, NEW n, n = Len(ctx) + 1,
         Appended(cs, kind, c, around),
         UNCHANGED <<put, items>>
  PROVE  /\ Made' /\ Adds({n}, kind, c, around, x, y)
         /\ \A d \in FlowCtxs : ctx'[d] = cs[d]
<1>1. FlowCtxs = 1..Len(ctx) /\ Len(ctx) \in Nat
  BY Ctxs
<1>2. IsSeq(cs) /\ Len(cs) = Len(ctx) /\ \A d \in FlowCtxs : Refs(cs, d)
  BY DEF After
<1>3. /\ IsSeq(heap') /\ IsSeq(ctx') /\ Len(ctx') = n /\ Len(heap') = 2 * n
      /\ FlowCtxs' = FlowCtxs \cup {n} /\ n \notin FlowCtxs
      /\ \A d \in FlowCtxs : ctx'[d] = cs[d] /\ Owned(d)' /\ Kept(d)
      /\ Owned(n)' /\ Contents(n, x, y)
      /\ ctx'[n].kind = kind /\ ctx'[n].up = c /\ ctx'[n].around = around
      /\ ctx'[n].st = "live" /\ ctx'[n].results = <<>> /\ ctx'[n].items = 0
  BY <1>2, OneMore
<1>4. \A d \in FlowCtxs : Refs(ctx', d)
  BY <1>2, <1>3 DEF Refs
<1>5. \A d \in FlowCtxs : Placed(d)'
  <2>1. Ends(e)
    BY <1>3 DEF Ends, After
  <2>2. QED
    BY <1>4, <2>1, PlacedKeeps
<1>6. \A d \in FlowCtxs : Counted(d)' /\ Settled(d)
  BY <1>3 DEF Counted, After, Settled
<1>7. Placed(n)' /\ Counted(n)'
  <2>1. IsSeq(<<>>) /\ Len(<<>>) < Len(Coords)
    BY FlowCtxAssumption DEF IsSeq
  <2>2. c \in 1..(n - 1) /\ ctx'[c] = cs[c] /\ n # 1
    BY <1>1, <1>3
  <2>3. ctx'[c].kind = ctx[c].kind
    BY <1>4 DEF Refs
  <2>4. QED
    BY <1>3, <2>1, <2>2, <2>3 DEF Placed, Counted
<1>8. Made'
  BY <1>1, <1>3, <1>5, <1>6, <1>7 DEF Made
<1>9. QED
  BY <1>3, <1>4, <1>6, <1>8 DEF Adds

LEMMA WriteOne ==
  ASSUME Made, NEW e, After(ctx', e), NEW c \in FlowCtxs, ctx[c].st = "live", NEW m,
         heap' = [heap EXCEPT ![ctx[c].outputs] = m]
  PROVE  Made' /\ Writes(c, m)
<1>1. FlowCtxs = 1..Len(ctx) /\ Len(ctx) \in Nat /\ Len(ctx) > 0
  BY Ctxs DEF Made
<1>2. IsSeq(ctx') /\ Len(ctx') = Len(ctx) /\ \A d \in FlowCtxs : Refs(ctx', d)
  BY DEF After
<1>3. /\ IsSeq(heap') /\ Len(heap') = 2 * Len(ctx') /\ FlowCtxs' = FlowCtxs
      /\ \A d \in FlowCtxs : Owned(d)'
      /\ Contents(c, In(c), m) /\ \A d \in FlowCtxs \ {c} : Kept(d)
  BY <1>2, OneWritten
<1>4. \A d \in FlowCtxs : Placed(d)'
  <2>1. Ends(e)
    BY DEF Ends, After
  <2>2. QED
    BY <1>2, <2>1, PlacedKeeps
<1>5. \A d \in FlowCtxs : Counted(d)'
  BY DEF Counted, After
<1>6. QED
  BY <1>1, <1>2, <1>3, <1>4, <1>5 DEF Made, Writes

LEMMA RestOne ==
  ASSUME Made, NEW e, After(ctx', e), UNCHANGED heap
  PROVE  /\ Made' /\ FlowCtxs' = FlowCtxs
         /\ \A d \in FlowCtxs : Refs(ctx', d) /\ Kept(d)
<1>1. FlowCtxs = 1..Len(ctx) /\ Len(ctx) \in Nat /\ Len(ctx) > 0 /\ IsSeq(heap) /\ Len(heap) = 2 * Len(ctx)
  BY Ctxs DEF Made
<1>2. IsSeq(ctx') /\ Len(ctx') = Len(ctx) /\ \A d \in FlowCtxs : Refs(ctx', d)
  BY DEF After
<1>3. FlowCtxs' = FlowCtxs
  BY <1>1, <1>2, SeqIs DEF FlowCtxs
<1>4. \A d \in FlowCtxs : Owned(d)' /\ Kept(d)
  BY <1>2 DEF Made, Owned, Refs, Kept, Contents, In, Outs
<1>5. \A d \in FlowCtxs : Placed(d)'
  <2>1. Ends(e)
    BY DEF Ends, After
  <2>2. QED
    BY <1>2, <2>1, PlacedKeeps
<1>6. \A d \in FlowCtxs : Counted(d)'
  BY DEF Counted, After
<1>7. QED
  BY <1>1, <1>2, <1>3, <1>4, <1>5, <1>6 DEF Made

LEMMA SendIs ==
  ASSUME Made, NEW c \in FlowCtxs, Send(c)
  PROVE  Made' /\ Unheld /\ Adds({Len(ctx) + 1}, "remote", c, ctx[c].around, Json(In(c)), Json(Outs(c)))
<1>1. PICK x, y : x = Json(In(c)) /\ y = Json(Outs(c))
  OBVIOUS
<1>2. TwoAfter(heap', heap, x, y)
  BY <1>1 DEF Send, TwoAfter
<1>3. PICK cs, around, n : cs = ctx /\ around = ctx[c].around /\ n = Len(ctx) + 1
  OBVIOUS
<1>4. After(cs, c) /\ cs[c].st = "live"
  BY <1>3, SameAfter DEF Send, Free
<1>5. Appended(cs, "remote", c, around)
  BY <1>3 DEF Send, Appended
<1>6. UNCHANGED <<put, items>>
  BY DEF Send
<1>7. Made' /\ Adds({n}, "remote", c, around, x, y) /\ \A d \in FlowCtxs : ctx'[d] = cs[d]
  BY <1>2, <1>3, <1>4, <1>5, <1>6, AddOne
<1>8. QED
  BY <1>1, <1>3, <1>7 DEF Unheld

LEMMA MergeCoordsIs ==
  ASSUME NEW new, NEW h, NEW k, NEW outputs, new = [heap |-> h, input |-> k, outputs |-> outputs],
         NEW coords, NEW m, m = mergeCoords(new, coords)
  PROVE  m.heap = [h EXCEPT ![k] = Over(coords, h[k])] /\ m.input = k /\ m.outputs = outputs
<1>1. new.heap = h /\ new.input = k /\ new.outputs = outputs
  OBVIOUS
<1>2. PICK w : w = Over(coords, new.heap[new.input])
  OBVIOUS
<1>3. m = [new EXCEPT !.heap[new.input] = w]
  BY <1>2 DEF mergeCoords
<1>4. m.heap = [h EXCEPT ![k] = w] /\ m.input = k /\ m.outputs = outputs
  BY <1>1, <1>3
<1>5. QED
  BY <1>1, <1>2, <1>4

(* A partition is entered.                                                       *)
LEMMA EnterIs ==
  ASSUME Made, NEW cs, NEW e, After(cs, e), cs[e].st # "joined" \/ ctx[e].st = "joined",
         NEW c \in FlowCtxs, cs[c].st = "live", ctx[c].kind # "handler", Enter(cs, c)
  PROVE  /\ Made' /\ \A d \in FlowCtxs : ctx'[d] = cs[d]
         /\ \E i \in DOMAIN Coords :
              Adds({Len(ctx) + 1}, "handler", c, Append(ctx[c].around, Coords[i]),
                   Over(Coords[i], In(c)), Outs(c))
<1>1. PICK i : i = Len(cs[c].results) + 1
  OBVIOUS
<1>2. i \in DOMAIN Coords
  <2>1. IsSeq(cs[c].results) /\ Len(cs[c].results) < Len(Coords)
    BY DEF After, Refs
  <2>2. QED
    BY <1>1, <2>1, FlowCtxAssumption DEF IsSeq
<1>3. PICK x, y, around, n : x = Over(Coords[i], In(c)) /\ y = Outs(c)
                          /\ around = Append(ctx[c].around, Coords[i]) /\ n = Len(ctx) + 1
  OBVIOUS
<1>4. /\ TwoAfter(heap', heap, x, y) /\ Appended(cs, "handler", c, around)
      /\ UNCHANGED <<put, items>>
  <2>1. PICK h, x0, h1 : h = heap /\ x0 = In(c) /\ h1 = h \o <<x0, y>>
    OBVIOUS
  <2>2. TwoAfter(h1, h, x0, y)
    BY <2>1 DEF TwoAfter
  <2>3. PICK k \in Nat : k = Len(h) + 1
    BY <2>1 DEF Made, IsSeq
  <2>4. h1[k] = x0 /\ k \in DOMAIN h1
    <3>1. IsSeq(h)
      BY <2>1 DEF Made
    <3>2. IsSeq(h1) /\ Len(h1) = Len(h) + 2 /\ h1[Len(h) + 1] = x0
      BY <3>1, <2>2, TwoMore
    <3>3. DOMAIN h1 = 1..(Len(h) + 2) /\ Len(h) \in Nat
      BY <3>1, <3>2, SeqIs DEF IsSeq
    <3>4. QED
      BY <2>3, <3>2, <3>3
  <2>5. PICK new : new = clone(heap, c)
    OBVIOUS
  <2>6. new = [heap |-> h1, input |-> k, outputs |-> Len(h) + 2]
    BY <1>3, <2>1, <2>3, <2>5 DEF clone
  <2>7. PICK t : t = [h1 EXCEPT ![k] = x]
    OBVIOUS
  <2>9. PICK nw : nw = mergeCoords(new, Coords[i])
    OBVIOUS
  <2>10. nw.heap = t /\ nw.input = Len(heap) + 1 /\ nw.outputs = Len(heap) + 2
    <3>1. PICK coords : coords = Coords[i]
      OBVIOUS
    <3>2. /\ nw.heap = [h1 EXCEPT ![k] = Over(coords, h1[k])]
          /\ nw.input = k /\ nw.outputs = Len(h) + 2
      BY <2>6, <2>9, <3>1, MergeCoordsIs
    <3>3. QED
      BY <1>3, <2>1, <2>3, <2>4, <2>7, <3>1, <3>2
  <2>11. Refs(cs, c)
    BY DEF After
  <2>12. heap' = nw.heap /\ ctx' = Append(cs, For(nw, "handler", c, around)) /\ UNCHANGED <<put, items>>
    BY <1>1, <1>3, <2>5, <2>9, <2>11 DEF Enter, Refs
  <2>13. For(nw, "handler", c, around) = For([input |-> Len(heap) + 1, outputs |-> Len(heap) + 2], "handler", c, around)
    BY <2>10 DEF For
  <2>14. TwoAfter(t, h, x, y)
    <3>1. IsSeq(h)
      BY <2>1 DEF Made
    <3>2. QED
      BY <3>1, <2>2, <2>3, <2>7, FirstOfTwo
  <2>15. QED
    BY <2>1, <2>10, <2>12, <2>13, <2>14 DEF Appended
<1>5. Made' /\ Adds({n}, "handler", c, around, x, y) /\ \A d \in FlowCtxs : ctx'[d] = cs[d]
  BY <1>3, <1>4, AddOne
<1>6. QED
  BY <1>2, <1>3, <1>5

(* One FlowCtx ends, another takes over its results.                             *)
Changed(cs, h, st, c, results, n) ==
  cs = [ctx EXCEPT ![h].st = st, ![c].results = results, ![c].items = n]

LEMMA ChangedIs ==
  ASSUME Made, NEW h \in FlowCtxs, NEW c \in FlowCtxs, h # c,
         NEW st, NEW results, NEW n, NEW cs, Changed(cs, h, st, c, results, n)
  PROVE  /\ IsSeq(cs) /\ Len(cs) = Len(ctx)
         /\ \A d \in FlowCtxs :
              /\ Refs(cs, d)
              /\ cs[d].st = IF d = h THEN st ELSE ctx[d].st
              /\ cs[d].results = IF d = c THEN results ELSE ctx[d].results
              /\ cs[d].items = IF d = c THEN n ELSE ctx[d].items
<1>1. FlowCtxs = 1..Len(ctx) /\ IsSeq(ctx) /\ \A d \in FlowCtxs : DOMAIN ctx[d] = Fields
  BY Ctxs DEF Made, Owned
<1>2. PICK c1 : c1 = [ctx EXCEPT ![h].st = st]
  OBVIOUS
<1>3. PICK r1 : r1 = [ctx[h] EXCEPT !.st = st]
  OBVIOUS
<1>4. ReplacedAt(c1, ctx, h, r1)
  BY <1>1, <1>2, <1>3 DEF ReplacedAt
<1>5. IsSeq(c1) /\ Len(c1) = Len(ctx) /\ \A d \in FlowCtxs : c1[d] = IF d = h THEN r1 ELSE ctx[d]
  BY <1>1, <1>4, ExceptIs
<1>6. PICK r2 : r2 = [ctx[c] EXCEPT !.results = results, !.items = n]
  OBVIOUS
<1>7. ReplacedAt(cs, c1, c, r2)
  <2>1. cs = [[c1 EXCEPT ![c].results = results] EXCEPT ![c].items = n]
    BY <1>2 DEF Changed
  <2>2. c1[c] = ctx[c] /\ DOMAIN c1 = 1..Len(ctx)
    BY <1>5, SeqIs
  <2>3. PICK x : x = c1[c]
    OBVIOUS
  <2>4. cs = [c1 EXCEPT ![c] = [x EXCEPT !.results = results, !.items = n]]
    BY <1>1, <2>1, <2>2, <2>3
  <2>5. QED
    BY <2>2, <2>3, <2>4, <1>6 DEF ReplacedAt
<1>8. IsSeq(cs) /\ Len(cs) = Len(ctx) /\ \A d \in FlowCtxs : cs[d] = IF d = c THEN r2 ELSE c1[d]
  BY <1>1, <1>5, <1>7, ExceptIs
<1>9. /\ DOMAIN r1 = Fields /\ r1.st = st /\ r1.input = ctx[h].input /\ r1.outputs = ctx[h].outputs
      /\ r1.kind = ctx[h].kind /\ r1.up = ctx[h].up /\ r1.around = ctx[h].around
      /\ r1.results = ctx[h].results /\ r1.items = ctx[h].items
  BY <1>1, <1>3 DEF Fields
<1>10. /\ DOMAIN r2 = Fields /\ r2.st = ctx[c].st /\ r2.input = ctx[c].input /\ r2.outputs = ctx[c].outputs
       /\ r2.kind = ctx[c].kind /\ r2.up = ctx[c].up /\ r2.around = ctx[c].around
       /\ r2.results = results /\ r2.items = n
  BY <1>1, <1>6 DEF Fields
<1>11. ASSUME NEW d \in FlowCtxs
       PROVE  /\ Refs(cs, d)
              /\ cs[d].st = IF d = h THEN st ELSE ctx[d].st
              /\ cs[d].results = IF d = c THEN results ELSE ctx[d].results
              /\ cs[d].items = IF d = c THEN n ELSE ctx[d].items
  <2>1. CASE d = c
    <3>1. cs[d] = r2
      BY <1>8, <2>1
    <3>2. QED
      BY <2>1, <3>1, <1>10 DEF Refs
  <2>2. CASE d = h
    <3>1. cs[d] = r1
      BY <1>5, <1>8, <2>2
    <3>2. QED
      BY <2>2, <3>1, <1>9 DEF Refs
  <2>3. CASE d # c /\ d # h
    <3>1. cs[d] = ctx[d]
      BY <1>5, <1>8, <2>3
    <3>2. QED
      BY <2>3, <3>1, <1>1 DEF Refs
  <2>4. QED
    BY <2>1, <2>2, <2>3
<1>12. QED
  BY <1>8, <1>11

Ended(cs, h, st) == cs = [ctx EXCEPT ![h].st = st]

LEMMA EndedIs ==
  ASSUME Made, NEW h \in FlowCtxs, NEW st, NEW cs, Ended(cs, h, st)
  PROVE  /\ IsSeq(cs) /\ Len(cs) = Len(ctx)
         /\ \A d \in FlowCtxs :
              /\ Refs(cs, d)
              /\ cs[d].st = IF d = h THEN st ELSE ctx[d].st
              /\ cs[d].results = ctx[d].results /\ cs[d].items = ctx[d].items
<1>1. FlowCtxs = 1..Len(ctx) /\ IsSeq(ctx) /\ \A d \in FlowCtxs : DOMAIN ctx[d] = Fields
  BY Ctxs DEF Made, Owned
<1>2. PICK r1 : r1 = [ctx[h] EXCEPT !.st = st]
  OBVIOUS
<1>3. ReplacedAt(cs, ctx, h, r1)
  BY <1>1, <1>2 DEF ReplacedAt, Ended
<1>4. IsSeq(cs) /\ Len(cs) = Len(ctx) /\ \A d \in FlowCtxs : cs[d] = IF d = h THEN r1 ELSE ctx[d]
  BY <1>1, <1>3, ExceptIs
<1>5. /\ DOMAIN r1 = Fields /\ r1.st = st /\ r1.input = ctx[h].input /\ r1.outputs = ctx[h].outputs
      /\ r1.kind = ctx[h].kind /\ r1.up = ctx[h].up /\ r1.around = ctx[h].around
      /\ r1.results = ctx[h].results /\ r1.items = ctx[h].items
  BY <1>1, <1>2 DEF Fields
<1>6. ASSUME NEW d \in FlowCtxs
      PROVE  /\ Refs(cs, d)
             /\ cs[d].st = IF d = h THEN st ELSE ctx[d].st
             /\ cs[d].results = ctx[d].results /\ cs[d].items = ctx[d].items
  <2>1. CASE d = h
    <3>1. cs[d] = r1
      BY <1>4, <2>1
    <3>2. QED
      BY <2>1, <3>1, <1>5 DEF Refs
  <2>2. CASE d # h
    <3>1. cs[d] = ctx[d]
      BY <1>4, <2>2
    <3>2. QED
      BY <2>2, <3>1, <1>1 DEF Refs
  <2>3. QED
    BY <2>1, <2>2
<1>7. QED
  BY <1>4, <1>6

(* The FlowCtx that another was made for.                                        *)
LEMMA UpIs ==
  ASSUME Made, NEW r \in FlowCtxs, ctx[r].kind # "main"
  PROVE  /\ ctx[r].up \in FlowCtxs /\ ctx[r].up # r /\ ctx[r].up < r
         /\ ctx[r].st = "live" => ctx[ctx[r].up].st = "live"
         /\ ctx[r].kind = "handler" => ctx[ctx[r].up].kind # "handler"
<1>1. FlowCtxs = 1..Len(ctx) /\ Len(ctx) \in Nat /\ Placed(r)
  BY Ctxs DEF Made
<1>2. QED
  BY <1>1 DEF Placed

LEMMA JoinIs ==
  ASSUME Made, NEW b \in FlowCtxs, Join(b)
  PROVE  Made' /\ Unheld /\ Merges(b)
<1>1. PICK c : c = ctx[b].up
  OBVIOUS
<1>2. /\ ctx[b].kind = "branch" /\ ctx[b].st = "live" /\ ~Busy(b) /\ UNCHANGED <<put, items>>
      /\ Ended(ctx', b, "joined")
  BY DEF Join, Free, Ended
<1>3. c \in FlowCtxs /\ ctx[c].st = "live" /\ c # b
  BY <1>1, <1>2, UpIs
<1>4. PICK m : m = Over(Outs(b), Outs(c))
  OBVIOUS
<1>5. heap' = [heap EXCEPT ![ctx[c].outputs] = m]
  BY <1>1, <1>4 DEF Join, merge, Outs
<1>6. After(ctx', b) /\ Unheld /\ \A d \in FlowCtxs \ {b} : Settled(d)
  <2>1. /\ IsSeq(ctx') /\ Len(ctx') = Len(ctx)
        /\ \A d \in FlowCtxs :
             /\ Refs(ctx', d)
             /\ ctx'[d].st = IF d = b THEN "joined" ELSE ctx[d].st
             /\ ctx'[d].results = ctx[d].results /\ ctx'[d].items = ctx[d].items
    BY <1>2, EndedIs
  <2>2. ASSUME NEW d \in FlowCtxs PROVE Counted(d)
    BY DEF Made
  <2>3. QED
    BY <1>2, <2>1, <2>2 DEF After, Unheld, Settled, Counted, Refs
<1>7. Made' /\ Writes(c, m)
  BY <1>3, <1>5, <1>6, WriteOne
<1>8. QED
  BY <1>1, <1>2, <1>4, <1>6, <1>7 DEF Merges

LEMMA StartShardIs ==
  ASSUME Made, NEW c \in FlowCtxs, StartShard(c)
  PROVE  /\ Made' /\ \A d \in FlowCtxs : ctx'[d] = ctx[d]
         /\ \E i \in DOMAIN Coords :
              Adds({Len(ctx) + 1}, "handler", c, Append(ctx[c].around, Coords[i]),
                   Over(Coords[i], In(c)), Outs(c))
<1>1. PICK cs : cs = ctx
  OBVIOUS
<1>2. cs[c].st = "live" /\ ctx[c].kind # "handler" /\ Enter(cs, c)
  BY <1>1 DEF StartShard, Free
<1>3. After(cs, c) /\ (cs[c].st # "joined" \/ ctx[c].st = "joined")
  BY <1>1, <1>2, SameAfter
<1>4. QED
  BY <1>1, <1>2, <1>3, EnterIs

(* The results of c with that of the partition h.                                *)
Gathered(c, h) == ctx[c].results \o ctx[h].results
Summed(c, h) == ctx[c].items + ctx[h].items

(* The next partition of c after h, entered.                                     *)
Follows(c, h) ==
  /\ \E i \in DOMAIN Coords :
       Adds({Len(ctx) + 1}, "handler", c, Append(ctx[c].around, Coords[i]), Over(Coords[i], In(c)), Outs(c))
  /\ Hold(c, Gathered(c, h), Summed(c, h))

(* The shard of c ends with h.                                                   *)
Closes(c, h) ==
  /\ Puts(c, aggregateShardResults(Gathered(c, h)))
  /\ Hold(c, <<>>, 0)
  /\ items' = Noted(NextName, Summed(c, h))

LEMMA StepShardChanges ==
  ASSUME Made, NEW h \in FlowCtxs, StepShard(h), NEW c, c = ctx[h].up
  PROVE  /\ c \in FlowCtxs /\ c # h /\ ctx[c].st = "live" /\ ctx[h].st = "live" /\ ~Busy(h)
         /\ ctx[c].kind # "handler" /\ ctx[h].kind = "handler" /\ ctx[h].results # <<>>
         /\ \E cs :
              /\ Changed(cs, h, "returned", c, Gathered(c, h), Summed(c, h))
              /\ (Len(cs[c].results) < Len(Coords) /\ Enter(cs, c)) \/ EndShard(cs, c)
<1>1. ctx[h].kind = "handler" /\ ctx[h].st = "live" /\ ~Busy(h) /\ ctx[h].results # <<>>
  BY DEF StepShard, Free
<1>2. c \in FlowCtxs /\ c # h /\ ctx[c].st = "live" /\ ctx[c].kind # "handler"
  BY <1>1, UpIs
<1>3. PICK cs : cs = Taken(c, h)
  OBVIOUS
<1>4. Changed(cs, h, "returned", c, Gathered(c, h), Summed(c, h))
  BY <1>3 DEF Changed, Gathered, Summed, Taken
<1>5. IF Len(cs[c].results) < Len(Coords) THEN Enter(cs, c) ELSE EndShard(cs, c)
  BY <1>3 DEF StepShard
<1>6. (Len(cs[c].results) < Len(Coords) /\ Enter(cs, c)) \/ EndShard(cs, c)
  BY <1>5
<1>7. QED
  BY <1>1, <1>2, <1>4, <1>6

LEMMA StepShardIs ==
  ASSUME Made, NEW h \in FlowCtxs, StepShard(h), NEW c, c = ctx[h].up
  PROVE  /\ Made'
         /\ c \in FlowCtxs /\ c # h /\ ctx[c].st = "live" /\ ctx[h].kind = "handler"
         /\ Follows(c, h) \/ Closes(c, h)
<1>1. /\ c \in FlowCtxs /\ c # h /\ ctx[c].st = "live" /\ ctx[h].st = "live" /\ ~Busy(h)
      /\ ctx[c].kind # "handler" /\ ctx[h].kind = "handler"
  BY StepShardChanges
<1>2. PICK g, n : g = Gathered(c, h) /\ n = Summed(c, h)
  OBVIOUS
<1>3. PICK cs :
        /\ Changed(cs, h, "returned", c, g, n)
        /\ (Len(cs[c].results) < Len(Coords) /\ Enter(cs, c)) \/ EndShard(cs, c)
  BY <1>2, StepShardChanges
<1>4. /\ IsSeq(cs) /\ Len(cs) = Len(ctx)
      /\ \A d \in FlowCtxs :
           /\ Refs(cs, d)
           /\ cs[d].st = IF d = h THEN "returned" ELSE ctx[d].st
           /\ cs[d].results = IF d = c THEN g ELSE ctx[d].results
           /\ cs[d].items = IF d = c THEN n ELSE ctx[d].items
  BY <1>1, <1>3, ChangedIs
<1>5. \A d \in FlowCtxs : Counted(d)
  BY DEF Made
<1>6. IsSeq(g)
  BY <1>1, <1>2, <1>5, ConcatIs DEF Gathered, Counted
<1>7. CASE Len(cs[c].results) < Len(Coords) /\ Enter(cs, c)
  <2>1. After(cs, h)
    BY <1>1, <1>4, <1>5, <1>6, <1>7 DEF After, Counted, Refs
  <2>2. cs[c].st = "live" /\ cs[h].st # "joined"
    BY <1>1, <1>4
  <2>3. /\ Made' /\ \A d \in FlowCtxs : ctx'[d] = cs[d]
        /\ \E i \in DOMAIN Coords :
             Adds({Len(ctx) + 1}, "handler", c, Append(ctx[c].around, Coords[i]),
                  Over(Coords[i], In(c)), Outs(c))
    BY <1>1, <1>7, <2>1, <2>2, EnterIs
  <2>4. Hold(c, g, n)
    BY <1>4, <2>3 DEF Hold
  <2>5. Follows(c, h)
    BY <1>2, <2>3, <2>4 DEF Follows
  <2>6. QED
    BY <1>1, <2>3, <2>5
<1>8. CASE EndShard(cs, c)
  <2>a. /\ put < Len(Names) /\ put' = put + 1
        /\ heap' = Put(c, NextName, aggregateShardResults(g))
        /\ items' = Noted(NextName, n)
    BY <1>1, <1>4, <1>8 DEF EndShard
  <2>1. Changed(ctx', h, "returned", c, <<>>, 0)
    <3>1. ctx' = [cs EXCEPT ![c].results = <<>>, ![c].items = 0]
      BY <1>8 DEF EndShard
    <3>2. PICK c1 : c1 = [ctx EXCEPT ![h].st = "returned"]
      OBVIOUS
    <3>3. cs = [c1 EXCEPT ![c].results = g, ![c].items = n]
      BY <1>3, <3>2 DEF Changed
    <3>4. ctx' = [c1 EXCEPT ![c].results = <<>>, ![c].items = 0]
      BY <3>1, <3>3
    <3>5. QED
      BY <3>2, <3>4 DEF Changed
  <2>2. /\ IsSeq(ctx') /\ Len(ctx') = Len(ctx)
        /\ \A d \in FlowCtxs :
             /\ Refs(ctx', d)
             /\ ctx'[d].st = IF d = h THEN "returned" ELSE ctx[d].st
             /\ ctx'[d].results = IF d = c THEN <<>> ELSE ctx[d].results
             /\ ctx'[d].items = IF d = c THEN 0 ELSE ctx[d].items
    BY <1>1, <2>1, ChangedIs
  <2>3. IsSeq(<<>>) /\ Len(<<>>) < Len(Coords)
    BY FlowCtxAssumption DEF IsSeq
  <2>4. After(ctx', h) /\ \A d \in FlowCtxs : Settled(d)
    BY <1>1, <1>5, <2>2, <2>3 DEF After, Counted, Refs, Settled
  <2>5. PICK m : m = Over(Under(NextName, aggregateShardResults(g)), Outs(c))
    OBVIOUS
  <2>6. heap' = [heap EXCEPT ![ctx[c].outputs] = m]
    BY <2>a, <2>5 DEF Put, Outs
  <2>7. Made' /\ Writes(c, m)
    BY <1>1, <2>4, <2>6, WriteOne
  <2>8. Puts(c, aggregateShardResults(g))
    BY <2>a, <2>4, <2>5, <2>7 DEF Puts
  <2>9. Hold(c, <<>>, 0)
    BY <2>2 DEF Hold
  <2>10. Closes(c, h)
    BY <1>2, <2>a, <2>8, <2>9 DEF Closes
  <2>11. QED
    BY <1>1, <2>7, <2>10
<1>9. QED
  BY <1>3, <1>7, <1>8

(* A remote execution returns.                                                   *)
ReturnsTo(c, m, n) ==
  \/ /\ ctx[c].kind = "handler" /\ Rests /\ Hold(c, <<m>>, n)
  \/ /\ ctx[c].kind # "handler" /\ Puts(c, m) /\ Unheld /\ UNCHANGED items

LEMMA ReturnsIs ==
  ASSUME Made, NEW r \in FlowCtxs, ctx[r].kind = "remote", Free(r), NEW m, NEW n, Returns(r, m, n),
         NEW c, c = ctx[r].up
  PROVE  Made' /\ c \in FlowCtxs /\ c # r /\ ReturnsTo(c, m, n)
<1>1. c \in FlowCtxs /\ c # r /\ ctx[c].st = "live" /\ ctx[r].st = "live" /\ ~Busy(r) /\ UNCHANGED items
  BY UpIs DEF Free, Returns
<1>2. \A d \in FlowCtxs : Counted(d)
  BY DEF Made
<1>3. CASE ctx[c].kind = "handler"
  <2>1. Changed(ctx', r, "returned", c, <<m>>, n) /\ UNCHANGED <<heap, put, items>>
    BY <1>3 DEF Returns, Changed
  <2>2. PICK rs : rs = <<m>>
    OBVIOUS
  <2>3. /\ IsSeq(ctx') /\ Len(ctx') = Len(ctx)
        /\ \A d \in FlowCtxs :
             /\ Refs(ctx', d)
             /\ ctx'[d].st = IF d = r THEN "returned" ELSE ctx[d].st
             /\ ctx'[d].results = IF d = c THEN rs ELSE ctx[d].results
             /\ ctx'[d].items = IF d = c THEN n ELSE ctx[d].items
    BY <1>1, <2>1, <2>2, ChangedIs
  <2>4. IsSeq(rs)
    BY <2>2 DEF IsSeq
  <2>5. After(ctx', r) /\ \A d \in FlowCtxs : Settled(d)
    BY <1>1, <1>2, <1>3, <2>3, <2>4 DEF After, Counted, Refs, Settled
  <2>6. Made' /\ FlowCtxs' = FlowCtxs /\ \A d \in FlowCtxs : Refs(ctx', d) /\ Kept(d)
    BY <2>1, <2>5, RestOne
  <2>7. Rests /\ Hold(c, <<m>>, n)
    BY <2>1, <2>2, <2>3, <2>5, <2>6 DEF Rests, Hold
  <2>8. QED
    BY <1>1, <1>3, <2>6, <2>7 DEF ReturnsTo
<1>4. CASE ctx[c].kind # "handler"
  <2>1. /\ Ended(ctx', r, "returned") /\ put < Len(Names) /\ put' = put + 1
        /\ heap' = Put(c, NextName, m)
    BY <1>4 DEF Returns, Ended
  <2>2. /\ IsSeq(ctx') /\ Len(ctx') = Len(ctx)
        /\ \A d \in FlowCtxs :
             /\ Refs(ctx', d)
             /\ ctx'[d].st = IF d = r THEN "returned" ELSE ctx[d].st
             /\ ctx'[d].results = ctx[d].results /\ ctx'[d].items = ctx[d].items
    BY <2>1, EndedIs
  <2>3. After(ctx', r) /\ \A d \in FlowCtxs : Settled(d)
    BY <1>1, <1>2, <2>2 DEF After, Counted, Refs, Settled
  <2>4. PICK o : o = Over(Under(NextName, m), Outs(c))
    OBVIOUS
  <2>5. heap' = [heap EXCEPT ![ctx[c].outputs] = o]
    BY <2>1, <2>4 DEF Put, Outs
  <2>6. Made' /\ Writes(c, o)
    BY <1>1, <2>3, <2>5, WriteOne
  <2>7. Puts(c, m) /\ Unheld
    BY <2>1, <2>2, <2>3, <2>4, <2>6 DEF Puts, Unheld
  <2>8. QED
    BY <1>1, <1>4, <2>6, <2>7 DEF ReturnsTo
<1>5. QED
  BY <1>3, <1>4

-------------------------------------------------------------------------------
(* The steps.                                                                    *)

EntersOne(c, i) ==
  Adds({Len(ctx) + 1}, "handler", c, Append(ctx[c].around, Coords[i]), Over(Coords[i], In(c)), Outs(c))

Moves(c) ==
  \/ Adds({Len(ctx) + 1, Len(ctx) + 2}, "branch", c, ctx[c].around, In(c), Outs(c)) /\ Unheld
  \/ Adds({Len(ctx) + 1}, "remote", c, ctx[c].around, Json(In(c)), Json(Outs(c))) /\ Unheld
  \/ (\E i \in DOMAIN Coords : EntersOne(c, i)) /\ Unheld
  \/ Merges(c) /\ Unheld
  \/ /\ ctx[c].kind = "handler" /\ ctx[c].up \in FlowCtxs /\ ctx[c].up # c
     /\ Follows(ctx[c].up, c) \/ Closes(ctx[c].up, c)
  \/ /\ ctx[c].kind = "remote" /\ ctx[c].up \in FlowCtxs /\ ctx[c].up # c
     /\ \/ \E n \in Items : ReturnsTo(ctx[c].up, [p \in {Processed} |-> [type |-> "float64", n |-> n]], n)
        \/ ReturnsTo(ctx[c].up, Json(Outs(c)), 0)

LEMMA NextIs ==
  ASSUME Made, Next
  PROVE  Made' /\ \E c \in FlowCtxs : Moves(c)
<1>1. PICK c \in FlowCtxs : \/ Fork(c) \/ Join(c) \/ StartShard(c) \/ StepShard(c)
                          \/ Send(c) \/ ActivityReturns(c) \/ FlowReturns(c)
  BY DEF Next
<1> SUFFICES Made' /\ Moves(c)
  OBVIOUS
<1>2. CASE Fork(c)
  <2>1. Made' /\ Unheld /\ Adds({Len(ctx) + 1, Len(ctx) + 2}, "branch", c, ctx[c].around, In(c), Outs(c))
    BY <1>2, ForkIs
  <2>2. QED
    BY <2>1 DEF Moves
<1>3. CASE Join(c)
  <2>1. Made' /\ Unheld /\ Merges(c)
    BY <1>3, JoinIs
  <2>2. QED
    BY <2>1 DEF Moves
<1>4. CASE StartShard(c)
  <2>1. Made' /\ (\A d \in FlowCtxs : ctx'[d] = ctx[d]) /\ \E i \in DOMAIN Coords : EntersOne(c, i)
    BY <1>4, StartShardIs DEF EntersOne
  <2>2. Unheld
    BY <2>1 DEF Unheld
  <2>3. QED
    BY <2>1, <2>2 DEF Moves
<1>5. CASE StepShard(c)
  <2>1. PICK u : u = ctx[c].up
    OBVIOUS
  <2>2. /\ Made' /\ u \in FlowCtxs /\ u # c /\ ctx[c].kind = "handler"
        /\ Follows(u, c) \/ Closes(u, c)
    BY <1>5, <2>1, StepShardIs
  <2>3. QED
    BY <2>1, <2>2 DEF Moves
<1>6. CASE Send(c)
  <2>1. Made' /\ Unheld /\ Adds({Len(ctx) + 1}, "remote", c, ctx[c].around, Json(In(c)), Json(Outs(c)))
    BY <1>6, SendIs
  <2>2. QED
    BY <2>1 DEF Moves
<1>7. CASE ActivityReturns(c)
  <2>1. PICK u : u = ctx[c].up
    OBVIOUS
  <2>2. PICK n \in Items : Returns(c, [p \in {Processed} |-> [type |-> "float64", n |-> n]], n)
    BY <1>7 DEF ActivityReturns
  <2>3. PICK m : m = [p \in {Processed} |-> [type |-> "float64", n |-> n]]
    OBVIOUS
  <2>4. Returns(c, m, n) /\ ctx[c].kind = "remote" /\ Free(c)
    BY <1>7, <2>2, <2>3 DEF ActivityReturns, Remote
  <2>5. Made' /\ u \in FlowCtxs /\ u # c /\ ReturnsTo(u, m, n)
    BY <2>1, <2>4, ReturnsIs
  <2>6. QED
    BY <2>1, <2>3, <2>4, <2>5 DEF Moves
<1>8. CASE FlowReturns(c)
  <2>1. PICK u : u = ctx[c].up
    OBVIOUS
  <2>2. PICK m : m = Json(Outs(c))
    OBVIOUS
  <2>3. Returns(c, m, 0) /\ ctx[c].kind = "remote" /\ Free(c)
    BY <1>8, <2>2 DEF FlowReturns, Remote
  <2>4. Made' /\ u \in FlowCtxs /\ u # c /\ ReturnsTo(u, m, 0)
    BY <2>1, <2>3, ReturnsIs
  <2>5. QED
    BY <2>1, <2>2, <2>3, <2>4 DEF Moves
<1>9. QED
  BY <1>1, <1>2, <1>3, <1>4, <1>5, <1>6, <1>7, <1>8

-------------------------------------------------------------------------------
(* What the maps hold.                                                           *)

IsPath(p) == IsSeq(p)
IsFun(m) == m = [p \in DOMAIN m |-> m[p]]

(* The outputs are under the names put so far.                                   *)
Pathed(m, k) ==
  /\ IsFun(m)
  /\ \A p \in DOMAIN m : IsPath(p) /\ p # <<>> /\ \E j \in 1..k : p[1] = Names[j]

Results(c) == \A i \in 1..Len(ctx[c].results) : \A p \in DOMAIN ctx[c].results[i] : IsPath(p)

Filled ==
  /\ put \in Nat /\ put <= Len(Names)
  /\ \A c \in FlowCtxs : Pathed(Outs(c), put) /\ Results(c)

(* The FlowCtxs of a process have the same output under the same name.           *)
Meets(m, p) == \E q \in DOMAIN m : q[1] = p[1]
Same(c, d) ==
  \A p \in DOMAIN Outs(c) : Meets(Outs(d), p) => p \in DOMAIN Outs(d) /\ Outs(c)[p] = Outs(d)[p]
Process(proc) ==
  /\ proc \in [FlowCtxs -> FlowCtxs]
  /\ \A c \in FlowCtxs : proc[c] = IF ctx[c].kind \in {"main", "remote"} THEN c ELSE proc[ctx[c].up]
Agree == \E proc : Process(proc) /\ \A c, d \in FlowCtxs : proc[c] = proc[d] => Same(c, d)

LEMMA NamesAre == Len(Names) \in Nat /\ \A i, j \in 1..Len(Names) : Names[i] = Names[j] => i = j
BY FlowCtxAssumption DEF IsInjective

LEMMA OverIs ==
  ASSUME NEW f, NEW g, NEW w, w = Over(f, g)
  PROVE  /\ IsFun(w) /\ DOMAIN w \subseteq DOMAIN f \cup DOMAIN g
         /\ \A p \in DOMAIN f : p \in DOMAIN w /\ w[p] = f[p]
         /\ \A p \in DOMAIN g : p \in DOMAIN w <=> p \in DOMAIN f \/ ~Meets(f, p)
         /\ \A p \in DOMAIN w \ DOMAIN f : p \in DOMAIN g /\ w[p] = g[p] /\ ~Meets(f, p)
<1>1. \A p : p[1] \in Keys(f) <=> Meets(f, p)
  BY DEF Keys, Meets
<1>2. DOMAIN w = DOMAIN f \cup {q \in DOMAIN g : ~Meets(f, q)}
  BY <1>1 DEF Over
<1>3. \A p \in DOMAIN w : w[p] = IF p \in DOMAIN f THEN f[p] ELSE g[p]
  BY DEF Over
<1>4. IsFun(w)
  BY DEF Over, IsFun
<1>5. QED
  BY <1>2, <1>3, <1>4

(* A map that agrees with g under the keys of both is only added to g.           *)
Agrees(f, g) == \A p \in DOMAIN g : Meets(f, p) => p \in DOMAIN f /\ g[p] = f[p]
Added(w, f, g) == DOMAIN w = DOMAIN f \cup DOMAIN g /\ \A p \in DOMAIN g : w[p] = g[p]

LEMMA OverAdds ==
  ASSUME NEW f, NEW g, Agrees(f, g), NEW w, w = Over(f, g)
  PROVE  Added(w, f, g)
<1>1. /\ DOMAIN w \subseteq DOMAIN f \cup DOMAIN g
      /\ \A p \in DOMAIN f : p \in DOMAIN w /\ w[p] = f[p]
      /\ \A p \in DOMAIN g : p \in DOMAIN w <=> p \in DOMAIN f \/ ~Meets(f, p)
      /\ \A p \in DOMAIN w \ DOMAIN f : p \in DOMAIN g /\ w[p] = g[p] /\ ~Meets(f, p)
  BY OverIs
<1>2. ASSUME NEW p \in DOMAIN g PROVE p \in DOMAIN w /\ w[p] = g[p]
  <2>1. CASE p \in DOMAIN f
    <3>1. Meets(f, p)
      BY <2>1 DEF Meets
    <3>2. QED
      BY <1>1, <2>1, <3>1 DEF Agrees
  <2>2. CASE p \notin DOMAIN f
    <3>1. ~Meets(f, p)
      BY <2>2 DEF Agrees
    <3>2. p \in DOMAIN w
      BY <1>1, <3>1
    <3>3. QED
      BY <1>1, <2>2, <3>2
  <2>3. QED
    BY <2>1, <2>2
<1>3. QED
  BY <1>1, <1>2 DEF Added

LEMMA JsonIs ==
  ASSUME NEW m
  PROVE  IsFun(Json(m)) /\ DOMAIN Json(m) = DOMAIN m
BY DEF Json, IsFun

(* The paths of an output under its name.                                        *)
LEMMA UnderIs ==
  ASSUME NEW name, NEW m, \A q \in DOMAIN m : IsPath(q)
  PROVE  /\ \A p \in DOMAIN Under(name, m) :
              IsPath(p) /\ p # <<>> /\ p[1] = name /\ Tail(p) \in DOMAIN m /\ p = <<name>> \o Tail(p)
                /\ Under(name, m)[p] = m[Tail(p)]
         /\ \A q \in DOMAIN m : <<name>> \o q \in DOMAIN Under(name, m)
<1>1. DOMAIN Under(name, m) = {<<name>> \o q : q \in DOMAIN m}
  BY DEF Under
<1>2. ASSUME NEW p \in DOMAIN Under(name, m)
      PROVE  IsPath(p) /\ p # <<>> /\ p[1] = name /\ Tail(p) \in DOMAIN m /\ p = <<name>> \o Tail(p)
               /\ Under(name, m)[p] = m[Tail(p)]
  <2>1. PICK q \in DOMAIN m : p = <<name>> \o q
    BY <1>1
  <2>2. PICK S : q \in Seq(S)
    BY SeqSome DEF IsPath
  <2>3. PICK T : T = S \cup {name}
    OBVIOUS
  <2>4. q \in Seq(T) /\ name \in T
    BY <2>2, <2>3
  <2>5. p \in Seq(T) /\ p # <<>> /\ p[1] = name /\ Tail(p) = q
    BY <2>1, <2>4
  <2>6. Under(name, m)[p] = m[Tail(p)]
    BY DEF Under
  <2>7. QED
    BY <2>1, <2>5, <2>6, InSeq DEF IsPath
<1>3. QED
  BY <1>1, <1>2

(* A new output has a new name.                                                  *)
LEMMA NewPaths ==
  ASSUME Filled, NEW m, \A q \in DOMAIN m : IsPath(q), put < Len(Names), NEW d \in FlowCtxs
  PROVE  /\ \A p \in DOMAIN Outs(d) : p \notin DOMAIN Under(NextName, m) /\ ~Meets(Under(NextName, m), p)
         /\ \A p \in DOMAIN Under(NextName, m) : ~Meets(Outs(d), p)
<1>1. put + 1 \in 1..Len(Names)
  BY NamesAre DEF Filled
<1>3. ASSUME NEW p \in DOMAIN Under(NextName, m), NEW r \in DOMAIN Outs(d), p[1] = r[1] PROVE FALSE
  <2>1. p[1] = NextName
    BY UnderIs
  <2>2. PICK j \in 1..put : p[1] = Names[j]
    BY <1>3 DEF Filled, Pathed
  <2>3. j \in 1..Len(Names) /\ j # put + 1
    BY <1>1, NamesAre DEF Filled
  <2>4. QED
    BY <1>1, <2>1, <2>2, <2>3, NamesAre DEF NextName
<1>4. QED
  BY <1>3 DEF Meets

Grows(c) == DOMAIN Outs(c) \subseteq DOMAIN Outs(c)' /\ \A p \in DOMAIN Outs(c) : Outs(c)'[p] = Outs(c)[p]

(* What a step does to the outputs.                                              *)
AddsFor(c) ==
  \E ns, kind, around, input, outputs :
    /\ Adds(ns, kind, c, around, input, outputs)
    /\ \/ kind \in {"branch", "handler"} /\ outputs = Outs(c)
       \/ kind = "remote" /\ outputs = Json(Outs(c)) /\ ns = {Len(ctx) + 1}
PutsFor(c) == \E m : Puts(c, m) /\ \A q \in DOMAIN m : IsPath(q)

LEMMA WordPaths == IsPath(Processed) /\ IsPath(Skipped)
BY DEF IsPath, IsSeq, Processed, Skipped

LEMMA AggregatePaths ==
  ASSUME NEW rs, IsSeq(rs), \A i \in 1..Len(rs) : \A p \in DOMAIN rs[i] : IsPath(p)
  PROVE  \A q \in DOMAIN aggregateShardResults(rs) : IsPath(q)
<1>1. ASSUME NEW q \in DOMAIN aggregateShardResults(rs)
      PROVE  q \in {Processed, Skipped} \/ \E i \in DOMAIN rs : q \in DOMAIN rs[i]
  BY DEF aggregateShardResults
<1>2. IsPath(Processed) /\ IsPath(Skipped)
  BY WordPaths
<1>3. QED
  BY <1>1, <1>2, SeqIs

LEMMA GatheredPaths ==
  ASSUME Made, Filled, NEW c \in FlowCtxs, NEW h \in FlowCtxs, NEW rs, rs = Gathered(c, h)
  PROVE  IsSeq(rs) /\ \A i \in 1..Len(rs) : \A p \in DOMAIN rs[i] : IsPath(p)
<1>1. PICK a, b : a = ctx[c].results /\ b = ctx[h].results
  OBVIOUS
<1>2. IsSeq(a) /\ IsSeq(b)
  BY <1>1 DEF Made, Counted
<1>3. rs = a \o b
  BY <1>1 DEF Gathered
<1>4. IsSeq(rs)
  BY <1>2, <1>3, ConcatIs
<1>5. Len(rs) = Len(a) + Len(b)
  BY <1>2, <1>3, ConcatIs
<1>6. (\A i \in 1..Len(a) : rs[i] = a[i]) /\ \A i \in 1..Len(b) : rs[Len(a) + i] = b[i]
  BY <1>2, <1>3, ConcatIs
<1>7. /\ \A i \in 1..Len(a) : \A p \in DOMAIN a[i] : IsPath(p)
      /\ \A i \in 1..Len(b) : \A p \in DOMAIN b[i] : IsPath(p)
  BY <1>1 DEF Filled, Results
<1>8. ASSUME NEW i \in 1..Len(rs) PROVE \A p \in DOMAIN rs[i] : IsPath(p)
  <2>1. CASE i \in 1..Len(a)
    BY <2>1, <1>6, <1>7
  <2>2. CASE i \notin 1..Len(a)
    <3>1. PICK j : j = i - Len(a)
      OBVIOUS
    <3>2. j \in 1..Len(b) /\ i = Len(a) + j
      BY <2>2, <3>1, <1>2, <1>5 DEF IsSeq
    <3>3. QED
      BY <3>2, <1>6, <1>7
  <2>3. QED
    BY <2>1, <2>2
<1>9. QED
  BY <1>4, <1>8

LEMMA EffectOf ==
  ASSUME Made, Filled, NEW c \in FlowCtxs, Moves(c)
  PROVE  \E d \in FlowCtxs : AddsFor(d) \/ Merges(d) \/ PutsFor(d) \/ Rests
<1>1. CASE \/ Adds({Len(ctx) + 1, Len(ctx) + 2}, "branch", c, ctx[c].around, In(c), Outs(c))
           \/ Adds({Len(ctx) + 1}, "remote", c, ctx[c].around, Json(In(c)), Json(Outs(c)))
           \/ (\E i \in DOMAIN Coords : EntersOne(c, i))
  BY <1>1 DEF AddsFor, EntersOne
<1>2. CASE ctx[c].up \in FlowCtxs /\ Follows(ctx[c].up, c)
  BY <1>2 DEF AddsFor, Follows
<1>3. CASE ctx[c].up \in FlowCtxs /\ Closes(ctx[c].up, c)
  <2>1. PICK u, rs : u = ctx[c].up /\ rs = Gathered(u, c)
    OBVIOUS
  <2>2. IsSeq(rs) /\ \A i \in 1..Len(rs) : \A p \in DOMAIN rs[i] : IsPath(p)
    BY <1>3, <2>1, GatheredPaths
  <2>3. Puts(u, aggregateShardResults(rs))
    BY <1>3, <2>1 DEF Closes
  <2>4. QED
    BY <1>3, <2>1, <2>2, <2>3, AggregatePaths DEF PutsFor
<1>4. CASE /\ ctx[c].up \in FlowCtxs
           /\ \E n \in Items : ReturnsTo(ctx[c].up, [p \in {Processed} |-> [type |-> "float64", n |-> n]], n)
  <2>1. PICK n \in Items : ReturnsTo(ctx[c].up, [p \in {Processed} |-> [type |-> "float64", n |-> n]], n)
    BY <1>4
  <2>2. PICK m : m = [p \in {Processed} |-> [type |-> "float64", n |-> n]]
    OBVIOUS
  <2>3. \A q \in DOMAIN m : IsPath(q)
    BY <2>2, WordPaths
  <2>4. QED
    BY <1>4, <2>1, <2>2, <2>3 DEF ReturnsTo, PutsFor
<1>5. CASE ctx[c].up \in FlowCtxs /\ ReturnsTo(ctx[c].up, Json(Outs(c)), 0)
  <2>1. \A q \in DOMAIN Json(Outs(c)) : IsPath(q)
    BY JsonIs DEF Filled, Pathed
  <2>2. QED
    BY <1>5, <2>1 DEF ReturnsTo, PutsFor
<1>6. QED
  BY <1>1, <1>2, <1>3, <1>4, <1>5 DEF Moves

LEMMA ResultsKeep ==
  ASSUME Made, Filled, NEW c \in FlowCtxs, Moves(c)
  PROVE  \A d \in FlowCtxs' : Results(d)'
<1>1. \A d \in FlowCtxs : Results(d)
  BY DEF Filled
<1>2. ASSUME Unheld, NEW d \in FlowCtxs PROVE Results(d)'
  BY <1>1, <1>2 DEF Unheld, Results
<1>3. ASSUME NEW e, NEW rs, NEW n, Hold(e, rs, n), \A i \in 1..Len(rs) : \A p \in DOMAIN rs[i] : IsPath(p),
             NEW d \in FlowCtxs
      PROVE  Results(d)'
  BY <1>1, <1>3 DEF Hold, Results
<1>4. ASSUME NEW ns, NEW kind, NEW e, NEW around, NEW input, NEW outputs,
             Adds(ns, kind, e, around, input, outputs), NEW d \in FlowCtxs', d \notin FlowCtxs
      PROVE  Results(d)'
  <2>1. ctx'[d].results = <<>>
    BY <1>4 DEF Adds
  <2>2. QED
    BY <2>1 DEF Results
<1>5. CASE /\ \/ Adds({Len(ctx) + 1, Len(ctx) + 2}, "branch", c, ctx[c].around, In(c), Outs(c))
              \/ Adds({Len(ctx) + 1}, "remote", c, ctx[c].around, Json(In(c)), Json(Outs(c)))
              \/ (\E i \in DOMAIN Coords : EntersOne(c, i))
           /\ Unheld
  BY <1>2, <1>4, <1>5 DEF EntersOne
<1>6. CASE Merges(c) /\ Unheld
  BY <1>2, <1>6 DEF Merges, Writes
<1>7. CASE ctx[c].up \in FlowCtxs /\ Follows(ctx[c].up, c)
  <2>1. PICK rs, n : rs = Gathered(ctx[c].up, c) /\ n = Summed(ctx[c].up, c)
    OBVIOUS
  <2>2. Hold(ctx[c].up, rs, n) /\ \A i \in 1..Len(rs) : \A p \in DOMAIN rs[i] : IsPath(p)
    BY <1>7, <2>1, GatheredPaths DEF Follows
  <2>3. \A d \in FlowCtxs : Results(d)'
    BY <1>3, <2>2
  <2>4. QED
    BY <1>4, <1>7, <2>3 DEF Follows
<1>8. CASE ctx[c].up \in FlowCtxs /\ Closes(ctx[c].up, c)
  <2>1. PICK rs : rs = <<>>
    OBVIOUS
  <2>2. Hold(ctx[c].up, rs, 0) /\ \A i \in 1..Len(rs) : \A p \in DOMAIN rs[i] : IsPath(p)
    BY <1>8, <2>1 DEF Closes
  <2>3. \A d \in FlowCtxs : Results(d)'
    BY <1>3, <2>2
  <2>4. QED
    BY <1>8, <2>3 DEF Closes, Puts, Writes
<1>9. ASSUME NEW m, NEW n, ReturnsTo(ctx[c].up, m, n), \A p \in DOMAIN m : IsPath(p)
      PROVE  \A d \in FlowCtxs' : Results(d)'
  <2>1. CASE Rests /\ Hold(ctx[c].up, <<m>>, n)
    <3>1. PICK rs : rs = <<m>>
      OBVIOUS
    <3>2. Hold(ctx[c].up, rs, n) /\ \A i \in 1..Len(rs) : \A p \in DOMAIN rs[i] : IsPath(p)
      BY <1>9, <2>1, <3>1
    <3>3. \A d \in FlowCtxs : Results(d)'
      BY <1>3, <3>2
    <3>4. QED
      BY <2>1, <3>3 DEF Rests
  <2>2. CASE Puts(ctx[c].up, m) /\ Unheld
    BY <1>2, <2>2 DEF Puts, Writes
  <2>3. QED
    BY <1>9, <2>1, <2>2 DEF ReturnsTo
<1>10. CASE \E n \in Items : ReturnsTo(ctx[c].up, [p \in {Processed} |-> [type |-> "float64", n |-> n]], n)
  <2>1. PICK n \in Items : ReturnsTo(ctx[c].up, [p \in {Processed} |-> [type |-> "float64", n |-> n]], n)
    BY <1>10
  <2>2. PICK m : m = [p \in {Processed} |-> [type |-> "float64", n |-> n]]
    OBVIOUS
  <2>3. \A q \in DOMAIN m : IsPath(q)
    BY <2>2, WordPaths
  <2>4. QED
    BY <1>9, <2>1, <2>2, <2>3
<1>11. CASE ReturnsTo(ctx[c].up, Json(Outs(c)), 0)
  <2>1. \A q \in DOMAIN Json(Outs(c)) : IsPath(q)
    BY JsonIs DEF Filled, Pathed
  <2>2. QED
    BY <1>9, <1>11, <2>1
<1>12. QED
  BY <1>5, <1>6, <1>7, <1>8, <1>10, <1>11 DEF Moves

LEMMA PathedLater ==
  ASSUME NEW m, NEW k \in Nat, Pathed(m, k)
  PROVE  Pathed(m, k + 1)
<1>1. 1..k \subseteq 1..(k + 1)
  OBVIOUS
<1>2. QED
  BY <1>1 DEF Pathed

LEMMA PutPathed ==
  ASSUME Filled, NEW c \in FlowCtxs, NEW m, \A q \in DOMAIN m : IsPath(q)
  PROVE  Pathed(Over(Under(NextName, m), Outs(c)), put + 1)
<1>1. PICK u, o, w : u = Under(NextName, m) /\ o = Outs(c) /\ w = Over(u, o)
  OBVIOUS
<1>2. IsFun(w) /\ DOMAIN w \subseteq DOMAIN u \cup DOMAIN o
  BY <1>1, OverIs
<1>3. put + 1 \in 1..(put + 1)
  BY DEF Filled
<1>4. Pathed(o, put + 1)
  BY <1>1, PathedLater DEF Filled
<1>5. \A p \in DOMAIN u : IsPath(p) /\ p # <<>> /\ p[1] = Names[put + 1]
  <2>1. PICK name : name = NextName
    OBVIOUS
  <2>2. \A p \in DOMAIN Under(name, m) : IsPath(p) /\ p # <<>> /\ p[1] = name
    BY UnderIs
  <2>3. QED
    BY <1>1, <2>1, <2>2 DEF NextName
<1>6. Pathed(w, put + 1)
  BY <1>2, <1>3, <1>4, <1>5 DEF Pathed
<1>7. QED
  BY <1>1, <1>6

LEMMA FilledKeeps ==
  ASSUME Made, Filled, NEW c \in FlowCtxs, Moves(c)
  PROVE  Filled'
<1>1. \A d \in FlowCtxs' : Results(d)'
  BY ResultsKeep
<1>2. PICK e \in FlowCtxs : AddsFor(e) \/ Merges(e) \/ PutsFor(e) \/ Rests
  BY EffectOf
<1>3. put \in Nat /\ put <= Len(Names) /\ \A d \in FlowCtxs : Pathed(Outs(d), put)
  BY DEF Filled
<1>4. SUFFICES put' \in Nat /\ put' <= Len(Names) /\ \A d \in FlowCtxs' : Pathed(Outs(d)', put')
  BY <1>1 DEF Filled
<1>5. CASE AddsFor(e)
  <2>1. PICK ns, kind, around, input, outputs :
          /\ Adds(ns, kind, e, around, input, outputs)
          /\ outputs = Outs(e) \/ outputs = Json(Outs(e))
    BY <1>5 DEF AddsFor
  <2>2. Pathed(Json(Outs(e)), put)
    BY <1>3, JsonIs DEF Pathed
  <2>3. UNCHANGED put /\ FlowCtxs' = FlowCtxs \cup ns /\ (\A d \in FlowCtxs : Outs(d)' = Outs(d))
        /\ \A d \in ns : Outs(d)' = outputs
    BY <2>1 DEF Adds, Kept, Contents
  <2>4. QED
    BY <1>3, <2>1, <2>2, <2>3
<1>6. CASE Merges(e)
  <2>1. PICK u, m : u = ctx[e].up /\ m = Over(Outs(e), Outs(u))
    OBVIOUS
  <2>2. UNCHANGED put /\ FlowCtxs' = FlowCtxs /\ Outs(u)' = m /\ \A d \in FlowCtxs \ {u} : Outs(d)' = Outs(d)
    <3>1. Writes(u, m) /\ UNCHANGED put
      BY <1>6, <2>1 DEF Merges
    <3>2. QED
      BY <3>1 DEF Writes, Contents, Kept
  <2>3. u \in FlowCtxs
    BY <1>6, <2>1, UpIs DEF Merges
  <2>4. Pathed(m, put)
    <3>1. PICK f, g : f = Outs(e) /\ g = Outs(u)
      OBVIOUS
    <3>2. Pathed(f, put) /\ Pathed(g, put)
      BY <1>3, <2>3, <3>1
    <3>3. IsFun(m) /\ DOMAIN m \subseteq DOMAIN f \cup DOMAIN g
      BY <2>1, <3>1, OverIs
    <3>4. QED
      BY <3>2, <3>3 DEF Pathed
  <2>5. QED
    BY <1>3, <2>2, <2>4
<1>7. CASE PutsFor(e)
  <2>1. PICK m : Puts(e, m) /\ \A q \in DOMAIN m : IsPath(q)
    BY <1>7 DEF PutsFor
  <2>2. PICK w : w = Over(Under(NextName, m), Outs(e))
    OBVIOUS
  <2>3. put < Len(Names) /\ put' = put + 1 /\ FlowCtxs' = FlowCtxs /\ Outs(e)' = w
        /\ \A d \in FlowCtxs \ {e} : Outs(d)' = Outs(d)
    BY <2>1, <2>2 DEF Puts, Writes, Contents, Kept
  <2>4. Pathed(w, put + 1)
    BY <2>1, <2>2, PutPathed
  <2>5. \A d \in FlowCtxs : Pathed(Outs(d), put + 1)
    BY <1>3, PathedLater
  <2>6. put' \in Nat /\ put' <= Len(Names)
    BY <1>3, <2>3, NamesAre
  <2>7. QED
    BY <2>3, <2>4, <2>5, <2>6
<1>8. CASE Rests
  BY <1>3, <1>8 DEF Rests, Kept, Contents
<1>9. QED
  BY <1>2, <1>5, <1>6, <1>7, <1>8

(* A branch and the FlowCtx it was cloned from have the same output under the    *)
(* same name, so merging adds only.                                              *)
LEMMA BranchAgrees ==
  ASSUME Made, Agree, NEW b \in FlowCtxs, ctx[b].kind = "branch"
  PROVE  Same(b, ctx[b].up) /\ Same(ctx[b].up, b)
<1>1. PICK proc : Process(proc) /\ \A c, d \in FlowCtxs : proc[c] = proc[d] => Same(c, d)
  BY DEF Agree
<1>2. ctx[b].up \in FlowCtxs
  BY UpIs
<1>3. QED
  BY <1>1, <1>2 DEF Process

LEMMA OutputsGrow ==
  ASSUME Made, Filled, Agree, NEW c \in FlowCtxs, Moves(c)
  PROVE  \A d \in FlowCtxs : d \in FlowCtxs' /\ Grows(d)
<1>1. PICK e \in FlowCtxs : AddsFor(e) \/ Merges(e) \/ PutsFor(e) \/ Rests
  BY EffectOf
<1>2. CASE AddsFor(e) \/ Rests
  BY <1>2 DEF AddsFor, Adds, Rests, Kept, Contents, Grows
<1>3. CASE Merges(e)
  <2>1. PICK u, m : u = ctx[e].up /\ m = Over(Outs(e), Outs(u))
    OBVIOUS
  <2>2. Writes(u, m)
    BY <1>3, <2>1 DEF Merges
  <2>3. Same(u, e)
    BY <1>3, <2>1, BranchAgrees DEF Merges
  <2>4. PICK f, g : f = Outs(e) /\ g = Outs(u)
    OBVIOUS
  <2>5. DOMAIN g \subseteq DOMAIN m /\ \A p \in DOMAIN g : m[p] = g[p]
    <3>1. Agrees(f, g)
      BY <2>3, <2>4 DEF Same, Agrees
    <3>2. m = Over(f, g)
      BY <2>1, <2>4
    <3>3. Added(m, f, g)
      BY <3>1, <3>2, OverAdds
    <3>4. QED
      BY <3>3 DEF Added
  <2>6. FlowCtxs' = FlowCtxs /\ Outs(u)' = m /\ \A d \in FlowCtxs \ {u} : Outs(d)' = Outs(d)
    BY <2>2 DEF Writes, Contents, Kept
  <2>7. QED
    BY <2>4, <2>5, <2>6 DEF Grows
<1>4. CASE PutsFor(e)
  <2>1. PICK m : Puts(e, m) /\ \A q \in DOMAIN m : IsPath(q)
    BY <1>4 DEF PutsFor
  <2>2. PICK f, g, w : f = Under(NextName, m) /\ g = Outs(e) /\ w = Over(f, g)
    OBVIOUS
  <2>3. FlowCtxs' = FlowCtxs /\ Outs(e)' = w /\ \A d \in FlowCtxs \ {e} : Outs(d)' = Outs(d)
    BY <2>1, <2>2 DEF Puts, Writes, Contents, Kept
  <2>4. \A p \in DOMAIN g : p \notin DOMAIN f /\ ~Meets(f, p)
    BY <2>1, <2>2, NewPaths DEF Puts
  <2>5. DOMAIN g \subseteq DOMAIN w /\ \A p \in DOMAIN g : w[p] = g[p]
    <3>1. w = Over(f, g)
      BY <2>2
    <3>2. /\ \A p \in DOMAIN g : p \in DOMAIN w <=> p \in DOMAIN f \/ ~Meets(f, p)
          /\ \A p \in DOMAIN w \ DOMAIN f : w[p] = g[p]
      BY <3>1, OverIs
    <3>3. QED
      BY <2>4, <3>2
  <2>6. QED
    BY <2>2, <2>3, <2>5 DEF Grows
<1>5. QED
  BY <1>1, <1>2, <1>3, <1>4

LEMMA AgreeKeeps ==
  ASSUME Made, Made', Filled, Agree, NEW c \in FlowCtxs, Moves(c)
  PROVE  Agree'
<1>1. PICK e \in FlowCtxs : AddsFor(e) \/ Merges(e) \/ PutsFor(e) \/ Rests
  BY EffectOf
<1>2. PICK proc : Process(proc) /\ \A x, y \in FlowCtxs : proc[x] = proc[y] => Same(x, y)
  BY DEF Agree
<1>3. ASSUME FlowCtxs' = FlowCtxs, \A d \in FlowCtxs : Refs(ctx', d),
             \A x, y \in FlowCtxs : proc[x] = proc[y] => Same(x, y)'
      PROVE  Agree'
  <2>1. Process(proc)'
    BY <1>2, <1>3 DEF Process, Refs
  <2>2. \A x, y \in FlowCtxs' : proc[x] = proc[y] => Same(x, y)'
    BY <1>3
  <2>3. QED
    BY <2>1, <2>2 DEF Agree
<1>4. CASE Rests
  <2>1. \A x, y \in FlowCtxs : proc[x] = proc[y] => Same(x, y)'
    BY <1>2, <1>4 DEF Rests, Kept, Contents, Same
  <2>2. QED
    BY <1>3, <1>4, <2>1 DEF Rests
<1>5. CASE PutsFor(e)
  <2>1. PICK m : Puts(e, m) /\ \A q \in DOMAIN m : IsPath(q)
    BY <1>5 DEF PutsFor
  <2>2. PICK f, g, w : f = Under(NextName, m) /\ g = Outs(e) /\ w = Over(f, g)
    OBVIOUS
  <2>3. FlowCtxs' = FlowCtxs /\ Outs(e)' = w /\ \A d \in FlowCtxs \ {e} : Outs(d)' = Outs(d)
    BY <2>1, <2>2 DEF Puts, Writes, Contents, Kept
  <2>4. \A d \in FlowCtxs : /\ \A p \in DOMAIN f : ~Meets(Outs(d), p)
                            /\ \A p \in DOMAIN Outs(d) : p \notin DOMAIN f /\ ~Meets(f, p)
    BY <2>1, <2>2, NewPaths DEF Puts
  <2>5. DOMAIN w = DOMAIN f \cup DOMAIN g /\ \A p \in DOMAIN g : w[p] = g[p]
    <3>1. \A p \in DOMAIN g : p \notin DOMAIN f /\ ~Meets(f, p)
      BY <2>2, <2>4
    <3>2. w = Over(f, g)
      BY <2>2
    <3>3. /\ DOMAIN w \subseteq DOMAIN f \cup DOMAIN g
          /\ \A p \in DOMAIN f : p \in DOMAIN w
          /\ \A p \in DOMAIN g : p \in DOMAIN w <=> p \in DOMAIN f \/ ~Meets(f, p)
          /\ \A p \in DOMAIN w \ DOMAIN f : w[p] = g[p]
      BY <3>2, OverIs
    <3>4. \A p \in DOMAIN g : p \in DOMAIN w
      BY <3>1, <3>3
    <3>5. \A p \in DOMAIN g : w[p] = g[p]
      BY <3>1, <3>3, <3>4
    <3>6. QED
      BY <3>3, <3>4, <3>5
  <2>6. \A p : Meets(w, p) <=> Meets(f, p) \/ Meets(g, p)
    BY <2>5 DEF Meets
  <2>8. ASSUME NEW x \in FlowCtxs, NEW y \in FlowCtxs, proc[x] = proc[y] PROVE Same(x, y)'
    <3>1. Same(x, y)
      BY <1>2, <2>8
    <3>2. \A p : Meets(Outs(y), p)' <=> Meets(Outs(y)', p)
      BY DEF Meets
    <3>3. CASE x = e /\ y = e
      BY <3>3 DEF Same
    <3>4. CASE x = e /\ y # e
      BY <2>2, <2>3, <2>4, <2>5, <3>1, <3>2, <3>4 DEF Same
    <3>5. CASE x # e /\ y = e
      BY <2>2, <2>3, <2>4, <2>5, <2>6, <3>1, <3>2, <3>5 DEF Same
    <3>6. CASE x # e /\ y # e
      BY <2>3, <3>1, <3>2, <3>6 DEF Same
    <3>7. QED
      BY <3>3, <3>4, <3>5, <3>6
  <2>7. QED
    BY <1>3, <2>1, <2>3, <2>8 DEF Puts, Writes
<1>6. CASE Merges(e)
  <2>1. PICK u, m, f, g : u = ctx[e].up /\ f = Outs(e) /\ g = Outs(u) /\ m = Over(f, g)
    OBVIOUS
  <2>2. Writes(u, m) /\ ctx[e].kind = "branch"
    BY <1>6, <2>1 DEF Merges
  <2>3. u \in FlowCtxs /\ proc[u] = proc[e]
    BY <1>2, <2>1, <2>2, UpIs DEF Process
  <2>4. FlowCtxs' = FlowCtxs /\ Outs(u)' = m /\ \A d \in FlowCtxs \ {u} : Outs(d)' = Outs(d)
    BY <2>2 DEF Writes, Contents, Kept
  <2>5. /\ DOMAIN m = DOMAIN f \cup DOMAIN g
        /\ \A p \in DOMAIN f : m[p] = f[p]
        /\ \A p \in DOMAIN g : m[p] = g[p]
    <3>1. Same(u, e)
      BY <1>2, <2>3
    <3>2. Agrees(f, g)
      BY <2>1, <3>1 DEF Same, Agrees
    <3>3. \A p \in DOMAIN f : m[p] = f[p]
      BY <2>1, OverIs
    <3>4. Added(m, f, g)
      BY <2>1, <3>2, OverAdds
    <3>5. QED
      BY <3>3, <3>4 DEF Added
  <2>6. \A p : Meets(m, p) <=> Meets(f, p) \/ Meets(g, p)
    BY <2>5 DEF Meets
  <2>7. ASSUME NEW x \in FlowCtxs, NEW y \in FlowCtxs, proc[x] = proc[y] PROVE Same(x, y)'
    <3>1. Same(x, y)
      BY <1>2, <2>7
    <3>2. \A p : Meets(Outs(y), p)' <=> Meets(Outs(y)', p)
      BY DEF Meets
    <3>3. CASE x = u /\ y = u
      BY <3>3 DEF Same
    <3>4. CASE x = u /\ y # u
      <4>1. Same(e, y)
        BY <1>2, <2>3, <2>7, <3>4
      <4>2. QED
        BY <2>1, <2>4, <2>5, <3>1, <3>2, <3>4, <4>1 DEF Same
    <3>5. CASE x # u /\ y = u
      <4>1. Same(x, e)
        BY <1>2, <2>3, <2>7, <3>5
      <4>2. QED
        BY <2>1, <2>4, <2>5, <2>6, <3>1, <3>2, <3>5, <4>1 DEF Same
    <3>6. CASE x # u /\ y # u
      BY <2>4, <3>1, <3>2, <3>6 DEF Same
    <3>7. QED
      BY <3>3, <3>4, <3>5, <3>6
  <2>8. QED
    BY <1>3, <2>2, <2>4, <2>7 DEF Writes
<1>7. CASE AddsFor(e)
  <2>1. PICK ns, kind, around, input, outputs :
          /\ Adds(ns, kind, e, around, input, outputs)
          /\ \/ kind \in {"branch", "handler"} /\ outputs = Outs(e)
             \/ kind = "remote" /\ outputs = Json(Outs(e)) /\ ns = {Len(ctx) + 1}
    BY <1>7 DEF AddsFor
  <2>2. /\ FlowCtxs' = FlowCtxs \cup ns /\ ns \cap FlowCtxs = {}
        /\ \A d \in FlowCtxs : Refs(ctx', d) /\ Outs(d)' = Outs(d)
        /\ \A n \in ns : Outs(n)' = outputs /\ ctx'[n].kind = kind /\ ctx'[n].up = e
    BY <2>1 DEF Adds, Kept, Contents
  <2>3. PICK proc2 : proc2 = [d \in FlowCtxs' |-> IF d \in FlowCtxs THEN proc[d]
                                                 ELSE IF kind = "remote" THEN d ELSE proc[e]]
    OBVIOUS
  <2>4. Process(proc2)'
    <3>1. proc2 \in [FlowCtxs' -> FlowCtxs']
      BY <1>2, <2>2, <2>3 DEF Process
    <3>2. ASSUME NEW d \in FlowCtxs
          PROVE  proc2[d] = IF ctx'[d].kind \in {"main", "remote"} THEN d ELSE proc2[ctx'[d].up]
      <4>1. ctx'[d].kind = ctx[d].kind /\ ctx'[d].up = ctx[d].up /\ proc2[d] = proc[d]
        BY <2>2, <2>3 DEF Refs
      <4>2. ctx[d].kind # "main" => ctx[d].up \in FlowCtxs
        BY UpIs
      <4>3. QED
        BY <1>2, <2>2, <2>3, <4>1, <4>2 DEF Process
    <3>3. ASSUME NEW d \in ns
          PROVE  proc2[d] = IF ctx'[d].kind \in {"main", "remote"} THEN d ELSE proc2[ctx'[d].up]
      BY <2>1, <2>2, <2>3
    <3>4. QED
      BY <2>2, <3>1, <3>2, <3>3 DEF Process
  <2>5. ASSUME NEW x \in FlowCtxs', NEW y \in FlowCtxs', proc2[x] = proc2[y]
        PROVE  Same(x, y)'
    <3>1. CASE kind = "remote"
      <4>1. \A d \in FlowCtxs : proc2[d] = proc[d] /\ proc[d] \in FlowCtxs
        BY <1>2, <2>2, <2>3 DEF Process
      <4>2. \A n \in ns : proc2[n] = n /\ n \notin FlowCtxs
        BY <2>2, <2>3, <3>1
      <4>3. CASE x \in FlowCtxs /\ y \in FlowCtxs
        BY <1>2, <2>2, <2>5, <4>1, <4>3 DEF Same
      <4>4. CASE x \notin FlowCtxs \/ y \notin FlowCtxs
        <5>1. x = y
          BY <2>2, <2>5, <4>1, <4>2, <4>4
        <5>2. QED
          BY <5>1 DEF Same
      <4>5. QED
        BY <4>3, <4>4
    <3>2. CASE kind # "remote"
      <4>1. PICK x1 \in FlowCtxs : proc[x1] = proc2[x] /\ Outs(x)' = Outs(x1)
        BY <2>1, <2>2, <2>3, <3>2
      <4>2. PICK y1 \in FlowCtxs : proc[y1] = proc2[y] /\ Outs(y)' = Outs(y1)
        BY <2>1, <2>2, <2>3, <3>2
      <4>3. Same(x1, y1)
        BY <1>2, <2>5, <4>1, <4>2
      <4>4. QED
        BY <4>1, <4>2, <4>3 DEF Same
    <3>3. QED
      BY <3>1, <3>2
  <2>6. QED
    BY <2>4, <2>5 DEF Agree
<1>8. QED
  BY <1>1, <1>4, <1>5, <1>6, <1>7

-------------------------------------------------------------------------------
(* The invariant.                                                                *)

JoinedBranches == \A b \in FlowCtxs : ctx[b].st = "joined" => ctx[b].kind = "branch"
IInv == Made /\ Filled /\ Agree /\ JoinedBranches /\ Joined

Has(u, d) == \A p \in DOMAIN Outs(d) : p \in DOMAIN Outs(u) /\ Outs(u)[p] = Outs(d)[p]

LEMMA JoinedKeeps ==
  ASSUME IInv, Made', NEW c \in FlowCtxs, Moves(c)
  PROVE  JoinedBranches' /\ Joined'
<1>1. Made /\ Filled /\ Agree /\ JoinedBranches /\ Joined
  BY DEF IInv
<1>2. PICK e \in FlowCtxs : AddsFor(e) \/ Merges(e) \/ PutsFor(e) \/ Rests
  BY <1>1, EffectOf
<1>3. \A d \in FlowCtxs : Grows(d) /\ Refs(ctx', d)
  <2>1. \A d \in FlowCtxs : Grows(d)
    BY <1>1, OutputsGrow
  <2>2. \A d \in FlowCtxs : Refs(ctx', d)
    BY <1>2 DEF AddsFor, Adds, Merges, PutsFor, Puts, Writes, Rests
  <2>3. QED
    BY <2>1, <2>2
<1>4. ASSUME NEW d \in FlowCtxs, ctx[d].st = "joined" PROVE Outs(d)' = Outs(d)
  BY <1>2, <1>4 DEF AddsFor, Adds, Merges, PutsFor, Puts, Writes, Rests, Kept, Contents
<1>5. ASSUME NEW d \in FlowCtxs, ctx[d].st = "joined"
      PROVE  /\ ctx'[d].kind = "branch"
             /\ \E u : u = ctx'[d].up /\ Has(u, d)'
  <2>1. PICK u : u = ctx[d].up
    OBVIOUS
  <2>2. ctx[d].kind = "branch" /\ u \in FlowCtxs
    BY <1>1, <1>5, <2>1, UpIs DEF JoinedBranches
  <2>3. ctx'[d].kind = "branch" /\ ctx'[d].up = u
    BY <1>3, <2>1, <2>2 DEF Refs
  <2>4. \A p \in DOMAIN Outs(d) : p \in DOMAIN Outs(u) /\ Outs(u)[p] = Outs(d)[p]
    BY <1>1, <1>5, <2>1 DEF Joined
  <2>5. Grows(u)
    BY <1>3, <2>2
  <2>6. \A p \in DOMAIN Outs(d) : p \in DOMAIN Outs(u)' /\ Outs(u)'[p] = Outs(d)[p]
    BY <2>4, <2>5 DEF Grows
  <2>7. QED
    BY <1>4, <1>5, <2>3, <2>6 DEF Has
<1>6. ASSUME NEW d \in FlowCtxs', ctx'[d].st = "joined", ~(d \in FlowCtxs /\ ctx[d].st = "joined")
      PROVE  /\ ctx'[d].kind = "branch"
             /\ \E u : u = ctx'[d].up /\ Has(u, d)'
  <2>1. Merges(d) /\ d \in FlowCtxs
    <3>1. CASE AddsFor(e)
      BY <1>6, <3>1 DEF AddsFor, Adds, Settled
    <3>2. CASE PutsFor(e) \/ Rests
      BY <1>6, <3>2 DEF PutsFor, Puts, Writes, Rests, Settled
    <3>3. CASE Merges(e)
      BY <1>6, <3>3 DEF Merges, Writes, Settled
    <3>4. QED
      BY <1>2, <3>1, <3>2, <3>3
  <2>2. PICK u, m, f, g : u = ctx[d].up /\ f = Outs(d) /\ g = Outs(u) /\ m = Over(f, g)
    OBVIOUS
  <2>3. Writes(u, m) /\ ctx[d].kind = "branch"
    BY <2>1, <2>2 DEF Merges
  <2>4. u # d
    BY <1>1, <2>1, <2>2, <2>3, UpIs
  <2>5. Outs(u)' = m /\ Outs(d)' = f
    BY <2>1, <2>2, <2>3, <2>4 DEF Writes, Contents, Kept
  <2>6. DOMAIN f \subseteq DOMAIN m /\ \A p \in DOMAIN f : m[p] = f[p]
    BY <2>2, OverIs
  <2>7. ctx'[d].kind = "branch" /\ ctx'[d].up = u
    BY <1>3, <2>1, <2>2, <2>3 DEF Refs
  <2>8. QED
    BY <2>2, <2>5, <2>6, <2>7 DEF Has
<1>7. ASSUME NEW d \in FlowCtxs', ctx'[d].st = "joined"
      PROVE  /\ ctx'[d].kind = "branch"
             /\ \E u : u = ctx'[d].up /\ Has(u, d)'
  BY <1>5, <1>6, <1>7
<1>8. JoinedBranches'
  BY <1>7 DEF JoinedBranches
<1>9. Joined'
  BY <1>7 DEF Joined, Has, Outs, FlowCtxs
<1>10. QED
  BY <1>8, <1>9

LEMMA InitInv == Init => IInv
<1> SUFFICES ASSUME Init PROVE IInv
  OBVIOUS
<1>1. PICK f : f = For([input |-> 1, outputs |-> 2], "main", 0, <<JobInput>>)
  OBVIOUS
<1>2. heap = <<JobInput, <<>>>> /\ ctx = <<f>> /\ put = 0
  BY <1>1 DEF Init
<1>3. /\ DOMAIN f = Fields /\ f.input = 1 /\ f.outputs = 2 /\ f.kind = "main" /\ f.up = 0
      /\ f.st = "live" /\ f.results = <<>>
  BY <1>1, ForIs
<1>4. /\ IsSeq(heap) /\ Len(heap) = 2 /\ heap[1] = JobInput /\ heap[2] = <<>>
      /\ IsSeq(ctx) /\ Len(ctx) = 1 /\ ctx[1] = f /\ FlowCtxs = {1}
  BY <1>2 DEF IsSeq, FlowCtxs
<1>5. IsSeq(<<>>) /\ Len(<<>>) < Len(Coords) /\ Len(<<>>) = 0
  BY FlowCtxAssumption DEF IsSeq
<1>6. Owned(1) /\ Placed(1) /\ Counted(1)
  BY <1>3, <1>4, <1>5 DEF Owned, Placed, Counted
<1>7. Made
  BY <1>4, <1>6 DEF Made
<1>8. Outs(1) = <<>>
  BY <1>3, <1>4 DEF Outs
<1>9. Filled
  <2>1. Pathed(<<>>, 0)
    BY DEF Pathed, IsFun
  <2>2. Results(1)
    BY <1>3, <1>4, <1>5 DEF Results
  <2>3. QED
    BY <1>2, <1>4, <1>8, <2>1, <2>2, NamesAre DEF Filled
<1>10. Agree
  <2>1. PICK proc : proc = [c \in {1} |-> 1]
    OBVIOUS
  <2>2. Process(proc)
    BY <1>3, <1>4, <2>1 DEF Process
  <2>3. Same(1, 1)
    BY DEF Same
  <2>4. QED
    BY <1>4, <2>2, <2>3 DEF Agree
<1>11. JoinedBranches /\ Joined
  BY <1>3, <1>4 DEF JoinedBranches, Joined
<1>12. QED
  BY <1>7, <1>9, <1>10, <1>11 DEF IInv

LEMMA StepInv == IInv /\ [Next]_vars => IInv'
<1> SUFFICES ASSUME IInv, [Next]_vars PROVE IInv'
  OBVIOUS
<1>1. CASE Next
  <2>1. Made /\ Filled /\ Agree
    BY DEF IInv
  <2>2. Made' /\ \E c \in FlowCtxs : Moves(c)
    BY <1>1, <2>1, NextIs
  <2>3. PICK c \in FlowCtxs : Moves(c)
    BY <2>2
  <2>4. Filled' /\ Agree'
    BY <2>1, <2>2, <2>3, FilledKeeps, AgreeKeeps
  <2>5. JoinedBranches' /\ Joined'
    BY <2>2, <2>3, JoinedKeeps
  <2>6. QED
    BY <2>2, <2>4, <2>5 DEF IInv
<1>2. CASE UNCHANGED vars
  <2>1. Made'
    BY <1>2 DEF IInv, vars, Made, FlowCtxs, Owned, Placed, Counted
  <2>2. Filled'
    BY <1>2 DEF IInv, vars, Filled, FlowCtxs, Pathed, Results, Outs
  <2>3. Agree'
    <3>1. PICK proc : Process(proc) /\ \A x, y \in FlowCtxs : proc[x] = proc[y] => Same(x, y)
      BY DEF IInv, Agree
    <3>2. Process(proc)' /\ FlowCtxs' = FlowCtxs
      BY <1>2, <3>1 DEF vars, Process, FlowCtxs
    <3>3. \A x : Outs(x)' = Outs(x)
      BY <1>2 DEF vars, Outs
    <3>4. \A x, y : Same(x, y)' <=> Same(x, y)
      BY <3>3 DEF Same, Meets
    <3>5. QED
      BY <3>1, <3>2, <3>4 DEF Agree
  <2>4. JoinedBranches' /\ Joined'
    BY <1>2 DEF IInv, vars, JoinedBranches, Joined, FlowCtxs, Outs
  <2>5. QED
    BY <2>1, <2>2, <2>3, <2>4 DEF IInv
<1>3. QED
  BY <1>1, <1>2

(* The inductive invariant: each FlowCtx has two maps of its own, is made for an  *)
(* older one that waits for it, and holds outputs only under names put so far,   *)
(* the same ones as the others of its process.                                   *)
THEOREM Inductive == Spec => []IInv
<1>1. Init => IInv
  BY InitInv
<1>2. IInv /\ [Next]_vars => IInv'
  BY StepInv
<1>3. QED
  BY <1>1, <1>2, PTL DEF Spec

(* When a branch of a parallel has ended, all of its outputs are those of the    *)
(* FlowCtx it was cloned from, whatever the other branches and later phases put  *)
(* (phase.go 449-480, flowctx.go 164-170).                                       *)
THEOREM BranchesJoined == Spec => []Joined
<1>1. IInv => Joined
  BY DEF IInv
<1>2. QED
  BY <1>1, Inductive, PTL

-------------------------------------------------------------------------------
(* The refinement: what a FlowCtx reads are the values of FlowCtxValues.         *)

Value(c) == [input |-> In(c), outputs |-> Outs(c)]
Val == [c \in FlowCtxs |-> Value(c)]

LEMMA SeqOn ==
  ASSUME NEW v, NEW k \in Nat, DOMAIN v = 1..k, IsFun(v)
  PROVE  IsSeq(v) /\ Len(v) = k
<1>1. Len(v) = k
  BY DEF IsFun
<1>2. QED
  BY <1>1 DEF IsFun, IsSeq

LEMMA ValIs ==
  ASSUME Made
  PROVE  IsSeq(Val) /\ Len(Val) = Len(ctx) /\ DOMAIN Val = FlowCtxs
<1>1. FlowCtxs = 1..Len(ctx) /\ Len(ctx) \in Nat
  BY Ctxs
<1>2. PICK v, k : v = Val /\ k = Len(ctx) /\ k \in Nat
  BY <1>1
<1>3. DOMAIN v = 1..k /\ IsFun(v)
  BY <1>1, <1>2 DEF Val, IsFun
<1>4. IsSeq(v) /\ Len(v) = k
  BY <1>2, <1>3, SeqOn
<1>5. QED
  BY <1>1, <1>2, <1>3, <1>4

(* One more value, or two.                                                       *)
LEMMA OneValueMore ==
  ASSUME NEW v, IsSeq(v), NEW w, IsSeq(w), NEW e,
         Len(w) = Len(v) + 1, \A i \in 1..Len(v) : w[i] = v[i], w[Len(v) + 1] = e
  PROVE  w = Append(v, e)
<1>1. PICK t : t = Append(v, e)
  OBVIOUS
<1>2. /\ IsSeq(t) /\ Len(t) = Len(v) + 1 /\ t[Len(v) + 1] = e
      /\ \A i \in 1..Len(v) : t[i] = v[i]
  BY <1>1, AppendIs
<1>3. \A i \in 1..Len(w) : w[i] = t[i]
  BY <1>2 DEF IsSeq
<1>4. QED
  BY <1>1, <1>2, <1>3, SeqEq

LEMMA TwoValuesMore ==
  ASSUME NEW v, IsSeq(v), NEW w, IsSeq(w), NEW e,
         Len(w) = Len(v) + 2, \A i \in 1..Len(v) : w[i] = v[i],
         w[Len(v) + 1] = e, w[Len(v) + 2] = e
  PROVE  TwoAfter(w, v, e, e)
<1>1. PICK t : TwoAfter(t, v, e, e)
  BY DEF TwoAfter
<1>2. /\ IsSeq(t) /\ Len(t) = Len(v) + 2 /\ t[Len(v) + 1] = e /\ t[Len(v) + 2] = e
      /\ \A i \in 1..Len(v) : t[i] = v[i]
  BY <1>1, TwoMore
<1>3. \A i \in 1..Len(w) : w[i] = t[i]
  BY <1>2 DEF IsSeq
<1>4. QED
  BY <1>1, <1>2, <1>3, SeqEq

(* A step that makes FlowCtxs appends their values.                              *)
Extended(w, v, ns, e) ==
  /\ IsFun(w) /\ DOMAIN w = DOMAIN v \cup ns
  /\ \A d \in DOMAIN v : w[d] = v[d]
  /\ \A n \in ns : w[n] = e

LEMMA AddsValues ==
  ASSUME NEW ns, NEW kind, NEW c, NEW around, NEW input, NEW outputs,
         Adds(ns, kind, c, around, input, outputs),
         NEW v, v = Val, NEW w, w = Val', NEW e, e = [input |-> input, outputs |-> outputs]
  PROVE  Extended(w, v, ns, e)
<1>1. FlowCtxs' = FlowCtxs \cup ns /\ DOMAIN v = FlowCtxs /\ DOMAIN w = FlowCtxs'
  BY DEF Adds, Val
<1>2. ASSUME NEW d \in FlowCtxs PROVE w[d] = v[d]
  <2>1. In(d)' = In(d) /\ Outs(d)' = Outs(d)
    BY <1>2 DEF Adds, Kept, Contents
  <2>2. QED
    BY <1>1, <2>1 DEF Val, Value
<1>3. ASSUME NEW n \in ns PROVE w[n] = e
  <2>1. In(n)' = input /\ Outs(n)' = outputs
    BY <1>3 DEF Adds, Contents
  <2>2. QED
    BY <1>1, <2>1 DEF Val, Value
<1>4. IsFun(w)
  BY DEF Val, IsFun
<1>5. QED
  BY <1>1, <1>2, <1>3, <1>4 DEF Extended

LEMMA AppendsValue ==
  ASSUME Made, NEW kind, NEW c, NEW around, NEW input, NEW outputs,
         Adds({Len(ctx) + 1}, kind, c, around, input, outputs)
  PROVE  Val' = Append(Val, [input |-> input, outputs |-> outputs])
<1>1. PICK v, w, e, k, ns : /\ v = Val /\ w = Val' /\ e = [input |-> input, outputs |-> outputs]
                            /\ k = Len(ctx) /\ ns = {k + 1}
  OBVIOUS
<1>2. IsSeq(v) /\ Len(v) = k /\ DOMAIN v = 1..k /\ k \in Nat
  BY <1>1, ValIs, Ctxs
<1>3. Adds(ns, kind, c, around, input, outputs)
  BY <1>1
<1>4. /\ IsFun(w) /\ DOMAIN w = DOMAIN v \cup ns
      /\ \A d \in DOMAIN v : w[d] = v[d]
      /\ \A n \in ns : w[n] = e
  <2>1. Extended(w, v, ns, e)
    BY <1>1, <1>3, AddsValues
  <2>2. QED
    BY <2>1 DEF Extended
<1>5. IsSeq(w) /\ Len(w) = k + 1
  <2>1. DOMAIN w = 1..(k + 1) /\ k + 1 \in Nat
    BY <1>1, <1>2, <1>4
  <2>2. QED
    BY <1>4, <2>1, SeqOn
<1>6. (\A i \in 1..Len(v) : w[i] = v[i]) /\ w[Len(v) + 1] = e
  BY <1>1, <1>2, <1>4
<1>7. w = Append(v, e)
  BY <1>2, <1>5, <1>6, OneValueMore
<1>8. QED
  BY <1>1, <1>7

LEMMA AppendsValues ==
  ASSUME Made, NEW c \in FlowCtxs, NEW around,
         Adds({Len(ctx) + 1, Len(ctx) + 2}, "branch", c, around, In(c), Outs(c))
  PROVE  TwoAfter(Val', Val, Val[c], Val[c])
<1>1. PICK v, w, e, k, ns, i, o : /\ v = Val /\ w = Val' /\ i = In(c) /\ o = Outs(c)
                                  /\ e = [input |-> i, outputs |-> o]
                                  /\ k = Len(ctx) /\ ns = {k + 1, k + 2}
  OBVIOUS
<1>2. IsSeq(v) /\ Len(v) = k /\ DOMAIN v = 1..k /\ k \in Nat
  BY <1>1, ValIs, Ctxs
<1>3. Adds(ns, "branch", c, around, i, o)
  BY <1>1
<1>4. /\ IsFun(w) /\ DOMAIN w = DOMAIN v \cup ns
      /\ \A d \in DOMAIN v : w[d] = v[d]
      /\ \A n \in ns : w[n] = e
  <2>1. Extended(w, v, ns, e)
    <3>1. v = Val /\ w = Val' /\ e = [input |-> i, outputs |-> o]
      BY <1>1
    <3>2. QED
      BY <1>3, <3>1, AddsValues
  <2>2. QED
    BY <2>1 DEF Extended
<1>5. IsSeq(w) /\ Len(w) = k + 2
  <2>1. DOMAIN w = 1..(k + 2) /\ k + 2 \in Nat
    BY <1>1, <1>2, <1>4
  <2>2. QED
    BY <1>4, <2>1, SeqOn
<1>6. (\A j \in 1..Len(v) : w[j] = v[j]) /\ w[Len(v) + 1] = e /\ w[Len(v) + 2] = e
  BY <1>1, <1>2, <1>4
<1>7. TwoAfter(w, v, e, e)
  BY <1>2, <1>5, <1>6, TwoValuesMore
<1>8. e = Val[c]
  BY <1>1 DEF Val, Value
<1>9. QED
  BY <1>1, <1>7, <1>8

(* A step that writes adds outputs to one value.                                 *)
LEMMA WritesValue ==
  ASSUME IInv, NEW u \in FlowCtxs, NEW m, Writes(u, m), Grows(u)
  PROVE  Values!Add(u)
<1>1. PICK f, g : f = Outs(u) /\ g = Outs(u)'
  OBVIOUS
<1>2. f = [p \in DOMAIN f |-> f[p]]
  BY <1>1 DEF IInv, Filled, Pathed, IsFun
<1>3. DOMAIN f \subseteq DOMAIN g /\ \A p \in DOMAIN f : g[p] = f[p]
  BY <1>1 DEF Grows
<1>4. Values!Restrict(g, DOMAIN f) = f
  BY <1>2, <1>3 DEF Values!Restrict
<1>5. PICK v, w : v = Val /\ w = Val'
  OBVIOUS
<1>6. DOMAIN w = DOMAIN v /\ \A d \in DOMAIN v \ {u} : w[d] = v[d]
  BY <1>5 DEF Writes, Val, Value, Kept, Contents
<1>7. v[u].input = In(u) /\ v[u].outputs = f /\ w[u].input = In(u) /\ w[u].outputs = g
  BY <1>1, <1>5 DEF Writes, Val, Value, Contents
<1>8. /\ DOMAIN w = DOMAIN v /\ \A d \in DOMAIN v \ {u} : w[d] = v[d]
      /\ w[u].input = v[u].input
      /\ DOMAIN v[u].outputs \subseteq DOMAIN w[u].outputs
      /\ Values!Restrict(w[u].outputs, DOMAIN v[u].outputs) = v[u].outputs
  BY <1>3, <1>4, <1>6, <1>7
<1>9. QED
  BY <1>5, <1>8 DEF Values!Add, Val, Value

LEMMA MoveImplements ==
  ASSUME IInv, Made', NEW c \in FlowCtxs, Moves(c)
  PROVE  Values!Next \/ UNCHANGED Val
<1>1. Made /\ Filled /\ Agree
  BY DEF IInv
<1>2. ASSUME NEW d \in FlowCtxs PROVE Grows(d)
  BY <1>1, OutputsGrow
<1>3. ASSUME NEW u \in FlowCtxs, NEW m, Writes(u, m) PROVE Values!Next
  <2>1. Values!Add(u)
    BY <1>2, <1>3, WritesValue
  <2>2. QED
    BY <2>1 DEF Values!Next
<1>4. ASSUME NEW u \in FlowCtxs, NEW i \in DOMAIN Coords, EntersOne(u, i) PROVE Values!Next
  <2>1. PICK e, around : e = [input |-> Over(Coords[i], In(u)), outputs |-> Outs(u)] /\ around = Append(ctx[u].around, Coords[i])
    OBVIOUS
  <2>2. Val' = Append(Val, e)
    <3>1. PICK i2, o2 : i2 = Over(Coords[i], In(u)) /\ o2 = Outs(u)
      OBVIOUS
    <3>2. Adds({Len(ctx) + 1}, "handler", u, around, i2, o2)
      BY <1>4, <2>1, <3>1 DEF EntersOne
    <3>3. Val' = Append(Val, [input |-> i2, outputs |-> o2])
      BY <1>1, <3>2, AppendsValue
    <3>4. QED
      BY <2>1, <3>1, <3>3
  <2>3. e = [Val[u] EXCEPT !.input = Over(Coords[i], @)]
    BY <2>1 DEF Val, Value
  <2>4. Values!Enter(u)
    BY <2>2, <2>3 DEF Values!Enter, Values!Over, Values!Keys, Over, Keys, Val, Value
  <2>5. QED
    BY <2>4 DEF Values!Next
<1>5. CASE Adds({Len(ctx) + 1, Len(ctx) + 2}, "branch", c, ctx[c].around, In(c), Outs(c))
  <2>1. TwoAfter(Val', Val, Val[c], Val[c])
    <3>1. PICK around : around = ctx[c].around
      OBVIOUS
    <3>2. QED
      BY <1>1, <1>5, <3>1, AppendsValues
  <2>2. Values!Fork(c)
    BY <2>1 DEF Values!Fork, TwoAfter, Val, Value
  <2>3. QED
    BY <2>2 DEF Values!Next
<1>6. CASE Adds({Len(ctx) + 1}, "remote", c, ctx[c].around, Json(In(c)), Json(Outs(c)))
  <2>1. Val' = Append(Val, [input |-> Json(In(c)), outputs |-> Json(Outs(c))])
    <3>1. PICK i2, o2, around : i2 = Json(In(c)) /\ o2 = Json(Outs(c)) /\ around = ctx[c].around
      OBVIOUS
    <3>2. Adds({Len(ctx) + 1}, "remote", c, around, i2, o2)
      BY <1>6, <3>1
    <3>3. Val' = Append(Val, [input |-> i2, outputs |-> o2])
      BY <1>1, <3>2, AppendsValue
    <3>4. QED
      BY <3>1, <3>3
  <2>2. Values!Send(c)
    BY <2>1 DEF Values!Send, Val, Value
  <2>3. QED
    BY <2>2 DEF Values!Next
<1>7. CASE \E i \in DOMAIN Coords : EntersOne(c, i)
  BY <1>4, <1>7
<1>8. CASE Merges(c)
  <2>1. ctx[c].up \in FlowCtxs
    BY <1>1, <1>8, UpIs DEF Merges
  <2>2. QED
    BY <1>3, <1>8, <2>1 DEF Merges
<1>9. CASE ctx[c].up \in FlowCtxs /\ (Follows(ctx[c].up, c) \/ Closes(ctx[c].up, c))
  <2>1. PICK u \in FlowCtxs : Follows(u, c) \/ Closes(u, c)
    BY <1>9
  <2>2. CASE Follows(u, c)
    BY <1>4, <2>2 DEF Follows, EntersOne
  <2>3. CASE Closes(u, c)
    BY <1>3, <2>3 DEF Closes, Puts
  <2>4. QED
    BY <2>1, <2>2, <2>3
<1>10. CASE \E u \in FlowCtxs : \E m, n : ReturnsTo(u, m, n)
  <2> PICK u \in FlowCtxs : \E m, n : ReturnsTo(u, m, n)
    BY <1>10
  <2>1. PICK m, n : ReturnsTo(u, m, n)
    OBVIOUS
  <2>2. CASE Rests
    BY <2>2 DEF Rests, Val, Value, Kept, Contents
  <2>3. CASE Puts(u, m)
    BY <1>3, <2>3 DEF Puts
  <2>4. QED
    BY <2>1, <2>2, <2>3 DEF ReturnsTo
<1>11. QED
  BY <1>5, <1>6, <1>7, <1>8, <1>9, <1>10 DEF Moves

(* FlowCtxs implement values: no map is reached from two of them, what is        *)
(* written in place is seen by no other, and no output is lost or replaced       *)
(* (flowctx.go 8-17, 155-170).                                                   *)
THEOREM Implements == Spec => ImplementsValues
<1>1. Init => Values!Init
  <2> SUFFICES ASSUME Init PROVE Values!Init
    OBVIOUS
  <2>1. PICK f : f = For([input |-> 1, outputs |-> 2], "main", 0, <<JobInput>>)
    OBVIOUS
  <2>2. heap = <<JobInput, <<>>>> /\ ctx = <<f>>
    BY <2>1 DEF Init
  <2>3. f.input = 1 /\ f.outputs = 2
    BY <2>1, ForIs
  <2>4. FlowCtxs = {1} /\ In(1) = JobInput /\ Outs(1) = <<>>
    BY <2>2, <2>3 DEF FlowCtxs, In, Outs
  <2>5. Val = <<[input |-> JobInput, outputs |-> <<>>]>>
    BY <2>4 DEF Val, Value
  <2>6. QED
    BY <2>5 DEF Values!Init, Val, Value
<1>2. IInv /\ IInv' /\ [Next]_vars => Values!Next \/ UNCHANGED Val
  <2> SUFFICES ASSUME IInv, IInv', [Next]_vars PROVE Values!Next \/ UNCHANGED Val
    OBVIOUS
  <2>1. Made /\ Filled /\ Made'
    BY DEF IInv
  <2>2. CASE Next
    <3>1. PICK c \in FlowCtxs : Moves(c)
      BY <2>1, <2>2, NextIs
    <3>2. QED
      BY <2>1, <3>1, MoveImplements
  <2>3. CASE UNCHANGED vars
    BY <2>3 DEF vars, Val, Value, FlowCtxs, In, Outs
  <2>4. QED
    BY <2>2, <2>3
<1>3. QED
  BY <1>1, <1>2, Inductive, PTL DEF Spec, ImplementsValues, Values!Spec, Val, Value

-------------------------------------------------------------------------------
(* What an execution unit reads of its coordinates.                              *)

Maps(around) == IsSeq(around) /\ \A i \in 1..Len(around) : IsMap(around[i])

(* Under a key, m has what the map at i has, or that after JSON.                 *)
Alike(m, f, k) ==
  /\ \A p \in DOMAIN m : p[1] = k => p \in DOMAIN f
  /\ \A p \in DOMAIN f : p[1] = k => p \in DOMAIN m /\ m[p] \in {f[p], Json(f)[p]}

Inner(m, around) ==
  /\ \A q \in DOMAIN m : q \in Seq(Seq(STRING)) \ {<<>>}
  /\ \A i \in 1..Len(around) : \A k : Innermost(around, k, i) => Alike(m, around[i], k)

Located == \A c \in FlowCtxs : Maps(ctx[c].around) /\ Inner(In(c), ctx[c].around)

Float(v) == IF v.type = "int" THEN [v EXCEPT !.type = "float64"] ELSE v

LEMMA JsonAt == ASSUME NEW m, NEW p \in DOMAIN m PROVE Json(m)[p] = Float(m[p])
BY DEF Json, Float

LEMMA FloatIs ==
  ASSUME NEW v \in Scalar
  PROVE  Float(v) \in Scalar /\ Float(Float(v)) = Float(v)
<1>1. Float(v).type # "int"
  BY DEF Float, Scalar
<1>2. Float(v) \in Scalar
  BY DEF Float, Scalar
<1>3. QED
  BY <1>1, <1>2 DEF Float

LEMMA ScalarAt == ASSUME NEW m, IsMap(m), NEW p \in DOMAIN m PROVE m[p] \in Scalar /\ p # <<>>
BY DEF IsMap

(* The coordinates go through JSON ...                                           *)
LEMMA InnerJson ==
  ASSUME NEW m, NEW around, Maps(around), Inner(m, around)
  PROVE  Inner(Json(m), around)
<1>1. \A q \in DOMAIN Json(m) : q \in Seq(Seq(STRING)) \ {<<>>}
  BY JsonIs DEF Inner
<1>2. ASSUME NEW i \in 1..Len(around), NEW k, Innermost(around, k, i), NEW f, f = around[i]
      PROVE  Alike(Json(m), f, k)
  <2>1. Alike(m, f, k) /\ IsMap(f)
    BY <1>2 DEF Inner, Maps
  <2>2. ASSUME NEW p \in DOMAIN f, p[1] = k
        PROVE  p \in DOMAIN Json(m) /\ Json(m)[p] \in {f[p], Json(f)[p]}
    <3>1. PICK v : v = f[p]
      OBVIOUS
    <3>2. v \in Scalar
      BY <2>1, <3>1, ScalarAt
    <3>3. p \in DOMAIN m /\ m[p] \in {f[p], Json(f)[p]}
      BY <2>1, <2>2 DEF Alike
    <3>4. Json(f)[p] = Float(v) /\ Json(m)[p] = Float(m[p])
      BY <3>1, <3>3, JsonAt
    <3>5. Float(Float(v)) = Float(v)
      BY <3>2, FloatIs
    <3>6. QED
      BY <3>1, <3>3, <3>4, <3>5, JsonIs
  <2>3. \A p \in DOMAIN Json(m) : p[1] = k => p \in DOMAIN f
    BY <2>1, JsonIs DEF Alike
  <2>4. QED
    BY <2>2, <2>3 DEF Alike
<1>3. QED
  BY <1>1, <1>2 DEF Inner

(* ... and those of a partition replace the keys they have.                      *)
LEMMA InnerOver ==
  ASSUME NEW m, NEW around, Maps(around), Inner(m, around), NEW k, IsMap(k),
         NEW w, w = Over(k, m), NEW all, all = Append(around, k)
  PROVE  Maps(all) /\ Inner(w, all)
<1>1. /\ IsSeq(all) /\ Len(all) = Len(around) + 1 /\ Len(around) \in Nat
      /\ \A i \in 1..Len(around) : all[i] = around[i]
      /\ all[Len(around) + 1] = k
  BY AppendIs DEF Maps, IsSeq
<1>2. Maps(all)
  <2>1. ASSUME NEW i \in 1..Len(all) PROVE IsMap(all[i])
    <3>1. i \in 1..Len(around) \/ i = Len(around) + 1
      BY <1>1
    <3>2. QED
      BY <1>1, <3>1 DEF Maps
  <2>2. QED
    BY <1>1, <2>1 DEF Maps
<1>3. DOMAIN all = 1..Len(all) /\ DOMAIN around = 1..Len(around)
  BY <1>1, SeqIs DEF Maps
<1>4. /\ DOMAIN w \subseteq DOMAIN k \cup DOMAIN m
      /\ \A p \in DOMAIN k : p \in DOMAIN w /\ w[p] = k[p]
      /\ \A p \in DOMAIN m : p \in DOMAIN w <=> p \in DOMAIN k \/ ~Meets(k, p)
      /\ \A p \in DOMAIN w \ DOMAIN k : p \in DOMAIN m /\ w[p] = m[p] /\ ~Meets(k, p)
  BY OverIs
<1>5. \A q \in DOMAIN w : q \in Seq(Seq(STRING)) \ {<<>>}
  BY <1>4 DEF Inner, IsMap
<1>6. ASSUME NEW i \in 1..Len(all), NEW key, Innermost(all, key, i)
      PROVE  Alike(w, all[i], key)
  <2>1. CASE i = Len(around) + 1
    <3>1. \A p \in DOMAIN w : p[1] = key => Meets(k, p)
      BY <1>1, <1>6, <2>1 DEF Innermost, Keys, Meets
    <3>2. Alike(w, k, key)
      BY <1>4, <3>1 DEF Alike
    <3>3. QED
      BY <1>1, <2>1, <3>2
  <2>2. CASE i # Len(around) + 1
    <3>1. i \in 1..Len(around) /\ all[i] = around[i]
      BY <1>1, <2>2
    <3>2. key \notin Keys(k)
      <4>1. Len(around) + 1 \in 1..Len(all) /\ Len(around) + 1 > i
        BY <1>1, <3>1
      <4>2. QED
        BY <1>1, <1>3, <1>6, <4>1 DEF Innermost
    <3>3. Innermost(around, key, i)
      <4>1. ASSUME NEW j \in 1..Len(around), j > i PROVE key \notin Keys(around[j])
        <5>1. j \in 1..Len(all) /\ all[j] = around[j]
          BY <1>1
        <5>2. QED
          BY <1>3, <1>6, <4>1, <5>1 DEF Innermost
      <4>2. key \in Keys(around[i])
        BY <1>6, <3>1 DEF Innermost
      <4>3. QED
        BY <1>3, <4>1, <4>2 DEF Innermost
    <3>4. PICK f : f = around[i]
      OBVIOUS
    <3>5. Alike(m, f, key)
      BY <3>1, <3>3, <3>4 DEF Inner
    <3>6. \A p \in DOMAIN m \cup DOMAIN k : p[1] = key => p \notin DOMAIN k /\ ~Meets(k, p)
      BY <3>2 DEF Keys, Meets
    <3>7. \A p \in DOMAIN m \cup DOMAIN w :
            p[1] = key => (p \in DOMAIN w <=> p \in DOMAIN m) /\ (p \in DOMAIN w => w[p] = m[p])
      BY <1>4, <3>6
    <3>8. Alike(w, f, key)
      BY <3>5, <3>7 DEF Alike
    <3>9. QED
      BY <3>1, <3>4, <3>8
  <2>3. QED
    BY <2>1, <2>2
<1>7. QED
  BY <1>2, <1>5, <1>6 DEF Inner

LEMMA LocatedKeeps ==
  ASSUME Made, Located, NEW c \in FlowCtxs, Moves(c)
  PROVE  Located'
<1>1. ASSUME FlowCtxs' = FlowCtxs, \A d \in FlowCtxs : Refs(ctx', d) /\ In(d)' = In(d)
      PROVE  Located'
  BY <1>1 DEF Located, Refs
<1>2. ASSUME NEW ns, NEW kind, NEW e, NEW around, NEW input, NEW outputs,
             Adds(ns, kind, e, around, input, outputs), Maps(around), Inner(input, around)
      PROVE  Located'
  <2>1. ASSUME NEW d \in FlowCtxs'
        PROVE  Maps(ctx'[d].around) /\ \E i : i = In(d)' /\ Inner(i, ctx'[d].around)
    <3>1. CASE d \in FlowCtxs
      BY <1>2, <3>1 DEF Adds, Kept, Contents, Refs, Located
    <3>2. CASE d \in ns
      BY <1>2, <3>2 DEF Adds, Contents
    <3>3. QED
      BY <1>2, <3>1, <3>2 DEF Adds
  <2>2. QED
    BY <2>1 DEF Located
<1>3. ASSUME NEW e \in FlowCtxs, NEW i \in DOMAIN Coords, EntersOne(e, i) PROVE Located'
  <2>1. PICK m, around, k, w, all :
          /\ m = In(e) /\ around = ctx[e].around /\ k = Coords[i]
          /\ w = Over(k, m) /\ all = Append(around, k)
    OBVIOUS
  <2>2. Maps(around) /\ Inner(m, around) /\ IsMap(k)
    BY <2>1, FlowCtxAssumption DEF Located
  <2>3. Maps(all) /\ Inner(w, all)
    BY <2>1, <2>2, InnerOver
  <2>4. Adds({Len(ctx) + 1}, "handler", e, all, w, Outs(e))
    BY <1>3, <2>1 DEF EntersOne
  <2>5. QED
    BY <1>2, <2>3, <2>4
<1>4. ASSUME NEW e, NEW m, Writes(e, m) PROVE Located'
  <2>1. \A d \in FlowCtxs : In(d)' = In(d)
    BY <1>4 DEF Writes, Contents, Kept
  <2>2. QED
    BY <1>1, <1>4, <2>1 DEF Writes
<1>5. CASE Adds({Len(ctx) + 1, Len(ctx) + 2}, "branch", c, ctx[c].around, In(c), Outs(c))
  BY <1>2, <1>5 DEF Located
<1>6. CASE Adds({Len(ctx) + 1}, "remote", c, ctx[c].around, Json(In(c)), Json(Outs(c)))
  <2>1. Maps(ctx[c].around) /\ Inner(Json(In(c)), ctx[c].around)
    BY InnerJson DEF Located
  <2>2. QED
    BY <1>2, <1>6, <2>1
<1>7. CASE \E i \in DOMAIN Coords : EntersOne(c, i)
  BY <1>3, <1>7
<1>8. CASE Merges(c)
  BY <1>4, <1>8 DEF Merges
<1>9. CASE ctx[c].up \in FlowCtxs /\ (Follows(ctx[c].up, c) \/ Closes(ctx[c].up, c))
  <2>1. PICK u \in FlowCtxs : Follows(u, c) \/ Closes(u, c)
    BY <1>9
  <2>2. CASE Follows(u, c)
    BY <1>3, <2>2 DEF Follows, EntersOne
  <2>3. CASE Closes(u, c)
    BY <1>4, <2>3 DEF Closes, Puts
  <2>4. QED
    BY <2>1, <2>2, <2>3
<1>10. CASE \E u \in FlowCtxs : \E m, n : ReturnsTo(u, m, n)
  <2>1. PICK u \in FlowCtxs : \E m, n : ReturnsTo(u, m, n)
    BY <1>10
  <2>2. PICK m, n : ReturnsTo(u, m, n)
    BY <2>1
  <2>3. CASE Rests
    BY <1>1, <2>3 DEF Rests, Kept, Contents
  <2>4. CASE Puts(u, m)
    BY <1>4, <2>4 DEF Puts
  <2>5. QED
    BY <2>2, <2>3, <2>4 DEF ReturnsTo
<1>11. QED
  BY <1>5, <1>6, <1>7, <1>8, <1>9, <1>10 DEF Moves

LEMMA InitLocated == Init => Located
<1> SUFFICES ASSUME Init PROVE Located
  OBVIOUS
<1>1. PICK f, around : around = <<JobInput>> /\ f = For([input |-> 1, outputs |-> 2], "main", 0, around)
  OBVIOUS
<1>2. heap = <<JobInput, <<>>>> /\ ctx = <<f>>
  BY <1>1 DEF Init
<1>3. f.input = 1 /\ f.around = around
  BY <1>1, ForIs
<1>4. FlowCtxs = {1} /\ In(1) = JobInput /\ ctx[1].around = around
  BY <1>2, <1>3 DEF FlowCtxs, In
<1>5. IsSeq(around) /\ Len(around) = 1 /\ around[1] = JobInput
  BY <1>1 DEF IsSeq
<1>6. Maps(around) /\ Inner(JobInput, around)
  BY <1>5, FlowCtxAssumption DEF Maps, Inner, Alike, IsMap
<1>7. QED
  BY <1>4, <1>6 DEF Located

LEMMA LocatedAlways == Spec => []Located
<1>1. IInv /\ Located /\ [Next]_vars => Located'
  <2> SUFFICES ASSUME IInv, Located, [Next]_vars PROVE Located'
    OBVIOUS
  <2>1. CASE Next
    <3>1. Made
      BY DEF IInv
    <3>2. PICK c \in FlowCtxs : Moves(c)
      BY <2>1, <3>1, NextIs
    <3>3. QED
      BY <3>1, <3>2, LocatedKeeps
  <2>2. CASE UNCHANGED vars
    BY <2>2 DEF vars, Located, FlowCtxs, In
  <2>3. QED
    BY <2>1, <2>2
<1>2. QED
  BY <1>1, InitLocated, Inductive, PTL DEF Spec

(* A path of keys without dots, written and read again.                          *)
LEMMA WrittenPath ==
  ASSUME NEW p, IsSeq(p), \A i \in 1..Len(p) : IsSeq(p[i]), Plain(p)
  PROVE  IsSeq(Words(p)) /\ Len(Words(p)) = Len(p) /\ Path(Words(p)) = p
<1>1. PICK n \in Nat : n = Len(p) /\ DOMAIN p = 1..n /\ p = [i \in 1..n |-> p[i]]
  BY SeqIs DEF IsSeq
<1>2. PICK w : w = [i \in 1..n |-> p[i][1]]
  OBVIOUS
<1>3. w = Words(p) /\ IsSeq(w) /\ Len(w) = n /\ DOMAIN w = 1..n
  BY <1>1, <1>2 DEF Words, IsSeq
<1>4. ASSUME NEW i \in 1..n PROVE <<p[i][1]>> = p[i]
  <2>1. PICK k : k = p[i]
    OBVIOUS
  <2>2. IsSeq(k) /\ Len(k) = 1
    BY <1>1, <2>1 DEF Plain
  <2>3. k = [j \in 1..1 |-> k[j]]
    BY <2>2 DEF IsSeq
  <2>4. k = <<k[1]>>
    BY <2>3
  <2>5. QED
    BY <2>1, <2>4
<1>5. Path(w) = [i \in 1..n |-> <<p[i][1]>>]
  BY <1>2, <1>3 DEF Path, Key
<1>6. Path(w) = p
  BY <1>1, <1>4, <1>5
<1>7. QED
  BY <1>1, <1>3, <1>6

LEMMA NamedFirst ==
  ASSUME Filled, Unhidden, NEW c \in FlowCtxs, NEW p \in DOMAIN Outs(c)
  PROVE  IsSeq(p) /\ p # <<>> /\ Head(p[1]) # "input"
<1>1. PICK j \in 1..put : p[1] = Names[j]
  BY DEF Filled, Pathed
<1>2. j \in DOMAIN Names
  BY NamesAre, FlowCtxAssumption DEF Filled
<1>3. QED
  BY <1>1, <1>2 DEF Unhidden, Filled, Pathed, IsPath

(* What a path is a prefix of begins with the same key.                          *)
LEMMA PrefixFirst ==
  ASSUME NEW p, IsSeq(p), Len(p) > 0, NEW q, IsSeq(q), p = q \/ IsStrictPrefix(p, q)
  PROVE  q[1] = p[1]
<1>1. CASE p = q
  BY <1>1
<1>2. CASE IsStrictPrefix(p, q)
  <2>1. PICK S, T : p \in Seq(S) /\ q \in Seq(T)
    BY SeqSome
  <2>2. PICK U : U = S \cup T
    OBVIOUS
  <2>3. p \in Seq(U) /\ q \in Seq(U)
    BY <2>1, <2>2
  <2>4. Len(p) <= Len(q) /\ SubSeq(p, 1, Len(p)) = SubSeq(q, 1, Len(p))
    BY <1>2, <2>3 DEF IsStrictPrefix, IsPrefix
  <2>5. SubSeq(p, 1, Len(p))[1] = p[1] /\ SubSeq(q, 1, Len(p))[1] = q[1]
    BY <2>3, <2>4
  <2>6. QED
    BY <2>4, <2>5
<1>3. QED
  BY <1>1, <1>2

(* Two maps that are alike under the first key of a path read alike.             *)
LEMMA AlikeRead ==
  ASSUME NEW m, NEW f, NEW p, IsSeq(p), Len(p) > 0, Alike(m, f, p[1]), NEW w, Path(w) = p,
         \A q \in DOMAIN m \cup DOMAIN f : IsSeq(q)
  PROVE  lookupPath(m, w) \in {lookupPath(f, w), lookupPath(Json(f), w)}
<1>1. CASE p \in DOMAIN f
  <2>1. p \in DOMAIN m /\ m[p] \in {f[p], Json(f)[p]} /\ p \in DOMAIN Json(f)
    BY <1>1, JsonIs DEF Alike
  <2>2. lookupPath(m, w) = m[p] /\ lookupPath(f, w) = f[p] /\ lookupPath(Json(f), w) = Json(f)[p]
    BY <1>1, <2>1 DEF lookupPath
  <2>3. QED
    BY <2>1, <2>2
<1>2. CASE p \notin DOMAIN f
  <2>1. p \notin DOMAIN m
    BY <1>2 DEF Alike
  <2>2. ASSUME NEW q \in DOMAIN m \cup DOMAIN f, IsStrictPrefix(p, q)
        PROVE  q \in DOMAIN m <=> q \in DOMAIN f
    <3>1. q[1] = p[1]
      BY <2>2, PrefixFirst
    <3>2. QED
      BY <3>1 DEF Alike
  <2>3. (\E q \in DOMAIN m : IsStrictPrefix(p, q)) <=> \E q \in DOMAIN f : IsStrictPrefix(p, q)
    BY <2>2
  <2>4. QED
    BY <1>2, <2>1, <2>3 DEF lookupPath
<1>3. QED
  BY <1>1, <1>2

(* An execution unit reads as input.x what the innermost partition around it     *)
(* that has the first key of x has there, else what the job's input has, and     *)
(* nothing where that one has nothing, whatever is cloned, merged, sent to       *)
(* another process and put between (phase.go 303, 594-598, flowctx.go).          *)
THEOREM CoordinatesRead == Spec => []Coordinates
<1>1. IInv /\ Located => Coordinates
  <2> SUFFICES ASSUME IInv, Located, Unhidden,
                      NEW c \in FlowCtxs, NEW i \in DOMAIN ctx[c].around,
                      NEW p \in UNION {DOMAIN ctx[c].around[j] : j \in DOMAIN ctx[c].around},
                      Plain(p), Innermost(ctx[c].around, p[1], i)
               PROVE  lookup(c, <<"input">> \o Words(p)) \in
                        {lookupPath(ctx[c].around[i], Words(p)), lookupPath(Json(ctx[c].around[i]), Words(p))}
    BY DEF Coordinates
  <2>1. PICK m, around, f, w : m = In(c) /\ around = ctx[c].around /\ f = around[i] /\ w = Words(p)
    OBVIOUS
  <2>2. Maps(around) /\ Inner(m, around) /\ DOMAIN around = 1..Len(around)
    BY <2>1, SeqIs DEF Located, Maps
  <2>3. Alike(m, f, p[1])
    BY <2>1, <2>2 DEF Inner
  <2>4. p \in Seq(Seq(STRING)) \ {<<>>}
    BY <2>1, <2>2 DEF Maps, IsMap
  <2>5. /\ IsSeq(w) /\ Len(w) = Len(p) /\ Path(w) = p
        /\ IsSeq(p) /\ Len(p) \in Nat /\ Len(p) > 0
    <3>1. IsSeq(p) /\ \A k \in 1..Len(p) : IsSeq(p[k])
      BY <2>4, InSeq
    <3>2. Len(p) \in Nat /\ Len(p) > 0
      BY <2>4
    <3>3. QED
      BY <2>1, <3>1, <3>2, WrittenPath
  <2>6. lookupPath(m, w) \in {lookupPath(f, w), lookupPath(Json(f), w)}
    <3>1. \A q \in DOMAIN m \cup DOMAIN f : IsSeq(q)
      BY <2>1, <2>2, InSeq DEF Inner, Maps, IsMap
    <3>2. QED
      BY <2>3, <2>5, <3>1, AlikeRead
  <2>7. PICK words : words = <<"input">> \o w
    OBVIOUS
  <2>8. /\ Head(words) = "input" /\ Len(words) = Len(w) + 1 /\ Tail(words) = w
        /\ IsSeq(words) /\ words[1] = "input"
    <3>1. PICK S : w \in Seq(S)
      BY <2>5, SeqSome
    <3>2. PICK T, x : T = S \cup {x} /\ x = "input"
      OBVIOUS
    <3>3. w \in Seq(T) /\ x \in T
      BY <3>1, <3>2
    <3>4. words = <<x>> \o w /\ words \in Seq(T)
      BY <2>7, <3>2, <3>3
    <3>5. IsSeq(words)
      BY <3>4, InSeq
    <3>6. QED
      BY <3>2, <3>3, <3>4, <3>5
  <2>9. ~ \E q \in DOMAIN Outs(c) : q[1] = words
    BY <2>8, NamedFirst DEF IInv
  <2>10. lookupPath(Outs(c), words) = Missing
    <3>1. PICK path : path = Path(words)
      OBVIOUS
    <3>2. IsSeq(path) /\ Len(path) > 0 /\ path[1] = Key("input")
      <4>1. PICK n \in Nat : n = Len(words) /\ n > 0 /\ DOMAIN words = 1..n
        BY <2>5, <2>8, SeqIs DEF IsSeq
      <4>2. path = [k \in 1..n |-> Key(words[k])]
        BY <3>1, <4>1 DEF Path
      <4>3. QED
        BY <2>8, <4>1, <4>2 DEF IsSeq
    <3>3. ASSUME NEW q \in DOMAIN Outs(c), path = q \/ IsStrictPrefix(path, q) PROVE FALSE
      <4>1. IsSeq(q) /\ Head(q[1]) # "input"
        BY NamedFirst DEF IInv
      <4>2. q[1] = path[1]
        BY <3>2, <3>3, <4>1, PrefixFirst
      <4>3. Head(Key("input")) = "input"
        BY DEF Key
      <4>4. QED
        BY <3>2, <4>1, <4>2, <4>3
    <3>4. QED
      BY <3>1, <3>3 DEF lookupPath
  <2>11. lookup(c, words) = lookupPath(m, w)
    <3>1. Len(words) > 1
      BY <2>5, <2>8
    <3>2. lookupPath(In(c), Tail(words)) = lookupPath(m, w)
      BY <2>1, <2>8
    <3>3. QED
      BY <2>8, <2>9, <2>10, <3>1, <3>2 DEF lookup
  <2>12. QED
    BY <2>1, <2>6, <2>7, <2>11
<1>2. QED
  BY <1>1, LocatedAlways, Inductive, PTL

-------------------------------------------------------------------------------
(* What Sum adds up.                                                             *)

Adding(f, n, F) == f = [i \in 0..n |-> IF i = 0 THEN 0 ELSE f[i - 1] + F[i]]

LEMMA AddingIs == ASSUME NEW n \in Nat, NEW F PROVE \E f : Adding(f, n, F)
<1> DEFINE S == {k \in Nat : \E f : Adding(f, k, F)}
<1>1. 0 \in S
  <2>1. PICK f : f = [i \in 0..0 |-> 0]
    OBVIOUS
  <2>2. Adding(f, 0, F)
    BY <2>1 DEF Adding
  <2>3. QED
    BY <2>2
<1>2. ASSUME NEW k \in Nat, k \in S PROVE k + 1 \in S
  <2>1. PICK f : Adding(f, k, F)
    BY <1>2
  <2>2. PICK g : g = [i \in 0..(k + 1) |-> IF i = k + 1 THEN f[k] + F[k + 1] ELSE f[i]]
    OBVIOUS
  <2>3. ASSUME NEW i \in 0..(k + 1) PROVE g[i] = IF i = 0 THEN 0 ELSE g[i - 1] + F[i]
    <3>1. CASE i = k + 1
      <4>1. i # 0 /\ i - 1 = k /\ k \in 0..(k + 1) /\ k # k + 1
        BY <3>1
      <4>2. QED
        BY <2>2, <3>1, <4>1
    <3>2. CASE i # k + 1
      <4>1. i \in 0..k /\ g[i] = f[i]
        BY <2>2, <3>2
      <4>2. i # 0 => i - 1 \in 0..k /\ g[i - 1] = f[i - 1]
        BY <2>2, <4>1
      <4>3. QED
        BY <2>1, <4>1, <4>2 DEF Adding
    <3>3. QED
      BY <3>1, <3>2
  <2>4. Adding(g, k + 1, F)
    BY <2>2, <2>3 DEF Adding
  <2>5. QED
    BY <2>4
<1>3. n \in S
  <2> HIDE DEF S
  <2>1. QED
    BY <1>1, <1>2, NatSteps
<1>4. QED
  BY <1>3

LEMMA AddingAt ==
  ASSUME NEW n \in Nat, NEW F, NEW f, Adding(f, n, F), \A i \in 1..n : F[i] \in Nat
  PROVE  /\ f[0] = 0
         /\ \A i \in 1..n : f[i] = f[i - 1] + F[i]
         /\ \A i \in 0..n : f[i] \in Nat
<1>1. f[0] = 0 /\ \A i \in 1..n : f[i] = f[i - 1] + F[i]
  BY DEF Adding
<1> DEFINE S == {k \in Nat : k <= n => f[k] \in Nat}
<1>2. 0 \in S
  BY <1>1
<1>3. ASSUME NEW k \in Nat, k \in S PROVE k + 1 \in S
  <2>1. ASSUME k + 1 <= n PROVE f[k + 1] \in Nat
    <3>1. k + 1 \in 1..n /\ f[k] \in Nat /\ k + 1 - 1 = k
      BY <1>3, <2>1
    <3>2. QED
      BY <1>1, <3>1
  <2>2. QED
    BY <2>1
<1>4. Nat \subseteq S
  <2> HIDE DEF S
  <2>1. QED
    BY <1>2, <1>3, NatSteps
<1>5. QED
  BY <1>1, <1>4

(* The numbers under p of a sequence of maps.                                    *)
Numbers(rs, p) == [i \in 1..Len(rs) |-> Field(rs[i], p)]

LEMMA SumAdds ==
  ASSUME NEW rs, IsSeq(rs), NEW p, \A i \in 1..Len(rs) : Field(rs[i], p) \in Nat
  PROVE  /\ \E f : Adding(f, Len(rs), Numbers(rs, p)) /\ Sum(rs, p) = f[Len(rs)]
         /\ Sum(rs, p) \in Nat
<1>1. PICK n, F : n = Len(rs) /\ n \in Nat /\ F = Numbers(rs, p)
  BY DEF IsSeq
<1> DEFINE Is(f) == f = [i \in 0..Len(rs) |-> IF i = 0 THEN 0 ELSE f[i - 1] + Field(rs[i], p)]
           f == CHOOSE f : Is(f)
<1>2. ASSUME NEW g PROVE Is(g) <=> Adding(g, n, F)
  <2>1. \A i \in 0..n : i # 0 => F[i] = Field(rs[i], p)
    BY <1>1 DEF Numbers
  <2>2. QED
    BY <1>1, <2>1 DEF Adding
<1>3. \E g : Adding(g, n, F)
  BY <1>1, AddingIs
<1>4. Is(f)
  <2>1. \E g : Is(g)
    BY <1>2, <1>3
  <2> HIDE DEF Is
  <2>2. QED
    BY <2>1
<1>5. Sum(rs, p) = f[n]
  BY <1>1 DEF Sum
<1>6. Adding(f, n, F)
  BY <1>2, <1>4
<1> HIDE DEF f
<1>7. f[n] \in Nat
  <2>1. \A i \in 1..n : F[i] \in Nat
    BY <1>1 DEF Numbers
  <2>2. QED
    BY <1>1, <1>6, <2>1, AddingAt
<1>8. QED
  BY <1>1, <1>5, <1>6, <1>7

AllNumbers(rs, p) == \A i \in 1..Len(rs) : Field(rs[i], p) \in Nat

LEMMA SumConcat ==
  ASSUME NEW a, IsSeq(a), NEW b, IsSeq(b), NEW p, AllNumbers(a, p), AllNumbers(b, p)
  PROVE  Sum(a \o b, p) = Sum(a, p) + Sum(b, p)
<1>0. PICK ab : ab = a \o b
  OBVIOUS
<1>1. PICK n, k : n = Len(a) /\ k = Len(b) /\ n \in Nat /\ k \in Nat
  BY DEF IsSeq
<1>2. /\ IsSeq(ab) /\ Len(ab) = n + k
      /\ \A i \in 1..n : ab[i] = a[i]
      /\ \A i \in 1..k : ab[n + i] = b[i]
  BY <1>0, <1>1, ConcatIs
<1>3. ASSUME NEW i \in 1..(n + k) PROVE Field(ab[i], p) \in Nat
  <2>1. CASE i \in 1..n
    BY <1>1, <1>2, <2>1 DEF AllNumbers
  <2>2. CASE i \notin 1..n
    <3>1. PICK j \in 1..k : i = n + j
      <4>1. i - n \in 1..k /\ i = n + (i - n)
        BY <1>1, <2>2
      <4>2. QED
        BY <4>1
    <3>2. QED
      BY <1>1, <1>2, <3>1 DEF AllNumbers
  <2>3. QED
    BY <2>1, <2>2
<1>4. PICK A, B, AB : A = Numbers(a, p) /\ B = Numbers(b, p) /\ AB = Numbers(ab, p)
  OBVIOUS
<1>5. PICK f : Adding(f, n, A) /\ Sum(a, p) = f[n]
  BY <1>1, <1>4, SumAdds DEF AllNumbers
<1>6. PICK g : Adding(g, k, B) /\ Sum(b, p) = g[k]
  BY <1>1, <1>4, SumAdds DEF AllNumbers
<1>7. PICK h : Adding(h, n + k, AB) /\ Sum(ab, p) = h[n + k]
  BY <1>2, <1>3, <1>4, SumAdds
<1>8. /\ \A i \in 1..n : A[i] \in Nat /\ AB[i] = A[i]
      /\ \A i \in 1..k : B[i] \in Nat /\ AB[n + i] = B[i]
      /\ \A i \in 1..(n + k) : AB[i] \in Nat
  <2>1. /\ \A i \in 1..n : A[i] = Field(a[i], p) /\ AB[i] = Field(ab[i], p)
        /\ \A i \in 1..k : B[i] = Field(b[i], p)
        /\ \A i \in 1..(n + k) : AB[i] = Field(ab[i], p)
    BY <1>1, <1>2, <1>4 DEF Numbers
  <2>2. \A i \in 1..k : n + i \in 1..(n + k)
    BY <1>1
  <2>3. QED
    BY <1>1, <1>2, <1>3, <2>1, <2>2 DEF AllNumbers
<1>9. /\ f[0] = 0 /\ (\A i \in 1..n : f[i] = f[i - 1] + A[i]) /\ (\A i \in 0..n : f[i] \in Nat)
  BY <1>1, <1>5, <1>8, AddingAt
<1>10. /\ g[0] = 0 /\ (\A i \in 1..k : g[i] = g[i - 1] + B[i]) /\ (\A i \in 0..k : g[i] \in Nat)
  BY <1>1, <1>6, <1>8, AddingAt
<1>11. /\ h[0] = 0 /\ (\A i \in 1..(n + k) : h[i] = h[i - 1] + AB[i]) /\ (\A i \in 0..(n + k) : h[i] \in Nat)
  <2>1. n + k \in Nat
    BY <1>1
  <2>2. QED
    BY <2>1, <1>7, <1>8, AddingAt
<1> DEFINE S == {i \in Nat : i <= n => h[i] = f[i]}
           T == {i \in Nat : i <= k => h[n + i] = f[n] + g[i]}
<1>12. n \in S
  <2>1. 0 \in S
    BY <1>9, <1>11
  <2>2. ASSUME NEW i \in Nat, i \in S PROVE i + 1 \in S
    <3>1. ASSUME i + 1 <= n PROVE h[i + 1] = f[i + 1]
      <4>1. i + 1 \in 1..n /\ i + 1 \in 1..(n + k) /\ i + 1 - 1 = i /\ h[i] = f[i]
        BY <1>1, <2>2, <3>1
      <4>2. h[i + 1] = h[i] + AB[i + 1] /\ f[i + 1] = f[i] + A[i + 1]
        BY <1>9, <1>11, <4>1
      <4>3. QED
        BY <1>8, <4>1, <4>2
    <3>2. QED
      BY <3>1
  <2> HIDE DEF S
  <2>3. QED
    BY <1>1, <2>1, <2>2, NatSteps
<1>13. k \in T
  <2>1. 0 \in T
    <3>1. h[n] = f[n] /\ n + 0 = n /\ f[n] \in Nat
      BY <1>1, <1>9, <1>12
    <3>2. h[n + 0] = f[n] + g[0]
      BY <1>10, <3>1
    <3>3. QED
      BY <3>2
  <2>2. ASSUME NEW i \in Nat, i \in T PROVE i + 1 \in T
    <3>1. ASSUME i + 1 <= k PROVE h[n + (i + 1)] = f[n] + g[i + 1]
      <4>1. i + 1 \in 1..k /\ n + (i + 1) \in 1..(n + k) /\ i + 1 - 1 = i /\ n + (i + 1) - 1 = n + i
            /\ h[n + i] = f[n] + g[i] /\ i \in 0..k /\ n \in 0..n
        BY <1>1, <2>2, <3>1
      <4>2. h[n + (i + 1)] = h[n + i] + AB[n + (i + 1)] /\ g[i + 1] = g[i] + B[i + 1]
        BY <1>10, <1>11, <4>1
      <4>3. AB[n + (i + 1)] = B[i + 1] /\ B[i + 1] \in Nat /\ g[i] \in Nat /\ f[n] \in Nat
        BY <1>8, <1>9, <1>10, <4>1
      <4>4. QED
        BY <4>1, <4>2, <4>3
    <3>2. QED
      BY <3>1
  <2> HIDE DEF T
  <2>3. QED
    BY <1>1, <2>1, <2>2, NatSteps
<1>14. h[n + k] = f[n] + g[k]
  BY <1>13
<1>15. QED
  BY <1>0, <1>5, <1>6, <1>7, <1>14

LEMMA SumNone == Sum(<<>>, Processed) = 0
<1>1. PICK rs : rs = <<>>
  OBVIOUS
<1>2. IsSeq(rs) /\ Len(rs) = 0
  BY <1>1 DEF IsSeq
<1>3. PICK f : Adding(f, 0, Numbers(rs, Processed)) /\ Sum(rs, Processed) = f[0]
  <2>1. \A i \in 1..Len(rs) : Field(rs[i], Processed) \in Nat
    BY <1>2
  <2>2. \E f : Adding(f, Len(rs), Numbers(rs, Processed)) /\ Sum(rs, Processed) = f[Len(rs)]
    BY <1>2, <2>1, SumAdds
  <2>3. QED
    BY <1>2, <2>2
<1>4. f[0] = 0
  BY <1>3 DEF Adding
<1>5. QED
  BY <1>1, <1>3, <1>4

LEMMA SumOne ==
  ASSUME NEW m, Field(m, Processed) \in Nat, NEW rs, rs = <<m>>
  PROVE  Sum(rs, Processed) = Field(m, Processed)
<1>1. IsSeq(rs) /\ Len(rs) = 1 /\ rs[1] = m
  BY DEF IsSeq
<1>2. PICK F : F = Numbers(rs, Processed)
  OBVIOUS
<1>3. F[1] = Field(m, Processed)
  BY <1>1, <1>2 DEF Numbers
<1>4. PICK f : Adding(f, 1, F) /\ Sum(rs, Processed) = f[1]
  <2>1. \A i \in 1..Len(rs) : Field(rs[i], Processed) \in Nat
    BY <1>1
  <2>2. \E f : Adding(f, Len(rs), F) /\ Sum(rs, Processed) = f[Len(rs)]
    BY <1>1, <1>2, <2>1, SumAdds
  <2>3. QED
    BY <1>1, <2>2
<1>5. f[0] = 0 /\ f[1] = f[0] + F[1]
  <2>1. \A i \in 1..1 : F[i] \in Nat
    BY <1>3
  <2>2. f[0] = 0 /\ \A i \in 1..1 : f[i] = f[i - 1] + F[i]
    BY <1>4, <2>1, AddingAt
  <2>3. 1 \in 1..1 /\ 1 - 1 = 0
    OBVIOUS
  <2>4. QED
    BY <2>2, <2>3
<1>6. QED
  BY <1>3, <1>4, <1>5

-------------------------------------------------------------------------------
(* What the outputs say was processed.                                           *)

Keyed(p) == IsSeq(p) /\ Len(p) > 0 /\ \A i \in 1..Len(p) : IsSeq(p[i])
Typed(v) == DOMAIN v = {"type", "n"} /\ v.n \in Nat
Numbered(m) == \A p \in DOMAIN m : Keyed(p) /\ Typed(m[p])

(* The number under the name of a shard is that of its items.                    *)
Owed(p, v, its) ==
  p[Len(p)] = Key("processed") /\ p[Len(p) - 1] \in DOMAIN its => asIntAny(v) = its[p[Len(p) - 1]]
Within(p, k) == Len(p) > 1 /\ \E j \in 1..k : p[Len(p) - 1] = Names[j]

Tallied(m, its, k) == Numbered(m) /\ \A p \in DOMAIN m : Within(p, k) /\ Owed(p, m[p], its)

(* What may be put under a name.                                                 *)
Answer(m, name, its, k) ==
  /\ Numbered(m)
  /\ \A q \in DOMAIN m :
       \/ Len(q) = 1 /\ (q[1] = Key("processed") /\ name \in DOMAIN its => asIntAny(m[q]) = its[name])
       \/ Within(q, k) /\ Owed(q, m[q], its)

(* The results of partitions add up to the items they processed.                 *)
AddsUp(c) ==
  /\ \A i \in 1..Len(ctx[c].results) : Numbered(ctx[c].results[i])
  /\ Sum(ctx[c].results, Processed) = ctx[c].items

Tally ==
  /\ \A k \in DOMAIN items : \E j \in 1..put : k = Names[j]
  /\ \A c \in FlowCtxs : Tallied(Outs(c), items, put) /\ AddsUp(c)

LEMMA FloatTyped ==
  ASSUME NEW v, Typed(v)
  PROVE  Typed(Float(v)) /\ asIntAny(Float(v)) = asIntAny(v) /\ asIntAny(v) \in Nat
<1>1. CASE v.type = "int"
  <2>1. PICK w : w = [v EXCEPT !.type = "float64"]
    OBVIOUS
  <2>2. DOMAIN w = {"type", "n"} /\ w.type = "float64" /\ w.n = v.n
    BY <2>1 DEF Typed
  <2>3. Float(v) = w
    BY <1>1, <2>1 DEF Float
  <2>4. QED
    BY <1>1, <2>2, <2>3 DEF Typed, asIntAny
<1>2. CASE v.type # "int"
  BY <1>2 DEF Float, Typed, asIntAny
<1>3. QED
  BY <1>1, <1>2

LEMMA FieldIs ==
  ASSUME NEW m, Numbered(m), NEW p
  PROVE  Field(m, p) \in Nat
<1>1. CASE p \in DOMAIN m
  BY <1>1, FloatTyped DEF Numbered, Field
<1>2. CASE p \notin DOMAIN m
  BY <1>2 DEF Field
<1>3. QED
  BY <1>1, <1>2

LEMMA TalliedJson ==
  ASSUME NEW m, NEW its, NEW k, Tallied(m, its, k)
  PROVE  Tallied(Json(m), its, k)
<1>1. ASSUME NEW p \in DOMAIN m
      PROVE  Keyed(p) /\ Typed(Json(m)[p]) /\ Within(p, k) /\ Owed(p, Json(m)[p], its)
  <2>1. Keyed(p) /\ Typed(m[p]) /\ Within(p, k) /\ Owed(p, m[p], its)
    BY DEF Tallied, Numbered
  <2>2. PICK v : v = m[p]
    OBVIOUS
  <2>3. Json(m)[p] = Float(v) /\ Typed(Float(v)) /\ asIntAny(Float(v)) = asIntAny(v)
    BY <2>1, <2>2, JsonAt, FloatTyped
  <2>4. QED
    BY <2>1, <2>2, <2>3 DEF Owed
<1>2. DOMAIN Json(m) = DOMAIN m
  BY JsonIs
<1>3. QED
  BY <1>1, <1>2 DEF Tallied, Numbered

LEMMA TalliedOver ==
  ASSUME NEW f, NEW g, NEW its, NEW k, Tallied(f, its, k), Tallied(g, its, k), NEW w, w = Over(f, g)
  PROVE  Tallied(w, its, k)
<1>1. /\ \A p \in DOMAIN f : w[p] = f[p]
      /\ \A p \in DOMAIN w \ DOMAIN f : p \in DOMAIN g /\ w[p] = g[p]
  BY OverIs
<1>2. ASSUME NEW p \in DOMAIN w
      PROVE  Keyed(p) /\ Typed(w[p]) /\ Within(p, k) /\ Owed(p, w[p], its)
  <2>1. CASE p \in DOMAIN f
    BY <1>1, <2>1 DEF Tallied, Numbered
  <2>2. CASE p \notin DOMAIN f
    BY <1>1, <2>2 DEF Tallied, Numbered
  <2>3. QED
    BY <2>1, <2>2
<1>3. QED
  BY <1>2 DEF Tallied, Numbered

(* The items of one more name.                                                   *)
OneMoreName(its2, its, name) ==
  /\ DOMAIN its2 \subseteq DOMAIN its \cup {name} /\ DOMAIN its \subseteq DOMAIN its2
  /\ \A k \in DOMAIN its \ {name} : its2[k] = its[k]

LEMMA TalliedLater ==
  ASSUME NEW m, NEW its, NEW k \in Nat, k < Len(Names), Tallied(m, its, k),
         NEW its2, OneMoreName(its2, its, Names[k + 1])
  PROVE  Tallied(m, its2, k + 1)
<1>1. ASSUME NEW p \in DOMAIN m PROVE Within(p, k + 1) /\ Owed(p, m[p], its2)
  <2>1. Within(p, k) /\ Owed(p, m[p], its)
    BY DEF Tallied
  <2>2. PICK j \in 1..k : p[Len(p) - 1] = Names[j]
    BY <2>1 DEF Within
  <2>3. j \in 1..(k + 1) /\ j \in 1..Len(Names) /\ k + 1 \in 1..Len(Names) /\ j # k + 1
    BY NamesAre
  <2>4. Names[j] # Names[k + 1]
    BY <2>3, NamesAre
  <2>5. Owed(p, m[p], its2)
    BY <2>1, <2>2, <2>4 DEF Owed, OneMoreName
  <2>6. QED
    BY <2>1, <2>2, <2>3, <2>5 DEF Within
<1>2. QED
  BY <1>1 DEF Tallied

LEMMA TalliedUnder ==
  ASSUME NEW m, NEW its, NEW k \in Nat, k < Len(Names), Answer(m, Names[k + 1], its, k),
         NEW u, u = Under(Names[k + 1], m)
  PROVE  Tallied(u, its, k + 1)
<1>1. PICK name : name = Names[k + 1]
  OBVIOUS
<1>2. \A q \in DOMAIN m : IsPath(q)
  BY DEF Answer, Numbered, Keyed, IsPath
<1>3. \A p \in DOMAIN u : /\ IsPath(p) /\ Tail(p) \in DOMAIN m /\ p = <<name>> \o Tail(p)
                          /\ u[p] = m[Tail(p)]
  BY <1>1, <1>2, UnderIs
<1>4. ASSUME NEW p \in DOMAIN u
      PROVE  Keyed(p) /\ Typed(u[p]) /\ Within(p, k + 1) /\ Owed(p, u[p], its)
  <2>1. PICK q \in DOMAIN m : q = Tail(p) /\ p = <<name>> \o q /\ u[p] = m[q]
    BY <1>3
  <2>2. Keyed(q) /\ Typed(m[q])
    BY DEF Answer, Numbered
  <2>3. PICK l \in Nat : l = Len(q) /\ l > 0
    BY <2>2 DEF Keyed, IsSeq
  <2>4. IsSeq(p) /\ Len(p) = l + 1 /\ p[1] = name /\ \A i \in 1..l : p[i + 1] = q[i]
    <3>1. PICK n1 : n1 = <<name>>
      OBVIOUS
    <3>2. IsSeq(n1) /\ Len(n1) = 1 /\ n1[1] = name
      BY <3>1 DEF IsSeq
    <3>3. IsSeq(q) /\ p = n1 \o q
      BY <2>1, <2>2, <3>1 DEF Keyed
    <3>4. IsSeq(p) /\ Len(p) = Len(n1) + Len(q)
      BY <3>2, <3>3, ConcatIs
    <3>5. \A i \in 1..Len(n1) : p[i] = n1[i]
      BY <3>2, <3>3, ConcatIs
    <3>8. \A i \in 1..Len(q) : p[Len(n1) + i] = q[i]
      <4>1. IsSeq(n1) /\ IsSeq(q)
        BY <3>2, <3>3
      <4>2. \A i \in 1..Len(q) : (n1 \o q)[Len(n1) + i] = q[i]
        BY <4>1, ConcatIs
      <4>3. QED
        BY <3>3, <4>2
    <3>6. 1 \in 1..1 /\ \A i \in 1..l : 1 + i = i + 1
      OBVIOUS
    <3>7. QED
      BY <2>3, <3>2, <3>4, <3>5, <3>6, <3>8
  <2>5. k + 1 \in 1..(k + 1) /\ k + 1 \in 1..Len(Names)
    BY NamesAre
  <2>6. Keyed(p)
    <3>1. IsSeq(name)
      BY <1>1, <2>5, InSeq, FlowCtxAssumption
    <3>2. ASSUME NEW i \in 1..(l + 1) PROVE IsSeq(p[i])
      <4>1. CASE i = 1
        BY <2>4, <3>1, <4>1
      <4>2. CASE i # 1
        <5>1. i - 1 \in 1..l /\ (i - 1) + 1 = i
          BY <4>2
        <5>2. QED
          BY <2>2, <2>3, <2>4, <5>1 DEF Keyed
      <4>3. QED
        BY <4>1, <4>2
    <3>3. QED
      BY <2>3, <2>4, <3>2 DEF Keyed
  <2>7. p[Len(p)] = q[l]
    BY <2>3, <2>4
  <2>8. CASE l = 1
    <3>1. Len(p) = 2 /\ p[Len(p) - 1] = name /\ p[Len(p)] = q[1]
      BY <2>4, <2>7, <2>8
    <3>2. q[1] = Key("processed") /\ name \in DOMAIN its => asIntAny(m[q]) = its[name]
      <4>1. ~ Within(q, k)
        BY <2>3, <2>8 DEF Within
      <4>2. QED
        BY <1>1, <4>1 DEF Answer
    <3>3. Within(p, k + 1)
      <4>1. p[Len(p) - 1] = Names[k + 1] /\ Len(p) > 1
        BY <1>1, <3>1
      <4>2. QED
        BY <2>5, <4>1 DEF Within
    <3>4. Owed(p, u[p], its)
      BY <2>1, <3>1, <3>2 DEF Owed
    <3>5. QED
      BY <2>1, <2>2, <2>6, <3>3, <3>4
  <2>9. CASE l # 1
    <3>1. Within(q, k) /\ Owed(q, m[q], its)
      BY <2>3, <2>9 DEF Answer
    <3>2. p[Len(p) - 1] = q[Len(q) - 1] /\ p[Len(p)] = q[Len(q)]
      <4>1. l - 1 \in 1..l /\ (l - 1) + 1 = l /\ Len(p) - 1 = l
        BY <2>3, <2>4, <2>9
      <4>2. QED
        BY <2>3, <2>4, <2>7, <4>1
    <3>3. Len(p) > 1 /\ 1..k \subseteq 1..(k + 1)
      BY <2>3, <2>4
    <3>4. Within(p, k + 1)
      BY <3>1, <3>2, <3>3 DEF Within
    <3>5. Owed(p, u[p], its)
      BY <2>1, <3>1, <3>2 DEF Owed
    <3>6. QED
      BY <2>1, <2>2, <2>6, <3>4, <3>5
  <2>10. QED
    BY <2>8, <2>9
<1>5. QED
  BY <1>4 DEF Tallied, Numbered

(* The answers: that of an activity, of a flow, of a shard.                      *)
LEMMA WordKeys == Keyed(Processed) /\ Keyed(Skipped) /\ Len(Processed) = 1 /\ Len(Skipped) = 1 /\ Processed[1] = Key("processed")
BY DEF Keyed, IsSeq, Processed, Skipped, Key

LEMMA ActivityAnswer ==
  ASSUME NEW n \in Nat, NEW m, m = [p \in {Processed} |-> [type |-> "float64", n |-> n]]
  PROVE  /\ Numbered(m) /\ Field(m, Processed) = n
         /\ \A name, its, k : name \notin DOMAIN its => Answer(m, name, its, k)
<1>1. PICK v : v = [type |-> "float64", n |-> n]
  OBVIOUS
<1>2. DOMAIN v = {"type", "n"} /\ v.n = n /\ v.type = "float64"
  BY <1>1
<1>3. DOMAIN m = {Processed} /\ m[Processed] = v
  BY <1>1
<1>4. Numbered(m)
  BY <1>2, <1>3, WordKeys DEF Numbered, Typed
<1>5. Field(m, Processed) = n
  BY <1>2, <1>3 DEF Field, asIntAny
<1>6. QED
  BY <1>3, <1>4, <1>5, WordKeys DEF Answer

LEMMA FlowAnswer ==
  ASSUME NEW m, NEW its, NEW k, Tallied(m, its, k)
  PROVE  Numbered(m) /\ Field(m, Processed) = 0 /\ \A name : Answer(m, name, its, k)
<1>1. Processed \notin DOMAIN m
  <2>1. ASSUME Processed \in DOMAIN m PROVE FALSE
    <3>1. Within(Processed, k)
      BY <2>1 DEF Tallied
    <3>2. Len(Processed) > 1
      BY <3>1 DEF Within
    <3>3. QED
      BY <3>2, WordKeys
  <2>2. QED
    BY <2>1
<1>2. QED
  BY <1>1 DEF Tallied, Answer, Field

LEMMA ShardAnswer ==
  ASSUME NEW rs, IsSeq(rs), \A i \in 1..Len(rs) : Numbered(rs[i]),
         NEW n, n = Sum(rs, Processed), NEW m, m = aggregateShardResults(rs)
  PROVE  \A name, its, k : its[name] = n => Answer(m, name, its, k)
<1>1. ASSUME NEW q \in DOMAIN m PROVE Keyed(q) /\ Len(q) = 1
  <2>1. q \in {Processed, Skipped} \/ (Len(q) = 1 /\ \E i \in DOMAIN rs : q \in DOMAIN rs[i])
    BY DEF aggregateShardResults
  <2>2. CASE q \in {Processed, Skipped}
    BY <2>2, WordKeys
  <2>3. CASE Len(q) = 1 /\ \E i \in DOMAIN rs : q \in DOMAIN rs[i]
    BY <2>3, SeqIs DEF Numbered
  <2>4. QED
    BY <2>1, <2>2, <2>3
<1>2. ASSUME NEW q \in DOMAIN m PROVE Typed(m[q]) /\ asIntAny(m[q]) = Sum(rs, q)
  <2>1. PICK s, v : s = Sum(rs, q) /\ v = [type |-> "int", n |-> s]
    OBVIOUS
  <2>2. m[q] = v
    BY <2>1 DEF aggregateShardResults
  <2>3. s \in Nat
    <3>1. \A i \in 1..Len(rs) : Field(rs[i], q) \in Nat
      BY FieldIs
    <3>2. QED
      BY <2>1, <3>1, SumAdds
  <2>4. DOMAIN v = {"type", "n"} /\ v.n = s /\ v.type = "int"
    BY <2>1
  <2>5. QED
    BY <2>1, <2>2, <2>3, <2>4 DEF Typed, asIntAny
<1>3. ASSUME NEW q \in DOMAIN m, q[1] = Key("processed") PROVE asIntAny(m[q]) = n
  <2>1. q = Processed
    <3>1. IsSeq(q) /\ Len(q) = 1
      BY <1>1 DEF Keyed
    <3>2. q = [i \in 1..1 |-> q[i]]
      BY <3>1 DEF IsSeq
    <3>3. q = <<q[1]>>
      BY <3>2
    <3>4. QED
      BY <1>3, <3>3 DEF Processed
  <2>2. QED
    BY <1>2, <2>1
<1>4. QED
  BY <1>1, <1>2, <1>3 DEF Answer, Numbered

LEMMA GatheredAddUp ==
  ASSUME Made, Tally, NEW c \in FlowCtxs, NEW h \in FlowCtxs,
         NEW rs, rs = Gathered(c, h), NEW n, n = Summed(c, h)
  PROVE  IsSeq(rs) /\ (\A i \in 1..Len(rs) : Numbered(rs[i])) /\ Sum(rs, Processed) = n
<1>1. PICK a, b : a = ctx[c].results /\ b = ctx[h].results
  OBVIOUS
<1>2. IsSeq(a) /\ IsSeq(b)
  BY <1>1 DEF Made, Counted
<1>3. rs = a \o b
  BY <1>1 DEF Gathered
<1>4. /\ \A i \in 1..Len(a) : Numbered(a[i])
      /\ \A i \in 1..Len(b) : Numbered(b[i])
      /\ Sum(a, Processed) = ctx[c].items /\ Sum(b, Processed) = ctx[h].items
  BY <1>1 DEF Tally, AddsUp
<1>5. AllNumbers(a, Processed) /\ AllNumbers(b, Processed)
  BY <1>4, FieldIs DEF AllNumbers
<1>6. Sum(rs, Processed) = Sum(a, Processed) + Sum(b, Processed)
  BY <1>2, <1>3, <1>5, SumConcat
<1>7. IsSeq(a \o b)
  BY <1>2, ConcatIs
<1>8. Len(a \o b) = Len(a) + Len(b)
  BY <1>2, ConcatIs
<1>9. (\A i \in 1..Len(a) : (a \o b)[i] = a[i]) /\ \A i \in 1..Len(b) : (a \o b)[Len(a) + i] = b[i]
  BY <1>2, ConcatIs
<1>10. ASSUME NEW i \in 1..Len(rs) PROVE Numbered(rs[i])
  <2>1. CASE i \in 1..Len(a)
    BY <2>1, <1>3, <1>4, <1>9
  <2>2. CASE i \notin 1..Len(a)
    <3>1. i - Len(a) \in 1..Len(b) /\ i = Len(a) + (i - Len(a))
      BY <2>2, <1>2, <1>3, <1>8 DEF IsSeq
    <3>2. PICK j \in 1..Len(b) : i = Len(a) + j
      BY <3>1
    <3>3. QED
      BY <3>2, <1>3, <1>4, <1>9
  <2>3. QED
    BY <2>1, <2>2
<1>11. QED
  BY <1>3, <1>4, <1>6, <1>7, <1>10 DEF Summed

LEMMA AddsUpKeeps ==
  ASSUME Made, Filled, Tally, NEW c \in FlowCtxs, Moves(c)
  PROVE  \A d \in FlowCtxs' : AddsUp(d)'
<1>1. \A d \in FlowCtxs : AddsUp(d) /\ IsSeq(ctx[d].results)
  BY DEF Tally, Made, Counted
<1>2. ASSUME Unheld, NEW d \in FlowCtxs PROVE AddsUp(d)'
  BY <1>1, <1>2 DEF Unheld, AddsUp
<1>3. ASSUME NEW e, NEW rs, NEW n, Hold(e, rs, n), \A i \in 1..Len(rs) : Numbered(rs[i]),
             Sum(rs, Processed) = n, NEW d \in FlowCtxs
      PROVE  AddsUp(d)'
  BY <1>1, <1>3 DEF Hold, AddsUp
<1>4. ASSUME NEW ns, NEW kind, NEW e, NEW around, NEW input, NEW outputs,
             Adds(ns, kind, e, around, input, outputs), NEW d \in FlowCtxs', d \notin FlowCtxs
      PROVE  AddsUp(d)'
  <2>1. ctx'[d].results = <<>> /\ ctx'[d].items = 0
    BY <1>4 DEF Adds
  <2>2. QED
    BY <2>1, SumNone DEF AddsUp
<1>5. CASE /\ \/ Adds({Len(ctx) + 1, Len(ctx) + 2}, "branch", c, ctx[c].around, In(c), Outs(c))
              \/ Adds({Len(ctx) + 1}, "remote", c, ctx[c].around, Json(In(c)), Json(Outs(c)))
              \/ (\E i \in DOMAIN Coords : EntersOne(c, i))
           /\ Unheld
  BY <1>2, <1>4, <1>5 DEF EntersOne
<1>6. CASE Merges(c) /\ Unheld
  BY <1>2, <1>6 DEF Merges, Writes
<1>7. CASE ctx[c].up \in FlowCtxs /\ Follows(ctx[c].up, c)
  <2>1. PICK u, rs, n : u = ctx[c].up /\ rs = Gathered(u, c) /\ n = Summed(u, c)
    OBVIOUS
  <2>2. (\A i \in 1..Len(rs) : Numbered(rs[i])) /\ Sum(rs, Processed) = n
    BY <1>7, <2>1, GatheredAddUp
  <2>3. Hold(u, rs, n)
    BY <1>7, <2>1 DEF Follows
  <2>4. \A d \in FlowCtxs : AddsUp(d)'
    BY <1>3, <2>2, <2>3
  <2>5. QED
    BY <1>4, <1>7, <2>4 DEF Follows
<1>8. CASE ctx[c].up \in FlowCtxs /\ Closes(ctx[c].up, c)
  <2>1. PICK rs : rs = <<>>
    OBVIOUS
  <2>2. Hold(ctx[c].up, rs, 0) /\ (\A i \in 1..Len(rs) : Numbered(rs[i])) /\ Sum(rs, Processed) = 0
    BY <1>8, <2>1, SumNone DEF Closes
  <2>3. \A d \in FlowCtxs : AddsUp(d)'
    BY <1>3, <2>2
  <2>4. QED
    BY <1>8, <2>3 DEF Closes, Puts, Writes
<1>9. ASSUME NEW m, NEW n, ReturnsTo(ctx[c].up, m, n), Numbered(m), Field(m, Processed) = n, n \in Nat
      PROVE  \A d \in FlowCtxs' : AddsUp(d)'
  <2>1. CASE Rests /\ Hold(ctx[c].up, <<m>>, n)
    <3>1. PICK rs : rs = <<m>>
      OBVIOUS
    <3>2. Hold(ctx[c].up, rs, n) /\ \A i \in 1..Len(rs) : Numbered(rs[i])
      BY <1>9, <2>1, <3>1
    <3>3. Sum(rs, Processed) = n
      BY <1>9, <3>1, SumOne
    <3>4. \A d \in FlowCtxs : AddsUp(d)'
      BY <1>3, <3>2, <3>3
    <3>5. QED
      BY <2>1, <3>4 DEF Rests
  <2>2. CASE Puts(ctx[c].up, m) /\ Unheld
    BY <1>2, <2>2 DEF Puts, Writes
  <2>3. QED
    BY <1>9, <2>1, <2>2 DEF ReturnsTo
<1>10. CASE \E n \in Items : ReturnsTo(ctx[c].up, [p \in {Processed} |-> [type |-> "float64", n |-> n]], n)
  <2>1. PICK n \in Items : ReturnsTo(ctx[c].up, [p \in {Processed} |-> [type |-> "float64", n |-> n]], n)
    BY <1>10
  <2>2. PICK m : m = [p \in {Processed} |-> [type |-> "float64", n |-> n]]
    OBVIOUS
  <2>3. n \in Nat
    BY FlowCtxAssumption
  <2>4. Numbered(m) /\ Field(m, Processed) = n
    BY <2>2, <2>3, ActivityAnswer
  <2>5. QED
    BY <1>9, <2>1, <2>2, <2>3, <2>4
<1>11. CASE ReturnsTo(ctx[c].up, Json(Outs(c)), 0)
  <2>1. PICK m : m = Json(Outs(c))
    OBVIOUS
  <2>2. Tallied(m, items, put)
    BY <2>1, TalliedJson DEF Tally
  <2>3. Numbered(m) /\ Field(m, Processed) = 0
    BY <2>2, FlowAnswer
  <2>4. QED
    BY <1>9, <1>11, <2>1, <2>3
<1>12. QED
  BY <1>5, <1>6, <1>7, <1>8, <1>10, <1>11 DEF Moves

(* What is put, and under which number of items.                                 *)
LEMMA PutTallied ==
  ASSUME Filled, Tally, NEW e \in FlowCtxs, NEW m, Puts(e, m),
         OneMoreName(items', items, NextName), Answer(m, NextName, items', put)
  PROVE  /\ \A k \in DOMAIN items' : \E j \in 1..put' : k = Names[j]
         /\ \A d \in FlowCtxs' : Tallied(Outs(d), items, put)'
<1>1. PICK k, its, its2, name : k = put /\ its = items /\ its2 = items' /\ name = NextName
  OBVIOUS
<1>2. k \in Nat /\ k < Len(Names) /\ put' = k + 1 /\ name = Names[k + 1] /\ FlowCtxs' = FlowCtxs
  BY <1>1 DEF Filled, Puts, Writes, NextName
<1>3. /\ OneMoreName(its2, its, Names[k + 1]) /\ Answer(m, Names[k + 1], its2, k)
      /\ \A d \in FlowCtxs : Tallied(Outs(d), its, k)
  BY <1>1, <1>2 DEF Tally
<1>4. \A x \in DOMAIN its2 : \E j \in 1..(k + 1) : x = Names[j]
  <2>1. \A x \in DOMAIN its : \E j \in 1..k : x = Names[j]
    BY <1>1 DEF Tally
  <2>2. 1..k \subseteq 1..(k + 1) /\ k + 1 \in 1..(k + 1)
    BY <1>2
  <2>3. QED
    BY <1>3, <2>1, <2>2 DEF OneMoreName
<1>5. \A d \in FlowCtxs : Tallied(Outs(d), its2, k + 1)
  BY <1>2, <1>3, TalliedLater
<1>6. PICK u, o, w : u = Under(Names[k + 1], m) /\ o = Outs(e) /\ w = Over(u, o)
  OBVIOUS
<1>7. Tallied(u, its2, k + 1)
  BY <1>2, <1>3, <1>6, TalliedUnder
<1>8. Tallied(w, its2, k + 1)
  BY <1>5, <1>6, <1>7, TalliedOver
<1>9. Outs(e)' = w /\ \A d \in FlowCtxs \ {e} : Outs(d)' = Outs(d)
  BY <1>1, <1>2, <1>6 DEF Puts, Writes, Contents, Kept
<1>10. ASSUME NEW d \in FlowCtxs PROVE Tallied(Outs(d), items, put)'
  BY <1>1, <1>2, <1>5, <1>8, <1>9
<1>11. QED
  BY <1>1, <1>2, <1>4, <1>10

LEMMA TallyKeeps ==
  ASSUME Made, Filled, Tally, NEW c \in FlowCtxs, Moves(c)
  PROVE  Tally'
<1>1. \A d \in FlowCtxs' : AddsUp(d)'
  BY AddsUpKeeps
<1> DEFINE Goal == /\ \A k \in DOMAIN items' : \E j \in 1..put' : k = Names[j]
                  /\ \A d \in FlowCtxs' : Tallied(Outs(d), items, put)'
<1>2. SUFFICES Goal
  BY <1>1 DEF Tally
<1>3. \A d \in FlowCtxs : Tallied(Outs(d), items, put)
  BY DEF Tally
<1>4. put \in Nat /\ \A k \in DOMAIN items : \E j \in 1..put : k = Names[j]
  BY DEF Tally, Filled
<1>5. ASSUME UNCHANGED <<put, items>>, NEW ns, FlowCtxs' = FlowCtxs \cup ns,
             NEW o, Tallied(o, items, put), \A d \in FlowCtxs' : Outs(d)' = o \/ (d \in FlowCtxs /\ Outs(d)' = Outs(d))
      PROVE  Goal
  <2>1. ASSUME NEW d \in FlowCtxs' PROVE Tallied(Outs(d), items, put)'
    <3>1. \E x : x = Outs(d)' /\ Tallied(x, items, put)
      BY <1>3, <1>5
    <3>2. QED
      BY <1>5, <3>1
  <2>2. QED
    BY <1>4, <1>5, <2>1
<1>6. ASSUME NEW ns, NEW kind, NEW e, NEW around, NEW input, NEW outputs,
             Adds(ns, kind, e, around, input, outputs), Tallied(outputs, items, put)
      PROVE  Goal
  <2>1. \A d \in FlowCtxs' : Outs(d)' = outputs \/ (d \in FlowCtxs /\ Outs(d)' = Outs(d))
    BY <1>6 DEF Adds, Kept, Contents
  <2>2. QED
    BY <1>5, <1>6, <2>1 DEF Adds
<1>7. OneMoreName(items, items, NextName)
  BY DEF OneMoreName
<1>8. ASSUME put < Len(Names) PROVE NextName \notin DOMAIN items
  <2>1. put + 1 \in 1..Len(Names) /\ \A j \in 1..put : j \in 1..Len(Names) /\ j # put + 1
    BY <1>4, <1>8, NamesAre
  <2>2. QED
    BY <1>4, <2>1, NamesAre DEF NextName
<1>9. CASE Adds({Len(ctx) + 1, Len(ctx) + 2}, "branch", c, ctx[c].around, In(c), Outs(c))
  BY <1>3, <1>6, <1>9
<1>10. CASE Adds({Len(ctx) + 1}, "remote", c, ctx[c].around, Json(In(c)), Json(Outs(c)))
  <2>1. Tallied(Json(Outs(c)), items, put)
    BY <1>3, TalliedJson
  <2>2. QED
    BY <1>6, <1>10, <2>1
<1>11. CASE \E i \in DOMAIN Coords : EntersOne(c, i)
  BY <1>3, <1>6, <1>11 DEF EntersOne
<1>12. CASE Merges(c)
  <2>1. PICK u, f, g, w : u = ctx[c].up /\ f = Outs(c) /\ g = Outs(u) /\ w = Over(f, g)
    OBVIOUS
  <2>2. Writes(u, w) /\ UNCHANGED <<put, items>> /\ u \in FlowCtxs
    BY <1>12, <2>1, UpIs DEF Merges
  <2>3. Tallied(w, items, put)
    BY <1>3, <2>1, <2>2, TalliedOver
  <2>4. FlowCtxs' = FlowCtxs \cup {} /\ \A d \in FlowCtxs' : Outs(d)' = w \/ (d \in FlowCtxs /\ Outs(d)' = Outs(d))
    BY <2>2 DEF Writes, Contents, Kept
  <2>5. QED
    BY <1>5, <2>2, <2>3, <2>4
<1>13. CASE ctx[c].up \in FlowCtxs /\ Follows(ctx[c].up, c)
  BY <1>3, <1>6, <1>13 DEF Follows
<1>14. CASE ctx[c].up \in FlowCtxs /\ Closes(ctx[c].up, c)
  <2>1. PICK u, rs, n, m : /\ u = ctx[c].up /\ rs = Gathered(u, c) /\ n = Summed(u, c)
                           /\ m = aggregateShardResults(rs)
    OBVIOUS
  <2>2. IsSeq(rs) /\ (\A i \in 1..Len(rs) : Numbered(rs[i])) /\ n = Sum(rs, Processed)
    BY <1>14, <2>1, GatheredAddUp
  <2>3. Puts(u, m) /\ items' = Noted(NextName, n) /\ u \in FlowCtxs
    BY <1>14, <2>1 DEF Closes
  <2>4. OneMoreName(items', items, NextName) /\ items'[NextName] = n
    <3>1. PICK its, its2, name : /\ its = items /\ name = NextName
                                 /\ its2 = [k \in DOMAIN its \cup {name} |-> IF k = name THEN n ELSE its[k]]
      OBVIOUS
    <3>2. OneMoreName(its2, its, name) /\ its2[name] = n
      BY <3>1 DEF OneMoreName
    <3>3. its2 = items'
      BY <2>3, <3>1 DEF Noted
    <3>4. QED
      BY <3>1, <3>2, <3>3
  <2>5. Answer(m, NextName, items', put)
    BY <2>1, <2>2, <2>4, ShardAnswer
  <2>6. QED
    BY <2>3, <2>4, <2>5, PutTallied
<1>15. ASSUME NEW m, NEW n, ReturnsTo(ctx[c].up, m, n), ctx[c].up \in FlowCtxs,
              Answer(m, NextName, items, put) \/ put >= Len(Names)
       PROVE  Goal
  <2>1. CASE Rests
    <3>1. FlowCtxs' = FlowCtxs \cup {} /\ UNCHANGED <<put, items>> /\ Tallied(Outs(c), items, put)
      BY <1>3, <2>1 DEF Rests
    <3>2. \A d \in FlowCtxs' : Outs(d)' = Outs(c) \/ (d \in FlowCtxs /\ Outs(d)' = Outs(d))
      BY <2>1 DEF Rests, Kept, Contents
    <3>3. QED
      BY <1>5, <3>1, <3>2
  <2>2. CASE Puts(ctx[c].up, m) /\ UNCHANGED items
    <3>1. put < Len(Names)
      BY <2>2 DEF Puts
    <3>2. Answer(m, NextName, items', put) /\ OneMoreName(items', items, NextName)
      <4>1. Answer(m, NextName, items, put)
        BY <1>4, <1>15, <3>1, NamesAre
      <4>2. QED
        BY <1>7, <2>2, <4>1
    <3>3. QED
      BY <1>15, <2>2, <3>2, PutTallied
  <2>3. QED
    BY <1>15, <2>1, <2>2 DEF ReturnsTo
<1>16. CASE /\ ctx[c].up \in FlowCtxs
            /\ \E n \in Items : ReturnsTo(ctx[c].up, [p \in {Processed} |-> [type |-> "float64", n |-> n]], n)
  <2>1. PICK n \in Items : ReturnsTo(ctx[c].up, [p \in {Processed} |-> [type |-> "float64", n |-> n]], n)
    BY <1>16
  <2>2. PICK m : m = [p \in {Processed} |-> [type |-> "float64", n |-> n]]
    OBVIOUS
  <2>3. n \in Nat
    BY FlowCtxAssumption
  <2>4. \A name, its, k : name \notin DOMAIN its => Answer(m, name, its, k)
    BY <2>2, <2>3, ActivityAnswer
  <2>5. Answer(m, NextName, items, put) \/ put >= Len(Names)
    BY <1>4, <1>8, <2>4, NamesAre
  <2>6. QED
    BY <1>15, <1>16, <2>1, <2>2, <2>5
<1>17. CASE ctx[c].up \in FlowCtxs /\ ReturnsTo(ctx[c].up, Json(Outs(c)), 0)
  <2>1. PICK m : m = Json(Outs(c))
    OBVIOUS
  <2>2. Tallied(m, items, put)
    BY <1>3, <2>1, TalliedJson
  <2>3. Answer(m, NextName, items, put)
    BY <2>2, FlowAnswer
  <2>4. QED
    BY <1>15, <1>17, <2>1, <2>3
<1>18. QED
  BY <1>9, <1>10, <1>11, <1>12, <1>13, <1>14, <1>16, <1>17 DEF Moves

LEMMA InitTally == Init => Tally
<1> SUFFICES ASSUME Init PROVE Tally
  OBVIOUS
<1>1. PICK f : f = For([input |-> 1, outputs |-> 2], "main", 0, <<JobInput>>)
  OBVIOUS
<1>2. heap = <<JobInput, <<>>>> /\ ctx = <<f>> /\ put = 0 /\ items = <<>>
  BY <1>1 DEF Init
<1>3. f.outputs = 2 /\ f.results = <<>> /\ f.items = 0
  BY <1>1, ForIs
<1>4. FlowCtxs = {1} /\ Outs(1) = <<>> /\ ctx[1] = f
  BY <1>2, <1>3 DEF FlowCtxs, Outs
<1>5. Tallied(<<>>, items, put)
  BY DEF Tallied, Numbered
<1>6. AddsUp(1)
  BY <1>3, <1>4, SumNone DEF AddsUp
<1>7. \A k \in DOMAIN items : FALSE
  BY <1>2
<1>8. QED
  BY <1>4, <1>5, <1>6, <1>7 DEF Tally

LEMMA TallyAlways == Spec => []Tally
<1>1. IInv /\ Tally /\ [Next]_vars => Tally'
  <2> SUFFICES ASSUME IInv, Tally, [Next]_vars PROVE Tally'
    OBVIOUS
  <2>1. CASE Next
    <3>1. Made /\ Filled
      BY DEF IInv
    <3>2. PICK c \in FlowCtxs : Moves(c)
      BY <2>1, <3>1, NextIs
    <3>3. QED
      BY <3>1, <3>2, TallyKeeps
  <2>2. CASE UNCHANGED vars
    BY <2>2 DEF vars, Tally, AddsUp, FlowCtxs, Outs
  <2>3. QED
    BY <2>1, <2>2
<1>2. QED
  BY <1>1, InitTally, Inductive, PTL DEF Spec

(* Wherever the output of a shard is, the path to its "processed" reads the      *)
(* items its partitions processed: they are added up once, no later phase, merge *)
(* or process changes them (types.go 135-160, phase.go 563-604).                 *)
THEOREM TotalsRead == Spec => []Totals
<1>1. IInv /\ Tally => Totals
  <2> SUFFICES ASSUME IInv, Tally, Unhidden, NEW c \in FlowCtxs, \A p \in DOMAIN Outs(c) : Plain(p),
                      NEW p \in DOMAIN Outs(c), Last(p) = Key("processed"), p[Len(p) - 1] \in DOMAIN items
               PROVE  asIntAny(lookup(c, Words(p))) = items[p[Len(p) - 1]]
    BY DEF Totals
  <2>1. Keyed(p) /\ Within(p, put) /\ Owed(p, Outs(c)[p], items) /\ Plain(p)
    BY DEF Tally, Tallied, Numbered
  <2>2. asIntAny(Outs(c)[p]) = items[p[Len(p) - 1]]
    BY <2>1 DEF Owed, Last
  <2>3. Len(p) > 1 /\ Len(p) \in Nat /\ IsSeq(p) /\ \A i \in 1..Len(p) : IsSeq(p[i])
    BY <2>1 DEF Keyed, Within, IsSeq
  <2>4. IsSeq(Words(p)) /\ Len(Words(p)) = Len(p) /\ Path(Words(p)) = p
    BY <2>1, <2>3, WrittenPath
  <2>5. ~ \E q \in DOMAIN Outs(c) : q[1] = Words(p)
    <3>1. ASSUME NEW q \in DOMAIN Outs(c) PROVE Len(q[1]) = 1
      <4>1. Keyed(q) /\ Plain(q)
        BY DEF Tally, Tallied, Numbered
      <4>2. 1 \in DOMAIN q
        BY <4>1, SeqIs DEF Keyed, IsSeq
      <4>3. QED
        BY <4>1, <4>2 DEF Plain
    <3>2. QED
      <4>1. ASSUME NEW q \in DOMAIN Outs(c), q[1] = Words(p) PROVE FALSE
        <5>1. Len(Words(p)) = 1
          BY <3>1, <4>1
        <5>2. Len(p) = 1
          BY <5>1, <2>4
        <5>3. QED
          BY <5>2, <2>3
      <4>2. QED
        BY <4>1
  <2>6. Head(Words(p)) # "input"
    <3>1. Head(p[1]) # "input"
      BY NamedFirst DEF IInv
    <3>2. DOMAIN p = 1..Len(p) /\ 1 \in 1..Len(p)
      BY <2>3, SeqIs
    <3>3. Words(p)[1] = p[1][1]
      BY <3>2 DEF Words
    <3>4. Head(Words(p)) = Words(p)[1] /\ Head(p[1]) = p[1][1]
      <4>1. IsSeq(p[1]) /\ Len(p[1]) = 1
        BY <2>1, <2>3, <3>2 DEF Plain
      <4>2. PICK w, k : w = Words(p) /\ k = p[1]
        OBVIOUS
      <4>3. PICK S : w \in Seq(S)
        BY <2>4, <4>2, SeqSome
      <4>4. PICK T : k \in Seq(T)
        BY <4>1, <4>2, SeqSome
      <4>5. Len(w) > 0 /\ Len(k) > 0
        <5>1. Len(k) = 1
          BY <4>1, <4>2
        <5>2. Len(w) = Len(p)
          BY <2>4, <4>2
        <5>3. QED
          BY <5>1, <5>2, <2>3
      <4>6. Head(w) = w[1] /\ Head(k) = k[1]
        BY <4>3, <4>4, <4>5
      <4>7. QED
        BY <4>2, <4>6
    <3>5. QED
      BY <3>1, <3>3, <3>4
  <2>7. lookup(c, Words(p)) = Outs(c)[p]
    <3>1. lookupPath(Outs(c), Words(p)) = Outs(c)[p]
      BY <2>4 DEF lookupPath
    <3>2. QED
      BY <2>5, <2>6, <3>1 DEF lookup
  <2>8. QED
    BY <2>2, <2>7
<1>2. QED
  BY <1>1, TallyAlways, Inductive, PTL
===============================================================================
