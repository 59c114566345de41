--------------------------- MODULE Strings_proofs ---------------------------
(***************************************************************************)
(* Proofs about the strings, for any characters, literals and bounds.      *)
(*                                                                         *)
(* First the walks over a tree of nodes: the text, the copy of a stretch,  *)
(* the hash and the look-up say the same of a node.  Then how a heap       *)
(* changes: a node is appended, or replaced by one of the same text.  Then *)
(* a lemma for each method, on top of these two; and last the invariant    *)
(* and the theorems.                                                       *)
(***************************************************************************)
EXTENDS Strings, SequenceTheorems, NaturalsInduction, WellFoundedInduction, TLAPS

-----------------------------------------------------------------------------
(***************************************************************************)
(* Induction on the numbers up to n, by its least counterexample.          *)
(***************************************************************************)
LEMMA LeastNatural ==
  ASSUME NEW S \in SUBSET Nat, S # {}
  PROVE  \E x \in S : \A y \in S : x <= y
<1>1. PICK x \in S : \A y \in S : ~(<<y, x>> \in OpToRel(<, Nat))
  BY NatLessThanWellFounded, WFMin
<1>2. ASSUME NEW y \in S, y < x  PROVE <<y, x>> \in OpToRel(<, Nat)
  BY <1>2, <<y, x>> \in Nat \X Nat, <<y, x>>[1] < <<y, x>>[2] DEF OpToRel
<1>3. ASSUME NEW y \in S  PROVE ~(y < x)
  BY <1>1, <1>2, Zenon
<1> QED
  BY <1>3

LEMMA UpTo ==
  ASSUME NEW n \in Nat, NEW S, 0 \in S, \A p \in 1..n : p - 1 \in S => p \in S
  PROVE  \A p \in 0..n : p \in S
<1> DEFINE R == {p \in 0..n : p \notin S}
<1>1. SUFFICES ASSUME R # {} PROVE FALSE
  OBVIOUS
<1>2. PICK p \in R : \A q \in R : p <= q
  <2>1. R \in SUBSET Nat
    OBVIOUS
  <2> HIDE DEF R
  <2> QED
    BY <1>1, <2>1, LeastNatural
<1>3. p # 0
  BY <1>2
<1>4. p \in 1..n /\ p - 1 \in 0..n /\ ~(p <= p - 1)
  BY <1>2, <1>3
<1> QED
  BY <1>2, <1>4

\* A property of nodes that passes from the earlier ones to each holds of all.
LEMMA NodeInduction ==
  ASSUME NEW N \in Nat, NEW S, \A n \in 1..N : 1..(n - 1) \subseteq S => n \in S
  PROVE  1..N \subseteq S
<1> DEFINE R == {p \in 0..N : 1..p \subseteq S}
<1>1. 0 \in R
  OBVIOUS
<1>2. ASSUME NEW p \in 1..N, p - 1 \in R PROVE p \in R
  <2>1. 1..(p - 1) \subseteq S
    BY <1>2
  <2>2. p \in S
    BY <2>1
  <2>3. \A q \in 1..p : q = p \/ q \in 1..(p - 1)
    OBVIOUS
  <2> QED
    BY <2>1, <2>2, <2>3
<1>3. N \in R
  <2> HIDE DEF R
  <2> QED
    BY <1>1, <1>2, UpTo
<1> QED
  BY <1>3

-----------------------------------------------------------------------------
(***************************************************************************)
(* A heap of strings: a node refers to earlier ones.                       *)
(***************************************************************************)
Node == [type : {"flat", "rope", "dependent"}, length : Nat, flat : Seq(Chars),
         left : Nat, right : Nat, off : Nat, hash : Seq(Chars), hasHash : BOOLEAN]

Heap(h) ==
  /\ h \in Seq(Node)
  /\ \A n \in DOMAIN h :
       /\ h[n].type # "flat" => h[n].left \in 1..(n - 1)
       /\ h[n].type = "rope" => h[n].right \in 1..(n - 1)

LEMMA HeapIs ==
  ASSUME NEW h, Heap(h)
  PROVE  /\ Len(h) \in Nat /\ DOMAIN h = 1..Len(h)
         /\ \A n \in DOMAIN h :
              /\ h[n] \in Node
              /\ h[n].type \in {"flat", "rope", "dependent"}
              /\ h[n].type # "flat" => h[n].left \in 1..(n - 1) /\ h[n].left \in DOMAIN h
              /\ h[n].type = "rope" => h[n].right \in 1..(n - 1) /\ h[n].right \in DOMAIN h
<1>1. Len(h) \in Nat /\ DOMAIN h = 1..Len(h) /\ \A n \in DOMAIN h : h[n] \in Node
  BY DEF Heap
<1>2. \A n \in DOMAIN h : h[n].type \in {"flat", "rope", "dependent"}
  BY <1>1 DEF Node
<1> QED
  BY <1>1, <1>2 DEF Heap

(***************************************************************************)
(* The walks over a heap are functions that are defined by themselves; each*)
(* has a value, because a step looks at earlier nodes only.                *)
(***************************************************************************)
TextStep(h, t, n) ==
  CASE h[n].type = "flat" -> h[n].flat
    [] h[n].type = "rope" -> t[h[n].left] \o t[h[n].right]
    [] h[n].type = "dependent" ->
         SubSeq(t[h[n].left], h[n].off + 1, h[n].off + h[n].length)

BelowStep(h, b, n) ==
  IF h[n].type = "flat" THEN {n}
  ELSE {n} \cup b[h[n].left] \cup (IF h[n].type = "rope" THEN b[h[n].right] ELSE {})

DepStep(h, d, n) ==
  [s \in Stretch |->
        IF s.len = 0 THEN Copied(s.off, 0, <<>>)
        ELSE CASE h[n].type = "flat" -> CopyFlat(h[n], s)
               [] h[n].type = "rope" -> CopyBoth(d[h[n].left][s], d[h[n].right])
               [] h[n].type = "dependent" ->
                    d[h[n].left][Span(s.off + h[n].off, s.len)]]

RopeStep(h, f, n) ==
  CASE h[n].type = "flat" -> h[n].flat
    [] h[n].type = "rope" -> f[h[n].left] \o f[h[n].right]
    [] h[n].type = "dependent" ->
         FlattenDep(h)[h[n].left][Span(h[n].off, h[n].length)].out

HashStep(h, m, n) ==
  CASE h[n].type = "flat" -> h[n].flat
    [] h[n].type = "dependent" -> HashDep(h)[n][Span(0, h[n].length)].out
    [] h[n].type = "rope" -> m[h[n].left] \o m[h[n].right]

AtStep(h, at, n) ==
  [i \in Nat |->
        CASE h[n].type = "flat" -> h[n].flat[i + 1]
          [] h[n].type = "dependent" -> at[h[n].left][i + h[n].off]
          [] h[n].type = "rope" ->
               IF i < h[h[n].left].length THEN at[h[n].left][i]
               ELSE at[h[n].right][i - h[h[n].left].length]]

LEMMA TextOfIs ==
  ASSUME NEW h, Heap(h)
  PROVE  TextOf(h) = [n \in DOMAIN h |-> TextStep(h, TextOf(h), n)]
<1> DEFINE N == Len(h)
           Upto(f, k) == f = [n \in 1..k |-> TextStep(h, f, n)]
           R == {k \in 0..N : \E f : Upto(f, k)}
<1>1. N \in Nat /\ DOMAIN h = 1..N
  BY HeapIs
<1>2. ASSUME NEW f, NEW g, NEW n \in 1..N, \A m \in 1..(n - 1) : f[m] = g[m]
      PROVE  TextStep(h, f, n) = TextStep(h, g, n)
  <2>1. h[n].type # "flat" => f[h[n].left] = g[h[n].left]
    BY <1>1, <1>2, HeapIs
  <2>2. h[n].type = "rope" => f[h[n].right] = g[h[n].right]
    BY <1>1, <1>2, HeapIs
  <2>3. h[n].type \in {"flat", "rope", "dependent"}
    BY <1>1, <1>2, HeapIs
  <2> QED
    BY <2>1, <2>2, <2>3 DEF TextStep
<1>3. 0 \in R
  <2>1. Upto(<<>>, 0)
    <3>1. 1..0 = {}
      OBVIOUS
    <3> QED
      BY <3>1
  <2> HIDE DEF Upto
  <2> QED
    BY <1>1, <2>1
<1>4. ASSUME NEW k \in 1..N, k - 1 \in R PROVE k \in R
  <2>1. PICK f : Upto(f, k - 1)
    BY <1>4
  <2> DEFINE g == [n \in 1..k |-> TextStep(h, f, n)]
  <2>2. \A n \in 1..(k - 1) : f[n] = TextStep(h, f, n)
    BY <2>1
  <2>3. \A n \in 1..(k - 1) : g[n] = f[n]
    BY <1>1, <2>2
  <2>4. ASSUME NEW n \in 1..k PROVE TextStep(h, f, n) = TextStep(h, g, n)
    <3>1. n \in 1..N /\ \A m \in 1..(n - 1) : f[m] = g[m]
      BY <1>1, <2>3
    <3> HIDE DEF g
    <3> QED
      BY <1>2, <3>1
  <2>5. Upto(g, k)
    BY <2>4
  <2>6. k \in 0..N
    BY <1>1
  <2> HIDE DEF Upto, g
  <2> QED
    BY <2>5, <2>6
<1>5. N \in R
  <2> HIDE DEF R, N
  <2> QED
    BY <1>1, <1>3, <1>4, UpTo
<1>6. PICK f : f = [n \in DOMAIN h |-> TextStep(h, f, n)]
  BY <1>1, <1>5
<1> QED
  BY <1>6 DEF TextOf, TextStep

LEMMA BelowIs ==
  ASSUME NEW h, Heap(h)
  PROVE  Below(h) = [n \in DOMAIN h |-> BelowStep(h, Below(h), n)]
<1> DEFINE N == Len(h)
           Upto(f, k) == f = [n \in 1..k |-> BelowStep(h, f, n)]
           R == {k \in 0..N : \E f : Upto(f, k)}
<1>1. N \in Nat /\ DOMAIN h = 1..N
  BY HeapIs
<1>2. ASSUME NEW f, NEW g, NEW n \in 1..N, \A m \in 1..(n - 1) : f[m] = g[m]
      PROVE  BelowStep(h, f, n) = BelowStep(h, g, n)
  <2>1. h[n].type # "flat" => f[h[n].left] = g[h[n].left]
    BY <1>1, <1>2, HeapIs
  <2>2. h[n].type = "rope" => f[h[n].right] = g[h[n].right]
    BY <1>1, <1>2, HeapIs
  <2>3. h[n].type \in {"flat", "rope", "dependent"}
    BY <1>1, <1>2, HeapIs
  <2> QED
    BY <2>1, <2>2, <2>3 DEF BelowStep
<1>3. 0 \in R
  <2>1. Upto(<<>>, 0)
    <3>1. 1..0 = {}
      OBVIOUS
    <3> QED
      BY <3>1
  <2> HIDE DEF Upto
  <2> QED
    BY <1>1, <2>1
<1>4. ASSUME NEW k \in 1..N, k - 1 \in R PROVE k \in R
  <2>1. PICK f : Upto(f, k - 1)
    BY <1>4
  <2> DEFINE g == [n \in 1..k |-> BelowStep(h, f, n)]
  <2>2. \A n \in 1..(k - 1) : f[n] = BelowStep(h, f, n)
    BY <2>1
  <2>3. \A n \in 1..(k - 1) : g[n] = f[n]
    BY <1>1, <2>2
  <2>4. ASSUME NEW n \in 1..k PROVE BelowStep(h, f, n) = BelowStep(h, g, n)
    <3>1. n \in 1..N /\ \A m \in 1..(n - 1) : f[m] = g[m]
      BY <1>1, <2>3
    <3> HIDE DEF g
    <3> QED
      BY <1>2, <3>1
  <2>5. Upto(g, k)
    BY <2>4
  <2>6. k \in 0..N
    BY <1>1
  <2> HIDE DEF Upto, g
  <2> QED
    BY <2>5, <2>6
<1>5. N \in R
  <2> HIDE DEF R, N
  <2> QED
    BY <1>1, <1>3, <1>4, UpTo
<1>6. PICK f : f = [n \in DOMAIN h |-> BelowStep(h, f, n)]
  BY <1>1, <1>5
<1> QED
  BY <1>6 DEF Below, BelowStep

LEMMA FlattenDepIs ==
  ASSUME NEW h, Heap(h)
  PROVE  FlattenDep(h) = [n \in DOMAIN h |-> DepStep(h, FlattenDep(h), n)]
<1> DEFINE N == Len(h)
           Upto(f, k) == f = [n \in 1..k |-> DepStep(h, f, n)]
           R == {k \in 0..N : \E f : Upto(f, k)}
<1>1. N \in Nat /\ DOMAIN h = 1..N
  BY HeapIs
<1>2. ASSUME NEW f, NEW g, NEW n \in 1..N, \A m \in 1..(n - 1) : f[m] = g[m]
      PROVE  DepStep(h, f, n) = DepStep(h, g, n)
  <2>1. h[n].type # "flat" => f[h[n].left] = g[h[n].left]
    BY <1>1, <1>2, HeapIs
  <2>2. h[n].type = "rope" => f[h[n].right] = g[h[n].right]
    BY <1>1, <1>2, HeapIs
  <2>3. h[n].type \in {"flat", "rope", "dependent"}
    BY <1>1, <1>2, HeapIs
  <2> QED
    BY <2>1, <2>2, <2>3 DEF DepStep
<1>3. 0 \in R
  <2>1. Upto(<<>>, 0)
    <3>1. 1..0 = {}
      OBVIOUS
    <3> QED
      BY <3>1
  <2> HIDE DEF Upto
  <2> QED
    BY <1>1, <2>1
<1>4. ASSUME NEW k \in 1..N, k - 1 \in R PROVE k \in R
  <2>1. PICK f : Upto(f, k - 1)
    BY <1>4
  <2> DEFINE g == [n \in 1..k |-> DepStep(h, f, n)]
  <2>2. \A n \in 1..(k - 1) : f[n] = DepStep(h, f, n)
    BY <2>1
  <2>3. \A n \in 1..(k - 1) : g[n] = f[n]
    BY <1>1, <2>2
  <2>4. ASSUME NEW n \in 1..k PROVE DepStep(h, f, n) = DepStep(h, g, n)
    <3>1. n \in 1..N /\ \A m \in 1..(n - 1) : f[m] = g[m]
      BY <1>1, <2>3
    <3> HIDE DEF g
    <3> QED
      BY <1>2, <3>1
  <2>5. Upto(g, k)
    BY <2>4
  <2>6. k \in 0..N
    BY <1>1
  <2> HIDE DEF Upto, g
  <2> QED
    BY <2>5, <2>6
<1>5. N \in R
  <2> HIDE DEF R, N
  <2> QED
    BY <1>1, <1>3, <1>4, UpTo
<1>6. PICK f : f = [n \in DOMAIN h |-> DepStep(h, f, n)]
  BY <1>1, <1>5
<1> QED
  BY <1>6 DEF FlattenDep, DepStep

LEMMA FlattenRopeIs ==
  ASSUME NEW h, Heap(h)
  PROVE  FlattenRope(h) = [n \in DOMAIN h |-> RopeStep(h, FlattenRope(h), n)]
<1> DEFINE N == Len(h)
           Upto(f, k) == f = [n \in 1..k |-> RopeStep(h, f, n)]
           R == {k \in 0..N : \E f : Upto(f, k)}
<1>1. N \in Nat /\ DOMAIN h = 1..N
  BY HeapIs
<1>2. ASSUME NEW f, NEW g, NEW n \in 1..N, \A m \in 1..(n - 1) : f[m] = g[m]
      PROVE  RopeStep(h, f, n) = RopeStep(h, g, n)
  <2>1. h[n].type # "flat" => f[h[n].left] = g[h[n].left]
    BY <1>1, <1>2, HeapIs
  <2>2. h[n].type = "rope" => f[h[n].right] = g[h[n].right]
    BY <1>1, <1>2, HeapIs
  <2>3. h[n].type \in {"flat", "rope", "dependent"}
    BY <1>1, <1>2, HeapIs
  <2> QED
    BY <2>1, <2>2, <2>3 DEF RopeStep
<1>3. 0 \in R
  <2>1. Upto(<<>>, 0)
    <3>1. 1..0 = {}
      OBVIOUS
    <3> QED
      BY <3>1
  <2> HIDE DEF Upto
  <2> QED
    BY <1>1, <2>1
<1>4. ASSUME NEW k \in 1..N, k - 1 \in R PROVE k \in R
  <2>1. PICK f : Upto(f, k - 1)
    BY <1>4
  <2> DEFINE g == [n \in 1..k |-> RopeStep(h, f, n)]
  <2>2. \A n \in 1..(k - 1) : f[n] = RopeStep(h, f, n)
    BY <2>1
  <2>3. \A n \in 1..(k - 1) : g[n] = f[n]
    BY <1>1, <2>2
  <2>4. ASSUME NEW n \in 1..k PROVE RopeStep(h, f, n) = RopeStep(h, g, n)
    <3>1. n \in 1..N /\ \A m \in 1..(n - 1) : f[m] = g[m]
      BY <1>1, <2>3
    <3> HIDE DEF g
    <3> QED
      BY <1>2, <3>1
  <2>5. Upto(g, k)
    BY <2>4
  <2>6. k \in 0..N
    BY <1>1
  <2> HIDE DEF Upto, g
  <2> QED
    BY <2>5, <2>6
<1>5. N \in R
  <2> HIDE DEF R, N
  <2> QED
    BY <1>1, <1>3, <1>4, UpTo
<1>6. PICK f : f = [n \in DOMAIN h |-> RopeStep(h, f, n)]
  BY <1>1, <1>5
<1> QED
  BY <1>6 DEF FlattenRope, RopeStep

LEMMA HashInnerIs ==
  ASSUME NEW h, Heap(h)
  PROVE  HashInner(h) = [n \in DOMAIN h |-> HashStep(h, HashInner(h), n)]
<1> DEFINE N == Len(h)
           Upto(f, k) == f = [n \in 1..k |-> HashStep(h, f, n)]
           R == {k \in 0..N : \E f : Upto(f, k)}
<1>1. N \in Nat /\ DOMAIN h = 1..N
  BY HeapIs
<1>2. ASSUME NEW f, NEW g, NEW n \in 1..N, \A m \in 1..(n - 1) : f[m] = g[m]
      PROVE  HashStep(h, f, n) = HashStep(h, g, n)
  <2>1. h[n].type # "flat" => f[h[n].left] = g[h[n].left]
    BY <1>1, <1>2, HeapIs
  <2>2. h[n].type = "rope" => f[h[n].right] = g[h[n].right]
    BY <1>1, <1>2, HeapIs
  <2>3. h[n].type \in {"flat", "rope", "dependent"}
    BY <1>1, <1>2, HeapIs
  <2> QED
    BY <2>1, <2>2, <2>3 DEF HashStep
<1>3. 0 \in R
  <2>1. Upto(<<>>, 0)
    <3>1. 1..0 = {}
      OBVIOUS
    <3> QED
      BY <3>1
  <2> HIDE DEF Upto
  <2> QED
    BY <1>1, <2>1
<1>4. ASSUME NEW k \in 1..N, k - 1 \in R PROVE k \in R
  <2>1. PICK f : Upto(f, k - 1)
    BY <1>4
  <2> DEFINE g == [n \in 1..k |-> HashStep(h, f, n)]
  <2>2. \A n \in 1..(k - 1) : f[n] = HashStep(h, f, n)
    BY <2>1
  <2>3. \A n \in 1..(k - 1) : g[n] = f[n]
    BY <1>1, <2>2
  <2>4. ASSUME NEW n \in 1..k PROVE HashStep(h, f, n) = HashStep(h, g, n)
    <3>1. n \in 1..N /\ \A m \in 1..(n - 1) : f[m] = g[m]
      BY <1>1, <2>3
    <3> HIDE DEF g
    <3> QED
      BY <1>2, <3>1
  <2>5. Upto(g, k)
    BY <2>4
  <2>6. k \in 0..N
    BY <1>1
  <2> HIDE DEF Upto, g
  <2> QED
    BY <2>5, <2>6
<1>5. N \in R
  <2> HIDE DEF R, N
  <2> QED
    BY <1>1, <1>3, <1>4, UpTo
<1>6. PICK f : f = [n \in DOMAIN h |-> HashStep(h, f, n)]
  BY <1>1, <1>5
<1> QED
  BY <1>6 DEF HashInner, HashStep

LEMMA StringAtIs ==
  ASSUME NEW h, Heap(h)
  PROVE  StringAt(h) = [n \in DOMAIN h |-> AtStep(h, StringAt(h), n)]
<1> DEFINE N == Len(h)
           Upto(f, k) == f = [n \in 1..k |-> AtStep(h, f, n)]
           R == {k \in 0..N : \E f : Upto(f, k)}
<1>1. N \in Nat /\ DOMAIN h = 1..N
  BY HeapIs
<1>2. ASSUME NEW f, NEW g, NEW n \in 1..N, \A m \in 1..(n - 1) : f[m] = g[m]
      PROVE  AtStep(h, f, n) = AtStep(h, g, n)
  <2>1. h[n].type # "flat" => f[h[n].left] = g[h[n].left]
    BY <1>1, <1>2, HeapIs
  <2>2. h[n].type = "rope" => f[h[n].right] = g[h[n].right]
    BY <1>1, <1>2, HeapIs
  <2>3. h[n].type \in {"flat", "rope", "dependent"}
    BY <1>1, <1>2, HeapIs
  <2> QED
    BY <2>1, <2>2, <2>3 DEF AtStep
<1>3. 0 \in R
  <2>1. Upto(<<>>, 0)
    <3>1. 1..0 = {}
      OBVIOUS
    <3> QED
      BY <3>1
  <2> HIDE DEF Upto
  <2> QED
    BY <1>1, <2>1
<1>4. ASSUME NEW k \in 1..N, k - 1 \in R PROVE k \in R
  <2>1. PICK f : Upto(f, k - 1)
    BY <1>4
  <2> DEFINE g == [n \in 1..k |-> AtStep(h, f, n)]
  <2>2. \A n \in 1..(k - 1) : f[n] = AtStep(h, f, n)
    BY <2>1
  <2>3. \A n \in 1..(k - 1) : g[n] = f[n]
    BY <1>1, <2>2
  <2>4. ASSUME NEW n \in 1..k PROVE AtStep(h, f, n) = AtStep(h, g, n)
    <3>1. n \in 1..N /\ \A m \in 1..(n - 1) : f[m] = g[m]
      BY <1>1, <2>3
    <3> HIDE DEF g
    <3> QED
      BY <1>2, <3>1
  <2>5. Upto(g, k)
    BY <2>4
  <2>6. k \in 0..N
    BY <1>1
  <2> HIDE DEF Upto, g
  <2> QED
    BY <2>5, <2>6
<1>5. N \in R
  <2> HIDE DEF R, N
  <2> QED
    BY <1>1, <1>3, <1>4, UpTo
<1>6. PICK f : f = [n \in DOMAIN h |-> AtStep(h, f, n)]
  BY <1>1, <1>5
<1> QED
  BY <1>6 DEF StringAt, AtStep

LEMMA TextAt ==
  ASSUME NEW h, Heap(h), NEW n \in DOMAIN h
  PROVE  TextOf(h)[n] = TextStep(h, TextOf(h), n)
  BY TextOfIs

LEMMA BelowAt ==
  ASSUME NEW h, Heap(h), NEW n \in DOMAIN h
  PROVE  Below(h)[n] = BelowStep(h, Below(h), n)
  BY BelowIs

LEMMA DepAt ==
  ASSUME NEW h, Heap(h), NEW n \in DOMAIN h
  PROVE  FlattenDep(h)[n] = DepStep(h, FlattenDep(h), n)
  BY FlattenDepIs

LEMMA RopeAt ==
  ASSUME NEW h, Heap(h), NEW n \in DOMAIN h
  PROVE  FlattenRope(h)[n] = RopeStep(h, FlattenRope(h), n)
  BY FlattenRopeIs

LEMMA HashAt ==
  ASSUME NEW h, Heap(h), NEW n \in DOMAIN h
  PROVE  HashInner(h)[n] = HashStep(h, HashInner(h), n)
  BY HashInnerIs

LEMMA CharAtNode ==
  ASSUME NEW h, Heap(h), NEW n \in DOMAIN h
  PROVE  StringAt(h)[n] = AtStep(h, StringAt(h), n)
  BY StringAtIs

-----------------------------------------------------------------------------
(***************************************************************************)
(* Stretches of sequences.                                                 *)
(***************************************************************************)
LEMMA SubIs ==
  ASSUME NEW T, NEW t \in Seq(T), NEW off \in Nat, NEW len \in Nat, off + len <= Len(t)
  PROVE  /\ SubSeq(t, off + 1, off + len) \in Seq(T)
         /\ Len(SubSeq(t, off + 1, off + len)) = len
         /\ \A i \in 1..len : SubSeq(t, off + 1, off + len)[i] = t[off + i]
<1>1. SubSeq(t, off + 1, off + len) = [i \in 1..len |-> t[off + i]]
  OBVIOUS
<1>2. \A i \in 1..len : off + i \in 1..Len(t)
  OBVIOUS
<1>3. [i \in 1..len |-> t[off + i]] \in [1..len -> T]
  BY <1>2
<1> DEFINE f == [i \in 1..len |-> t[off + i]]
<1>4. f \in Seq(T) /\ Len(f) = len
  <2>1. f \in [1..len -> T] /\ DOMAIN f = 1..len
    BY <1>3
  <2> HIDE DEF f
  <2> QED
    BY <2>1
<1> QED
  BY <1>1, <1>4

LEMMA SubWhole ==
  ASSUME NEW T, NEW t \in Seq(T)
  PROVE  SubSeq(t, 1, Len(t)) = t
<1>1. Len(t) \in Nat /\ SubSeq(t, 0 + 1, 0 + Len(t)) \in Seq(T)
      /\ Len(SubSeq(t, 0 + 1, 0 + Len(t))) = Len(t)
      /\ \A i \in 1..Len(t) : SubSeq(t, 0 + 1, 0 + Len(t))[i] = t[i]
  BY SubIs
<1> QED
  BY <1>1, SeqEqual

LEMMA SubNone ==
  ASSUME NEW T, NEW t \in Seq(T), NEW off \in Nat
  PROVE  SubSeq(t, off + 1, off) = <<>>
  OBVIOUS

LEMMA SubSub ==
  ASSUME NEW T, NEW t \in Seq(T), NEW a \in Nat, NEW m \in Nat, a + m <= Len(t),
         NEW off \in Nat, NEW len \in Nat, off + len <= m
  PROVE  SubSeq(SubSeq(t, a + 1, a + m), off + 1, off + len)
           = SubSeq(t, (off + a) + 1, (off + a) + len)
<1> DEFINE u == SubSeq(t, a + 1, a + m)
           v == SubSeq(u, off + 1, off + len)
           w == SubSeq(t, (off + a) + 1, (off + a) + len)
<1>1. u \in Seq(T) /\ Len(u) = m /\ \A i \in 1..m : u[i] = t[a + i]
  BY SubIs
<1> HIDE DEF u
<1>2. v \in Seq(T) /\ Len(v) = len /\ \A i \in 1..len : v[i] = u[off + i]
  BY <1>1, SubIs
<1>3. w \in Seq(T) /\ Len(w) = len /\ \A i \in 1..len : w[i] = t[(off + a) + i]
  <2>1. off + a \in Nat /\ (off + a) + len <= Len(t)
    OBVIOUS
  <2> QED
    BY <2>1, SubIs
<1> HIDE DEF v, w
<1>4. ASSUME NEW i \in 1..len PROVE v[i] = w[i]
  <2>1. off + i \in 1..m /\ a + (off + i) = (off + a) + i
    OBVIOUS
  <2> QED
    BY <1>1, <1>2, <1>3, <2>1
<1>5. v = w
  BY <1>2, <1>3, <1>4, SeqEqual
<1> QED
  BY <1>5 DEF u, v, w

\* A copy of a stretch of a text.
Copy(t, s) ==
  IF s.len = 0 THEN Copied(s.off, 0, <<>>)
  ELSE CopyFlat([length |-> Len(t), flat |-> t], s)

\* A copy that starts in t.
LEMMA CopyInside ==
  ASSUME NEW T, NEW t \in Seq(T), NEW off \in Nat, NEW len \in Nat, off + len <= Len(t)
  PROVE  Copy(t, Span(off, len)).out = SubSeq(t, off + 1, off + len)
<1>1. CASE len = 0
  BY <1>1, SubNone DEF Copy, Copied, Span
<1>2. CASE len # 0
  <2>1. off < Len(t) /\ ~(len > Len(t) - off) /\ off + len = off + len
    BY <1>2
  <2> QED
    BY <1>2, <2>1 DEF Copy, CopyFlat, Copied, Span, Least
<1> QED
  BY <1>1, <1>2

LEMMA SpanIs ==
  ASSUME NEW s \in Stretch
  PROVE  s.off \in Nat /\ s.len \in Nat /\ s = Span(s.off, s.len)
  BY DEF Stretch, Span

-----------------------------------------------------------------------------
(***************************************************************************)
(* A heap whose lengths are those of the texts.                            *)
(***************************************************************************)
Sized(h) ==
  \A n \in DOMAIN h :
    /\ h[n].type = "flat" => h[n].length = Len(h[n].flat)
    /\ h[n].type = "rope" => h[n].length = h[h[n].left].length + h[h[n].right].length
    /\ h[n].type = "dependent" => h[n].off + h[n].length <= h[h[n].left].length

LEMMA TextType ==
  ASSUME NEW h, Heap(h), Sized(h), NEW n \in DOMAIN h
  PROVE  TextOf(h)[n] \in Seq(Chars) /\ Len(TextOf(h)[n]) = h[n].length
<1> DEFINE N == Len(h)
           t == TextOf(h)
           S == {m \in 1..N : t[m] \in Seq(Chars) /\ Len(t[m]) = h[m].length}
<1>1. N \in Nat /\ DOMAIN h = 1..N
  BY HeapIs
<1>2. ASSUME NEW m \in 1..N, 1..(m - 1) \subseteq S PROVE m \in S
  <2>1. /\ h[m] \in Node /\ t[m] = TextStep(h, t, m)
        /\ h[m].type \in {"flat", "rope", "dependent"}
        /\ h[m].type # "flat" => h[m].left \in S
        /\ h[m].type = "rope" => h[m].right \in S
    BY <1>1, <1>2, HeapIs, TextAt
  <2> HIDE DEF t
  <2>2. CASE h[m].type = "flat"
    <3>1. t[m] = h[m].flat
      BY <2>1, <2>2 DEF TextStep
    <3>2. h[m].flat \in Seq(Chars)
      BY <2>1 DEF Node
    <3> QED
      BY <1>1, <2>2, <3>1, <3>2 DEF Sized
  <2>3. CASE h[m].type = "rope"
    <3>1. t[m] = t[h[m].left] \o t[h[m].right]
      BY <2>1, <2>3 DEF TextStep
    <3>2. /\ t[h[m].left] \in Seq(Chars) /\ t[h[m].right] \in Seq(Chars)
          /\ Len(t[h[m].left]) = h[h[m].left].length
          /\ Len(t[h[m].right]) = h[h[m].right].length
      BY <2>1, <2>3
    <3> DEFINE a == t[h[m].left]
               b == t[h[m].right]
    <3> HIDE DEF a, b
    <3>4. a \in Seq(Chars) /\ b \in Seq(Chars) /\ t[m] = a \o b
      BY <3>1, <3>2 DEF a, b
    <3>5. t[m] \in Seq(Chars) /\ Len(t[m]) = Len(a) + Len(b)
      BY <3>4, ConcatProperties
    <3>3. t[m] \in Seq(Chars) /\ Len(t[m]) = h[h[m].left].length + h[h[m].right].length
      BY <3>2, <3>5 DEF a, b
    <3> QED
      BY <1>1, <2>3, <3>3 DEF Sized
  <2>4. CASE h[m].type = "dependent"
    <3>1. t[m] = SubSeq(t[h[m].left], h[m].off + 1, h[m].off + h[m].length)
      BY <2>1, <2>4 DEF TextStep
    <3>2. t[h[m].left] \in Seq(Chars) /\ Len(t[h[m].left]) = h[h[m].left].length
      BY <2>1, <2>4
    <3>3. h[m].off \in Nat /\ h[m].length \in Nat
      BY <2>1 DEF Node
    <3>4. h[m].off + h[m].length <= Len(t[h[m].left])
      BY <1>1, <2>4, <3>2 DEF Sized
    <3> DEFINE base == t[h[m].left]
               off == h[m].off
               len == h[m].length
    <3>5. base \in Seq(Chars) /\ off \in Nat /\ len \in Nat /\ off + len <= Len(base)
      BY <3>2, <3>3, <3>4
    <3> HIDE DEF base, off, len
    <3>6. /\ SubSeq(base, off + 1, off + len) \in Seq(Chars)
          /\ Len(SubSeq(base, off + 1, off + len)) = len
      BY <3>5, SubIs
    <3> QED
      BY <3>1, <3>6 DEF base, off, len
  <2> QED
    BY <2>1, <2>2, <2>3, <2>4
<1>3. 1..N \subseteq S
  <2> HIDE DEF S, N
  <2> QED
    BY <1>1, <1>2, NodeInduction
<1> QED
  BY <1>1, <1>3

-----------------------------------------------------------------------------
(***************************************************************************)
(* What is below a node.                                                   *)
(***************************************************************************)
LEMMA BelowHolds ==
  ASSUME NEW h, Heap(h), NEW n \in DOMAIN h
  PROVE  /\ n \in Below(h)[n]
         /\ h[n].type = "flat" => Below(h)[n] = {n}
         /\ h[n].type # "flat" => Below(h)[h[n].left] \subseteq Below(h)[n]
         /\ h[n].type = "rope" => Below(h)[h[n].right] \subseteq Below(h)[n]
         /\ \A m \in Below(h)[n] :
              \/ m = n
              \/ h[n].type # "flat" /\ m \in Below(h)[h[n].left]
              \/ h[n].type = "rope" /\ m \in Below(h)[h[n].right]
<1>1. Below(h)[n] = BelowStep(h, Below(h), n)
  BY BelowAt
<1> DEFINE b == Below(h)
<1> HIDE DEF b
<1>2. b[n] = BelowStep(h, b, n)
  BY <1>1 DEF b
<1>3. /\ n \in b[n]
      /\ h[n].type = "flat" => b[n] = {n}
      /\ h[n].type # "flat" => b[h[n].left] \subseteq b[n]
      /\ h[n].type = "rope" => b[h[n].right] \subseteq b[n]
      /\ \A m \in b[n] :
           \/ m = n
           \/ h[n].type # "flat" /\ m \in b[h[n].left]
           \/ h[n].type = "rope" /\ m \in b[h[n].right]
  BY <1>2 DEF BelowStep
<1> QED
  BY <1>3 DEF b

\* No dependent string is below the node.
Pure(h, n) == \A d \in Below(h)[n] : h[d].type # "dependent"

LEMMA PureDown ==
  ASSUME NEW h, Heap(h), NEW n \in DOMAIN h, Pure(h, n)
  PROVE  /\ h[n].type # "dependent"
         /\ h[n].type # "flat" => Pure(h, h[n].left)
         /\ h[n].type = "rope" => Pure(h, h[n].right)
<1>1. /\ n \in Below(h)[n]
      /\ h[n].type # "flat" => Below(h)[h[n].left] \subseteq Below(h)[n]
      /\ h[n].type = "rope" => Below(h)[h[n].right] \subseteq Below(h)[n]
  BY BelowHolds
<1> QED
  BY <1>1 DEF Pure

LEMMA RegularDown ==
  ASSUME NEW h, Heap(h), NEW n \in DOMAIN h, Regular(h, n)
  PROVE  /\ h[n].type = "rope" => Pure(h, n)
         /\ h[n].type # "flat" => Regular(h, h[n].left)
         /\ h[n].type = "rope" => Regular(h, h[n].right)
<1>1. /\ n \in Below(h)[n]
      /\ h[n].type # "flat" => Below(h)[h[n].left] \subseteq Below(h)[n]
      /\ h[n].type = "rope" => Below(h)[h[n].right] \subseteq Below(h)[n]
  BY BelowHolds
<1> QED
  BY <1>1 DEF Regular, Pure

-----------------------------------------------------------------------------
(***************************************************************************)
(* The copies.  Of a node with no dependent string below, the copy of a    *)
(* stretch is that of its text, wherever the stretch starts and ends.      *)
(***************************************************************************)
LEMMA CopyPast ==
  ASSUME NEW T, NEW t \in Seq(T), NEW off \in Nat, NEW len \in Nat, len # 0, off >= Len(t)
  PROVE  Copy(t, Span(off, len)) = Copied(off - Len(t), len, <<>>)
<1> DEFINE s == Span(off, len)
<1>1. s.off = off /\ s.len = len
  BY DEF Span
<1> HIDE DEF s
<1>2. Copy(t, s) = Copied(off - Len(t), len, <<>>)
  BY <1>1 DEF Copy, CopyFlat
<1> QED
  BY <1>2 DEF s

\* The copy takes the next k characters, all of them or all there are.
Takes(t, off, len, k) ==
  /\ k \in Nat /\ off + k <= Len(t) /\ k <= len
  /\ len # k => off + k = Len(t)
  /\ Copy(t, Span(off, len)) = Copied(0, len - k, SubSeq(t, off + 1, off + k))

LEMMA CopyWithin ==
  ASSUME NEW T, NEW t \in Seq(T), NEW off \in Nat, NEW len \in Nat, len # 0, off < Len(t)
  PROVE  \E k : Takes(t, off, len, k)
<1> DEFINE s == Span(off, len)
           k == Least(len, Len(t) - off)
<1>1. s.off = off /\ s.len = len
  BY DEF Span
<1> HIDE DEF s
<1>2. k \in Nat /\ off + k <= Len(t) /\ k <= len /\ (len # k => off + k = Len(t))
  BY DEF Least
<1>3. Copy(t, s) = Copied(0, len - k, SubSeq(t, off + 1, off + k))
  BY <1>1 DEF Copy, CopyFlat
<1> HIDE DEF k
<1>4. Takes(t, off, len, k)
  BY <1>2, <1>3 DEF Takes, s
<1> QED
  BY <1>4

LEMMA CopyJoins ==
  ASSUME NEW T, NEW t \in Seq(T), NEW u \in Seq(T), NEW off \in Nat, NEW len \in Nat, len # 0,
         NEW right, \A r \in Stretch : right[r] = Copy(u, r)
  PROVE  CopyBoth(Copy(t, Span(off, len)), right) = Copy(t \o u, Span(off, len))
<1> DEFINE tu == t \o u
           a == Len(t)
           b == Len(u)
<1>2. /\ tu \in Seq(T) /\ Len(tu) = a + b /\ a \in Nat /\ b \in Nat
      /\ \A i \in 1..(a + b) : tu[i] = IF i <= a THEN t[i] ELSE u[i - a]
  BY ConcatProperties, LenProperties
<1> HIDE DEF tu
<1>1. ASSUME NEW o \in Nat, NEW n \in Nat PROVE right[Span(o, n)] = Copy(u, Span(o, n))
  BY DEF Stretch, Span
<1>3. CASE off >= a
  <2>1. Copy(t, Span(off, len)) = Copied(off - a, len, <<>>)
    BY <1>3, CopyPast
  <2> DEFINE o == off - a
             r == Copy(u, Span(o, len))
  <2>2. o \in Nat /\ off = a + o
    BY <1>2, <1>3
  <2>3. CopyBoth(Copy(t, Span(off, len)), right) = Copied(r.off, r.len, <<>> \o r.out)
    BY <1>1, <2>1, <2>2 DEF CopyBoth, Copied
  <2> HIDE DEF o
  <2>4. CASE o >= b
    <3>1. r = Copied(o - b, len, <<>>)
      BY <2>2, <2>4, CopyPast
    <3>2. off >= Len(tu)
      BY <1>2, <2>2, <2>4
    <3>3. Copy(tu, Span(off, len)) = Copied(off - Len(tu), len, <<>>)
      BY <1>2, <3>2, CopyPast
    <3>4. o - b = off - Len(tu) /\ <<>> \o <<>> = <<>>
      BY <1>2, <2>2
    <3> QED
      BY <2>3, <3>1, <3>3, <3>4 DEF Copied, tu
  <2>5. CASE o < b
    <3>11. PICK k : Takes(u, o, len, k)
      BY <2>2, <2>5, CopyWithin
    <3>1. /\ k \in Nat /\ o + k <= b /\ k <= len /\ (len # k => o + k = b)
          /\ r = Copied(0, len - k, SubSeq(u, o + 1, o + k))
      BY <3>11 DEF Takes
    <3>2. off < Len(tu)
      BY <1>2, <2>2, <2>5
    <3>12. PICK m : Takes(tu, off, len, m)
      BY <1>2, <3>2, CopyWithin
    <3>3. /\ m \in Nat /\ off + m <= Len(tu) /\ m <= len /\ (len # m => off + m = Len(tu))
          /\ Copy(tu, Span(off, len)) = Copied(0, len - m, SubSeq(tu, off + 1, off + m))
      BY <3>12 DEF Takes
    <3>4. m = k
      <4>1. Len(tu) = a + b /\ a \in Nat /\ b \in Nat /\ o \in Nat /\ off = a + o /\ o + k <= b
            /\ (len # k => o + k = b) /\ k \in Nat /\ k <= len /\ m \in Nat
            /\ off + m <= Len(tu) /\ m <= len /\ (len # m => off + m = Len(tu))
        BY <1>2, <2>2, <3>1, <3>3
      <4> HIDE DEF a, b, r
      <4> QED
        BY <4>1
    <3> DEFINE x == SubSeq(u, o + 1, o + k)
               y == SubSeq(tu, off + 1, off + k)
    <3>5. x \in Seq(T) /\ Len(x) = k /\ \A i \in 1..k : x[i] = u[o + i]
      <4>1. k \in Nat /\ o \in Nat /\ o + k <= Len(u)
        BY <2>2, <3>1
      <4> HIDE DEF r, a, b
      <4> QED
        BY <4>1, SubIs
    <3>6. y \in Seq(T) /\ Len(y) = k /\ \A i \in 1..k : y[i] = tu[off + i]
      <4>1. k \in Nat /\ off + k <= Len(tu) /\ tu \in Seq(T)
        BY <1>2, <3>3, <3>4
      <4> HIDE DEF r, a, b, tu
      <4> QED
        BY <4>1, SubIs
    <3> HIDE DEF x, y
    <3>7. ASSUME NEW i \in 1..k PROVE y[i] = x[i]
      <4>1. off + i \in 1..(a + b) /\ ~(off + i <= a) /\ (off + i) - a = o + i
        <5>1. off = a + o /\ a \in Nat /\ b \in Nat /\ o \in Nat /\ o + k <= b /\ k \in Nat
          BY <1>2, <2>2, <3>1
        <5>2. i \in Nat /\ i >= 1 /\ i <= k
          BY <3>1
        <5> HIDE DEF a, b, r, tu
        <5> QED
          BY <5>1, <5>2
      <4> QED
        BY <1>2, <3>5, <3>6, <4>1
    <3>8. x = y
      BY <3>5, <3>6, <3>7, SeqEqual
    <3>9. <<>> \o x = x
      BY <3>5, ConcatEmptySeq
    <3>10. r = Copied(0, len - k, x) /\ Copy(tu, Span(off, len)) = Copied(0, len - k, y)
      BY <3>1, <3>3, <3>4 DEF x, y
    <3> HIDE DEF r
    <3> QED
      BY <2>3, <3>8, <3>9, <3>10 DEF Copied, tu
  <2> QED
    BY <1>2, <2>2, <2>4, <2>5
<1>4. CASE off < a
  <2>14. PICK k : Takes(t, off, len, k)
    BY <1>4, CopyWithin
  <2>1. /\ k \in Nat /\ off + k <= a /\ k <= len /\ (len # k => off + k = a)
        /\ Copy(t, Span(off, len)) = Copied(0, len - k, SubSeq(t, off + 1, off + k))
    BY <2>14 DEF Takes
  <2>15. PICK m : Takes(tu, off, len, m)
    <3>1. off < Len(tu)
      BY <1>2, <1>4
    <3> QED
      BY <1>2, <3>1, CopyWithin
  <2>2. /\ m \in Nat /\ off + m <= a + b /\ m <= len /\ (len # m => off + m = a + b)
        /\ Copy(tu, Span(off, len)) = Copied(0, len - m, SubSeq(tu, off + 1, off + m))
    BY <1>2, <2>15 DEF Takes
  <2> DEFINE r == Copy(u, Span(0, len - k))
             x == SubSeq(t, off + 1, off + k)
             y == SubSeq(tu, off + 1, off + m)
  <2>3. CopyBoth(Copy(t, Span(off, len)), right) = Copied(r.off, r.len, x \o r.out)
    <3> DEFINE n == len - k
    <3>1. n \in Nat /\ 0 \in Nat
      BY <2>1
    <3>2. Copy(t, Span(off, len)) = Copied(0, n, x)
      BY <2>1
    <3> HIDE DEF n, x
    <3>3. right[Span(0, n)] = Copy(u, Span(0, n))
      BY <1>1, <3>1
    <3> DEFINE c == Copy(t, Span(off, len))
               q == Copy(u, Span(0, n))
    <3>4. c = Copied(0, n, x) /\ right[Span(0, n)] = q
      BY <3>2, <3>3
    <3> HIDE DEF c, q
    <3>5. c.off = 0 /\ c.len = n /\ c.out = x
      BY <3>4 DEF Copied
    <3>6. CopyBoth(c, right) = Copied(q.off, q.len, x \o q.out)
      BY <3>4, <3>5 DEF CopyBoth
    <3> QED
      BY <3>6 DEF n, c, q
  <2> DEFINE Rest(j) == /\ j \in Nat /\ j <= b /\ m = k + j /\ (j # 0 => off + k = a)
                        /\ r = Copied(0, (len - k) - j, SubSeq(u, 0 + 1, 0 + j))
  <2>4. \E j : Rest(j)
    <3>1. CASE len = k
      <4>1. m = k + 0 /\ len - k = 0 /\ (len - k) - 0 = 0
        BY <1>2, <2>1, <2>2, <3>1
      <4>2. Span(0, 0).len = 0 /\ Span(0, 0).off = 0
        BY DEF Span
      <4>3. SubSeq(u, 0 + 1, 0 + 0) = <<>>
        BY SubNone
      <4>4. r = Copied(0, 0, <<>>)
        BY <4>1, <4>2 DEF Copy
      <4>5. 0 \in Nat /\ 0 <= b
        BY <1>2
      <4> HIDE DEF r, a, b
      <4>6. r = Copied(0, (len - k) - 0, SubSeq(u, 0 + 1, 0 + 0))
        BY <4>1, <4>3, <4>4
      <4>7. Rest(0)
        BY <4>1, <4>5, <4>6
      <4> QED
        BY <4>7
    <3>2. CASE len # k /\ b = 0
      <4>1. Copy(u, Span(0, len - k)) = Copied(0 - b, len - k, <<>>)
        <5>1. len - k \in Nat /\ len - k # 0 /\ 0 \in Nat /\ ~(0 < Len(u))
          BY <2>1, <3>2
        <5> QED
          BY <5>1, CopyPast
      <4>2. m = k + 0 /\ 0 - b = 0 /\ (len - k) - 0 = len - k
        BY <1>2, <2>1, <2>2, <3>2
      <4>3. SubSeq(u, 0 + 1, 0 + 0) = <<>>
        BY SubNone
      <4> DEFINE n == len - k
      <4>4. r = Copied(0, n, <<>>)
        BY <4>1, <4>2
      <4>5. n - 0 = n
        BY <2>1
      <4>6. 0 \in Nat /\ 0 <= b
        BY <1>2
      <4> HIDE DEF r, n, a, b
      <4>7. r = Copied(0, n - 0, SubSeq(u, 0 + 1, 0 + 0))
        BY <4>3, <4>4, <4>5
      <4>8. Rest(0)
        BY <4>2, <4>6, <4>7 DEF n
      <4> QED
        BY <4>8
    <3>3. CASE len # k /\ b # 0
      <4> DEFINE n == len - k
      <4>1. n \in Nat /\ n # 0 /\ 0 \in Nat /\ 0 < b
        BY <1>2, <2>1, <3>3
      <4> HIDE DEF n
      <4>5. PICK j : Takes(u, 0, n, j)
        BY <4>1, CopyWithin
      <4>2. /\ j \in Nat /\ 0 + j <= b /\ j <= n /\ (n # j => 0 + j = b)
            /\ Copy(u, Span(0, n)) = Copied(0, n - j, SubSeq(u, 0 + 1, 0 + j))
        BY <4>5 DEF Takes
      <4>3. m = k + j
        BY <1>2, <2>1, <2>2, <3>3, <4>2 DEF n
      <4>4. off + k = a /\ j <= b
        BY <1>2, <2>1, <3>3, <4>2
      <4>6. Rest(j)
        BY <4>2, <4>3, <4>4 DEF n
      <4> QED
        BY <4>6
    <3> QED
      BY <3>1, <3>2, <3>3
  <2> HIDE DEF r
  <2>5. PICK j : Rest(j)
    BY <2>4
  <2> DEFINE z == SubSeq(u, 0 + 1, 0 + j)
  <2>6. CopyBoth(Copy(t, Span(off, len)), right) = Copied(0, (len - k) - j, x \o z)
    BY <2>3, <2>5 DEF Copied
  <2>7. (len - k) - j = len - m
    BY <2>1, <2>2, <2>5
  <2>8. x \in Seq(T) /\ Len(x) = k /\ \A i \in 1..k : x[i] = t[off + i]
    BY <2>1, SubIs
  <2>9. z \in Seq(T) /\ Len(z) = j /\ \A i \in 1..j : z[i] = u[0 + i]
    <3>1. 0 \in Nat /\ j \in Nat /\ 0 + j <= Len(u)
      BY <2>5
    <3> QED
      BY <3>1, SubIs
  <2>10. y \in Seq(T) /\ Len(y) = m /\ \A i \in 1..m : y[i] = tu[off + i]
    <3>1. off + m <= Len(tu)
      BY <1>2, <2>2
    <3> QED
      BY <1>2, <2>2, <3>1, SubIs
  <2> HIDE DEF x, y, z
  <2>11. /\ x \o z \in Seq(T) /\ Len(x \o z) = k + j
         /\ \A i \in 1..(k + j) : (x \o z)[i] = IF i <= k THEN x[i] ELSE z[i - k]
    BY <2>8, <2>9, ConcatProperties
  <2>12. ASSUME NEW i \in 1..m PROVE y[i] = (x \o z)[i]
    <3>1. y[i] = tu[off + i] /\ off + i \in 1..(a + b)
      BY <1>2, <2>2, <2>10
    <3>2. CASE i <= k
      <4>1. i \in 1..k /\ off + i <= a /\ i \in 1..(k + j)
        BY <1>2, <2>1, <2>5, <3>2
      <4> QED
        BY <1>2, <2>8, <2>11, <3>1, <4>1
    <3>3. CASE ~(i <= k)
      <4>1. /\ i - k \in 1..j /\ i \in 1..(k + j) /\ j # 0
        BY <2>1, <2>5, <3>3
      <4>2. ~(off + i <= a) /\ (off + i) - a = 0 + (i - k)
        <5>1. off + k = a /\ i > k /\ i \in Nat /\ k \in Nat
          BY <2>1, <2>2, <2>5, <3>3, <4>1
        <5> HIDE DEF a, b
        <5> QED
          BY <1>2, <5>1
      <4> QED
        BY <1>2, <2>9, <2>11, <3>1, <3>3, <4>1, <4>2
    <3> QED
      BY <3>2, <3>3
  <2>13. x \o z = y
    <3>1. Len(x \o z) = Len(y)
      BY <2>5, <2>10, <2>11
    <3> HIDE DEF a, b
    <3> QED
      BY <2>10, <2>11, <2>12, <3>1, SeqEqual
  <2> QED
    BY <2>2, <2>6, <2>7, <2>13 DEF tu, y
<1> QED
  BY <1>2, <1>3, <1>4


LEMMA CopyPure ==
  ASSUME NEW h, Heap(h), Sized(h), NEW n \in DOMAIN h, Pure(h, n)
  PROVE  \A s \in Stretch : FlattenDep(h)[n][s] = Copy(TextOf(h)[n], s)
<1> DEFINE N == Len(h)
           d == FlattenDep(h)
           t == TextOf(h)
           S == {m \in 1..N : Pure(h, m) => \A s \in Stretch : d[m][s] = Copy(t[m], s)}
<1>1. N \in Nat /\ DOMAIN h = 1..N
  BY HeapIs
<1>2. ASSUME NEW m \in 1..N, 1..(m - 1) \subseteq S PROVE m \in S
  <2>1. SUFFICES ASSUME Pure(h, m), NEW s \in Stretch PROVE d[m][s] = Copy(t[m], s)
    OBVIOUS
  <2>2. /\ h[m] \in Node /\ t[m] = TextStep(h, t, m) /\ d[m] = DepStep(h, d, m)
        /\ h[m].type \in {"flat", "rope", "dependent"}
        /\ h[m].type # "flat" => h[m].left \in S /\ h[m].left \in DOMAIN h
        /\ h[m].type = "rope" => h[m].right \in S /\ h[m].right \in DOMAIN h
    BY <1>1, <1>2, HeapIs, TextAt, DepAt
  <2>3. /\ h[m].type # "dependent"
        /\ h[m].type # "flat" => Pure(h, h[m].left)
        /\ h[m].type = "rope" => Pure(h, h[m].right)
    BY <1>1, <2>1, PureDown
  <2>4. s.off \in Nat /\ s.len \in Nat /\ s = Span(s.off, s.len)
    BY SpanIs
  <2> DEFINE l == h[m].left
             r == h[m].right
  <2>9. h[m].type = "rope" => /\ t[l] \in Seq(Chars) /\ t[r] \in Seq(Chars)
                              /\ \A x \in Stretch : d[l][x] = Copy(t[l], x)
                              /\ \A x \in Stretch : d[r][x] = Copy(t[r], x)
    BY <1>1, <2>2, <2>3, TextType
  <2> HIDE DEF d, t
  <2>5. CASE s.len = 0
    BY <2>2, <2>5 DEF DepStep, Copy
  <2>6. CASE s.len # 0 /\ h[m].type = "flat"
    <3>1. d[m][s] = CopyFlat(h[m], s) /\ t[m] = h[m].flat
      BY <2>2, <2>6 DEF DepStep, TextStep
    <3>2. h[m].length = Len(h[m].flat)
      BY <1>1, <2>6 DEF Sized
    <3>3. CopyFlat(h[m], s) = CopyFlat([length |-> Len(t[m]), flat |-> t[m]], s)
      BY <3>1, <3>2 DEF CopyFlat
    <3> QED
      BY <2>6, <3>1, <3>3 DEF Copy
  <2>7. CASE s.len # 0 /\ h[m].type = "rope"
    <3>1. d[m][s] = CopyBoth(d[l][s], d[r]) /\ t[m] = t[l] \o t[r]
      BY <2>2, <2>7 DEF DepStep, TextStep
    <3>2. d[l][s] = Copy(t[l], s)
      BY <2>7, <2>9
    <3>3. CopyBoth(Copy(t[l], Span(s.off, s.len)), d[r]) = Copy(t[l] \o t[r], Span(s.off, s.len))
      <4> DEFINE a == t[l]
                 b == t[r]
                 q == d[r]
                 off == s.off
                 len == s.len
      <4>1. /\ a \in Seq(Chars) /\ b \in Seq(Chars) /\ off \in Nat /\ len \in Nat /\ len # 0
            /\ \A x \in Stretch : q[x] = Copy(b, x)
        BY <2>4, <2>7, <2>9
      <4> HIDE DEF a, b, q, off, len
      <4>2. CopyBoth(Copy(a, Span(off, len)), q) = Copy(a \o b, Span(off, len))
        BY <4>1, CopyJoins
      <4> QED
        BY <4>2 DEF a, b, q, off, len
    <3> QED
      BY <2>4, <3>1, <3>2, <3>3
  <2> QED
    BY <2>2, <2>3, <2>5, <2>6, <2>7
<1>3. 1..N \subseteq S
  <2> HIDE DEF S, N
  <2> QED
    BY <1>1, <1>2, NodeInduction
<1> QED
  BY <1>1, <1>3

\* Of a regular node, a stretch within it is copied.
LEMMA CopyRegular ==
  ASSUME NEW h, Heap(h), Sized(h), NEW n \in DOMAIN h, Regular(h, n),
         NEW off \in Nat, NEW len \in Nat, off + len <= h[n].length
  PROVE  FlattenDep(h)[n][Span(off, len)].out = SubSeq(TextOf(h)[n], off + 1, off + len)
<1> DEFINE N == Len(h)
           d == FlattenDep(h)
           t == TextOf(h)
           S == {m \in 1..N : Regular(h, m) =>
                   \A i \in Nat, k \in Nat : i + k <= h[m].length =>
                     d[m][Span(i, k)].out = SubSeq(t[m], i + 1, i + k)}
<1>1. N \in Nat /\ DOMAIN h = 1..N
  BY HeapIs
<1>2. ASSUME NEW m \in 1..N, 1..(m - 1) \subseteq S PROVE m \in S
  <2>1. SUFFICES ASSUME Regular(h, m), NEW i \in Nat, NEW k \in Nat, i + k <= h[m].length
                 PROVE  d[m][Span(i, k)].out = SubSeq(t[m], i + 1, i + k)
    OBVIOUS
  <2>2. /\ h[m] \in Node /\ t[m] = TextStep(h, t, m) /\ d[m] = DepStep(h, d, m)
        /\ h[m].type \in {"flat", "rope", "dependent"}
        /\ h[m].type # "flat" => h[m].left \in S /\ h[m].left \in DOMAIN h
    BY <1>1, <1>2, HeapIs, TextAt, DepAt
  <2>3. /\ h[m].type = "rope" => Pure(h, m)
        /\ h[m].type # "flat" => Regular(h, h[m].left)
    BY <1>1, <2>1, RegularDown
  <2>4. t[m] \in Seq(Chars) /\ Len(t[m]) = h[m].length
    BY <1>1, TextType
  <2>5. Span(i, k) \in Stretch /\ Span(i, k).len = k /\ Span(i, k).off = i
    BY DEF Span, Stretch
  <2>6. CASE h[m].type \in {"flat", "rope"}
    <3>1. Pure(h, m)
      <4>1. CASE h[m].type = "flat"
        <5>1. Below(h)[m] = {m}
          BY <1>1, <4>1, BelowHolds
        <5> QED
          BY <4>1, <5>1 DEF Pure
      <4> QED
        BY <2>3, <2>6, <4>1
    <3>2. d[m][Span(i, k)] = Copy(t[m], Span(i, k))
      BY <1>1, <2>5, <3>1, CopyPure
    <3> DEFINE u == t[m]
    <3>3. u \in Seq(Chars) /\ i + k <= Len(u)
      BY <2>1, <2>4
    <3> HIDE DEF u
    <3>4. Copy(u, Span(i, k)).out = SubSeq(u, i + 1, i + k)
      BY <3>3, CopyInside
    <3> QED
      BY <3>2, <3>4 DEF u
  <2>7. CASE h[m].type = "dependent" /\ k = 0
    <3>1. d[m][Span(i, k)].out = <<>>
      <4> HIDE DEF d, t
      <4> QED
        BY <2>2, <2>5, <2>7 DEF DepStep, Copied
    <3> DEFINE u == t[m]
    <3> HIDE DEF u
    <3>2. u \in Seq(Chars)
      BY <2>4 DEF u
    <3>3. SubSeq(u, i + 1, i + k) = <<>>
      BY <2>7, <3>2, SubNone
    <3> QED
      BY <3>1, <3>3 DEF u
  <2>8. CASE h[m].type = "dependent" /\ k # 0
    <3> DEFINE l == h[m].left
               a == h[m].off
               w == h[m].length
               base == t[l]
    <3>1. d[m][Span(i, k)] = d[l][Span(i + a, k)]
      <4> HIDE DEF d, t
      <4> QED
        BY <2>2, <2>5, <2>8 DEF DepStep
    <3>2. t[m] = SubSeq(base, a + 1, a + w)
      <4> HIDE DEF d, t
      <4> QED
        BY <2>2, <2>8 DEF TextStep
    <3>3. a \in Nat /\ w \in Nat /\ a + w <= h[l].length
      BY <1>1, <2>2, <2>8 DEF Node, Sized
    <3>4. base \in Seq(Chars) /\ Len(base) = h[l].length
      BY <2>2, <2>8, TextType
    <3>5. h[l].length \in Nat
      BY <3>4
    <3>6. i + a \in Nat /\ (i + a) + k <= h[l].length
      <4> DEFINE v == h[l].length
      <4>1. v \in Nat /\ a \in Nat /\ w \in Nat /\ a + w <= v /\ i + k <= w
        BY <2>1, <3>3, <3>5
      <4> HIDE DEF a, w, v
      <4>2. i + a \in Nat /\ (i + a) + k <= v
        BY <4>1
      <4> QED
        BY <4>2 DEF v
    <3>7. d[l][Span(i + a, k)].out = SubSeq(base, (i + a) + 1, (i + a) + k)
      BY <2>2, <2>3, <2>8, <3>6
    <3> HIDE DEF base, a, w, l, d
    <3>8. SubSeq(SubSeq(base, a + 1, a + w), i + 1, i + k) = SubSeq(base, (i + a) + 1, (i + a) + k)
      <4>1. a + w <= Len(base) /\ i + k <= w
        BY <2>1, <3>3, <3>4 DEF w
      <4> QED
        BY <3>3, <3>4, <4>1, SubSub
    <3> QED
      BY <3>1, <3>2, <3>7, <3>8
  <2> QED
    BY <2>2, <2>6, <2>7, <2>8
<1>3. 1..N \subseteq S
  <2> HIDE DEF S, N
  <2> QED
    BY <1>1, <1>2, NodeInduction
<1> QED
  BY <1>1, <1>3

\* The copy of a whole dependent string.
LEMMA CopyWhole ==
  ASSUME NEW h, Heap(h), Sized(h), NEW n \in DOMAIN h, h[n].type = "dependent",
         Regular(h, h[n].left)
  PROVE  /\ FlattenDep(h)[h[n].left][Span(h[n].off, h[n].length)].out = TextOf(h)[n]
         /\ FlattenDep(h)[n][Span(0, h[n].length)].out = TextOf(h)[n]
<1> DEFINE l == h[n].left
           a == h[n].off
           w == h[n].length
           d == FlattenDep(h)
           t == TextOf(h)
<1>1. /\ h[n] \in Node /\ l \in DOMAIN h
      /\ t[n] = TextStep(h, t, n) /\ d[n] = DepStep(h, d, n)
  BY HeapIs, TextAt, DepAt
<1>2. a \in Nat /\ w \in Nat /\ a + w <= h[l].length
  BY <1>1 DEF Node, Sized
<1>3. d[l][Span(a, w)].out = SubSeq(t[l], a + 1, a + w)
  <2>1. Regular(h, l)
    OBVIOUS
  <2> HIDE DEF a, w, l
  <2> QED
    BY <1>1, <1>2, <2>1, CopyRegular
<1>4. t[n] \in Seq(Chars) /\ Len(t[n]) = w
  BY TextType
<1>5. Span(0, w) \in Stretch /\ Span(0, w).len = w /\ Span(0, w).off = 0
  BY <1>2 DEF Span, Stretch
<1> HIDE DEF d, t
<1>6. t[n] = SubSeq(t[l], a + 1, a + w)
  BY <1>1 DEF TextStep
<1>7. d[n][Span(0, w)].out = t[n]
  <2>1. CASE w = 0
    <3>1. d[n][Span(0, w)].out = <<>>
      BY <1>1, <1>5, <2>1 DEF DepStep, Copied
    <3> QED
      BY <1>4, <2>1, <3>1
  <2>2. CASE w # 0
    <3>1. d[n][Span(0, w)] = d[l][Span(0 + a, w)] /\ 0 + a = a
      BY <1>1, <1>2, <1>5, <2>2 DEF DepStep
    <3> QED
      BY <1>3, <1>6, <3>1
  <2> QED
    BY <2>1, <2>2
<1> QED
  BY <1>3, <1>6, <1>7 DEF d, t

-----------------------------------------------------------------------------
(***************************************************************************)
(* Where every substring was taken of a regular base, what is copied and   *)
(* what is hashed are the texts.                                           *)
(***************************************************************************)
BasesRegular(h) == \A n \in DOMAIN h : h[n].type = "dependent" => Regular(h, h[n].left)

LEMMA WalksAgree ==
  ASSUME NEW h, Heap(h), Sized(h), BasesRegular(h), NEW n \in DOMAIN h
  PROVE  FlattenRope(h)[n] = TextOf(h)[n] /\ HashInner(h)[n] = TextOf(h)[n]
<1> DEFINE N == Len(h)
           f == FlattenRope(h)
           m == HashInner(h)
           t == TextOf(h)
           S == {k \in 1..N : f[k] = t[k] /\ m[k] = t[k]}
<1>1. N \in Nat /\ DOMAIN h = 1..N
  BY HeapIs
<1>2. ASSUME NEW k \in 1..N, 1..(k - 1) \subseteq S PROVE k \in S
  <2>1. /\ t[k] = TextStep(h, t, k) /\ f[k] = RopeStep(h, f, k) /\ m[k] = HashStep(h, m, k)
        /\ h[k].type \in {"flat", "rope", "dependent"}
        /\ h[k].type # "flat" => h[k].left \in S
        /\ h[k].type = "rope" => h[k].right \in S
    BY <1>1, <1>2, HeapIs, TextAt, RopeAt, HashAt
  <2>2. h[k].type = "dependent" =>
          /\ FlattenDep(h)[h[k].left][Span(h[k].off, h[k].length)].out = t[k]
          /\ HashDep(h)[k][Span(0, h[k].length)].out = t[k]
    BY <1>1, CopyWhole DEF BasesRegular, HashDep
  <2> HIDE DEF f, m, t
  <2>3. CASE h[k].type = "flat"
    BY <2>1, <2>3 DEF TextStep, RopeStep, HashStep
  <2>4. CASE h[k].type = "rope"
    BY <2>1, <2>4 DEF TextStep, RopeStep, HashStep
  <2>5. CASE h[k].type = "dependent"
    BY <2>1, <2>2, <2>5 DEF RopeStep, HashStep
  <2> QED
    BY <2>1, <2>3, <2>4, <2>5
<1>3. 1..N \subseteq S
  <2> HIDE DEF S, N
  <2> QED
    BY <1>1, <1>2, NodeInduction
<1> QED
  BY <1>1, <1>3

\* A look-up walks to the character, without a copy and whatever the bases.
LEMMA LookUp ==
  ASSUME NEW h, Heap(h), Sized(h), NEW n \in DOMAIN h, NEW i \in Nat, i < h[n].length
  PROVE  StringAt(h)[n][i] = TextOf(h)[n][i + 1]
<1> DEFINE N == Len(h)
           at == StringAt(h)
           t == TextOf(h)
           S == {m \in 1..N : \A k \in Nat : k < h[m].length => at[m][k] = t[m][k + 1]}
<1>1. N \in Nat /\ DOMAIN h = 1..N
  BY HeapIs
<1>2. ASSUME NEW m \in 1..N, 1..(m - 1) \subseteq S PROVE m \in S
  <2>1. SUFFICES ASSUME NEW k \in Nat, k < h[m].length PROVE at[m][k] = t[m][k + 1]
    OBVIOUS
  <2> DEFINE l == h[m].left
             r == h[m].right
  <2>2. /\ h[m] \in Node /\ t[m] = TextStep(h, t, m) /\ at[m] = AtStep(h, at, m)
        /\ h[m].type \in {"flat", "rope", "dependent"}
        /\ h[m].type # "flat" => l \in S /\ l \in DOMAIN h
        /\ h[m].type = "rope" => r \in S /\ r \in DOMAIN h
    BY <1>1, <1>2, HeapIs, TextAt, CharAtNode
  <2>3. h[m].type # "flat" => t[l] \in Seq(Chars) /\ Len(t[l]) = h[l].length /\ h[l].length \in Nat
    BY <2>2, TextType, LenProperties
  <2>4. h[m].type = "rope" => t[r] \in Seq(Chars) /\ Len(t[r]) = h[r].length /\ h[r].length \in Nat
    BY <2>2, TextType, LenProperties
  <2> HIDE DEF at, t
  <2>5. CASE h[m].type = "flat"
    BY <2>2, <2>5 DEF AtStep, TextStep
  <2>6. CASE h[m].type = "dependent"
    <3> DEFINE a == h[m].off
               w == h[m].length
               base == t[l]
    <3>1. at[m][k] = at[l][k + a] /\ t[m] = SubSeq(base, a + 1, a + w)
      BY <2>2, <2>6 DEF AtStep, TextStep
    <3>2. a \in Nat /\ w \in Nat /\ a + w <= h[l].length
      BY <1>1, <2>2, <2>6 DEF Node, Sized
    <3>3. k + a \in Nat /\ k + a < h[l].length /\ k + 1 \in 1..w /\ (k + a) + 1 = a + (k + 1)
      <4> DEFINE v == h[l].length
      <4>1. v \in Nat /\ a \in Nat /\ w \in Nat /\ a + w <= v /\ k < w
        BY <2>1, <2>3, <2>6, <3>2
      <4> HIDE DEF a, w, v
      <4>2. k + a \in Nat /\ k + a < v /\ k + 1 \in 1..w /\ (k + a) + 1 = a + (k + 1)
        BY <4>1
      <4> QED
        BY <4>2 DEF v
    <3>4. at[l][k + a] = base[(k + a) + 1]
      BY <2>2, <2>6, <3>3
    <3>5. base \in Seq(Chars) /\ a + w <= Len(base)
      BY <2>3, <2>6, <3>2
    <3> HIDE DEF base, a, w, l
    <3>6. SubSeq(base, a + 1, a + w)[k + 1] = base[a + (k + 1)]
      BY <3>2, <3>3, <3>5, SubIs
    <3> QED
      BY <3>1, <3>3, <3>4, <3>6
  <2>7. CASE h[m].type = "rope"
    <3> DEFINE x == t[l]
               y == t[r]
               w == h[l].length
    <3>1. /\ at[m][k] = IF k < w THEN at[l][k] ELSE at[r][k - w]
          /\ t[m] = x \o y
      BY <2>2, <2>7 DEF AtStep, TextStep
    <3>2. h[m].length = w + h[r].length
      BY <1>1, <2>7 DEF Sized
    <3>3. x \in Seq(Chars) /\ y \in Seq(Chars) /\ Len(x) = w /\ Len(y) = h[r].length
          /\ w \in Nat /\ h[r].length \in Nat
      BY <2>3, <2>4, <2>7
    <3>4. k < w => at[l][k] = x[k + 1]
      BY <2>2, <2>7
    <3>5. ~(k < w) => at[r][k - w] = y[(k - w) + 1]
      <4>1. ~(k < w) => k - w \in Nat /\ k - w < h[r].length
        <5> DEFINE v == h[r].length
        <5>1. k < w + v /\ w \in Nat /\ v \in Nat
          BY <2>1, <3>2, <3>3
        <5> HIDE DEF v, w
        <5>2. ~(k < w) => k - w \in Nat /\ k - w < v
          BY <5>1
        <5> QED
          BY <5>2 DEF v
      <4> QED
        BY <2>2, <2>7, <4>1
    <3>6. \A j \in 1..(Len(x) + Len(y)) : (x \o y)[j] = IF j <= Len(x) THEN x[j] ELSE y[j - Len(x)]
      <4> HIDE DEF x, y
      <4> QED
        BY <3>3, ConcatProperties
    <3> HIDE DEF x, y, w
    <3>7. k + 1 \in 1..(Len(x) + Len(y)) /\ (k < w <=> k + 1 <= Len(x)) /\ (k + 1) - w = (k - w) + 1
      <4> DEFINE v == h[r].length
      <4>1. k < w + v /\ w \in Nat /\ v \in Nat /\ Len(x) = w /\ Len(y) = v
        BY <2>1, <3>2, <3>3
      <4> HIDE DEF v
      <4> QED
        BY <4>1
    <3> QED
      BY <3>1, <3>3, <3>4, <3>5, <3>6, <3>7
  <2> QED
    BY <2>2, <2>5, <2>6, <2>7
<1>3. 1..N \subseteq S
  <2> HIDE DEF S, N
  <2> QED
    BY <1>1, <1>2, NodeInduction
<1> QED
  BY <1>1, <1>3

-----------------------------------------------------------------------------
(***************************************************************************)
(* How a heap changes.  A node keeps its text: it is as it was, or flat    *)
(* with the text as its characters.                                        *)
(***************************************************************************)
HashesRight(h) == \A n \in DOMAIN h : h[n].hasHash => h[n].hash = TextOf(h)[n]

Good(h) == Heap(h) /\ Sized(h) /\ BasesRegular(h) /\ HashesRight(h)

AsItWas(a, b) ==
  /\ b.type = a.type /\ b.flat = a.flat
  /\ b.left = a.left /\ b.right = a.right /\ b.off = a.off

StandsFor(a, b, text) ==
  /\ b.length = a.length
  /\ b.hasHash => b.hash = text
  /\ \/ b.type = "flat" /\ b.flat = text
     \/ AsItWas(a, b)

Grows(h, g) ==
  /\ Len(h) <= Len(g)
  /\ \A n \in DOMAIN h : StandsFor(h[n], g[n], TextOf(h)[n])

Kept(h, g) ==
  /\ Len(h) <= Len(g)
  /\ \A n \in DOMAIN h :
       /\ TextOf(g)[n] = TextOf(h)[n]
       /\ g[n].length = h[n].length
       /\ Regular(h, n) => Regular(g, n)
       /\ h[n].type = "flat" => g[n].type = "flat"

LEMMA KeptSame ==
  ASSUME NEW h, Heap(h)
  PROVE  Kept(h, h)
<1>1. Len(h) <= Len(h)
  BY HeapIs
<1> QED
  BY <1>1 DEF Kept

LEMMA KeptDomain ==
  ASSUME NEW h, NEW g, Heap(h), Heap(g), Len(h) <= Len(g)
  PROVE  \A n \in DOMAIN h : n \in DOMAIN g
<1>1. Len(h) \in Nat /\ Len(g) \in Nat /\ DOMAIN h = 1..Len(h) /\ DOMAIN g = 1..Len(g)
  BY HeapIs
<1> QED
  BY <1>1

LEMMA KeptTwice ==
  ASSUME NEW h, NEW g, NEW k, Heap(h), Heap(g), Heap(k), Kept(h, g), Kept(g, k)
  PROVE  Kept(h, k)
<1>1. Len(h) <= Len(g) /\ Len(g) <= Len(k)
  BY DEF Kept
<1>2. Len(h) \in Nat /\ Len(g) \in Nat /\ Len(k) \in Nat
  BY HeapIs
<1>3. Len(h) <= Len(k)
  BY <1>1, <1>2
<1>4. \A n \in DOMAIN h : n \in DOMAIN g
  BY <1>1, KeptDomain
<1> QED
  BY <1>3, <1>4 DEF Kept

LEMMA BelowInside ==
  ASSUME NEW h, Heap(h), NEW n \in DOMAIN h
  PROVE  Below(h)[n] \subseteq DOMAIN h
<1> DEFINE N == Len(h)
           b == Below(h)
           S == {m \in 1..N : b[m] \subseteq 1..N}
<1>1. N \in Nat /\ DOMAIN h = 1..N
  BY HeapIs
<1>2. ASSUME NEW m \in 1..N, 1..(m - 1) \subseteq S PROVE m \in S
  <2>1. /\ h[m].type # "flat" => h[m].left \in S
        /\ h[m].type = "rope" => h[m].right \in S
    BY <1>1, <1>2, HeapIs
  <2>2. \A x \in b[m] :
          \/ x = m
          \/ h[m].type # "flat" /\ x \in b[h[m].left]
          \/ h[m].type = "rope" /\ x \in b[h[m].right]
    BY <1>1, BelowHolds
  <2> HIDE DEF b
  <2> QED
    BY <2>1, <2>2
<1>3. 1..N \subseteq S
  <2> HIDE DEF S, N
  <2> QED
    BY <1>1, <1>2, NodeInduction
<1> QED
  BY <1>1, <1>3

LEMMA GrowsKeeps ==
  ASSUME NEW h, NEW g, Heap(h), Heap(g), Grows(h, g)
  PROVE  Kept(h, g)
<1> DEFINE N == Len(h)
           t == TextOf(h)
           u == TextOf(g)
           b == Below(h)
           c == Below(g)
           S == {m \in 1..N : u[m] = t[m] /\ c[m] \subseteq b[m]}
<1>1. N \in Nat /\ DOMAIN h = 1..N /\ \A n \in DOMAIN h : n \in DOMAIN g
  BY HeapIs, KeptDomain DEF Grows
<1>2. ASSUME NEW m \in 1..N, 1..(m - 1) \subseteq S PROVE m \in S
  <2>1. /\ t[m] = TextStep(h, t, m) /\ u[m] = TextStep(g, u, m)
        /\ b[m] = BelowStep(h, b, m) /\ c[m] = BelowStep(g, c, m)
    BY <1>1, TextAt, BelowAt
  <2>2. /\ h[m].type # "flat" => h[m].left \in S
        /\ h[m].type = "rope" => h[m].right \in S
        /\ h[m].type \in {"flat", "rope", "dependent"}
    BY <1>1, <1>2, HeapIs
  <2>3. StandsFor(h[m], g[m], t[m])
    BY <1>1 DEF Grows
  <2> HIDE DEF t, u, b, c
  <2>4. CASE g[m].type = "flat" /\ g[m].flat = t[m]
    <3>1. u[m] = t[m] /\ c[m] = {m}
      BY <2>1, <2>4 DEF TextStep, BelowStep
    <3>2. m \in b[m]
      BY <2>1 DEF BelowStep
    <3> QED
      BY <3>1, <3>2
  <2>5. CASE AsItWas(h[m], g[m])
    <3>1. /\ g[m].type = h[m].type /\ g[m].flat = h[m].flat /\ g[m].length = h[m].length
          /\ g[m].left = h[m].left /\ g[m].right = h[m].right /\ g[m].off = h[m].off
      BY <2>3, <2>5 DEF AsItWas, StandsFor
    <3>2. /\ h[m].type # "flat" => u[h[m].left] = t[h[m].left] /\ c[h[m].left] \subseteq b[h[m].left]
          /\ h[m].type = "rope" => u[h[m].right] = t[h[m].right] /\ c[h[m].right] \subseteq b[h[m].right]
      BY <2>2
    <3>3. u[m] = t[m]
      <4>1. CASE h[m].type = "flat"
        BY <2>1, <3>1, <4>1 DEF TextStep
      <4>2. CASE h[m].type = "rope"
        BY <2>1, <3>1, <3>2, <4>2 DEF TextStep
      <4>3. CASE h[m].type = "dependent"
        BY <2>1, <3>1, <3>2, <4>3 DEF TextStep
      <4> QED
        BY <2>2, <4>1, <4>2, <4>3
    <3>4. c[m] \subseteq b[m]
      <4>1. CASE h[m].type = "flat"
        BY <2>1, <3>1, <4>1 DEF BelowStep
      <4>2. CASE h[m].type = "rope"
        BY <2>1, <3>1, <3>2, <4>2 DEF BelowStep
      <4>3. CASE h[m].type = "dependent"
        BY <2>1, <3>1, <3>2, <4>3 DEF BelowStep
      <4> QED
        BY <2>2, <4>1, <4>2, <4>3
    <3> QED
      BY <3>3, <3>4
  <2> QED
    BY <2>3, <2>4, <2>5 DEF StandsFor
<1>3. 1..N \subseteq S
  <2> HIDE DEF S, N
  <2> QED
    BY <1>1, <1>2, NodeInduction
<1>4. \A m \in DOMAIN h : u[m] = t[m] /\ c[m] \subseteq b[m] /\ b[m] \subseteq DOMAIN h
  BY <1>1, <1>3, BelowInside
<1>5. \A m \in DOMAIN h : /\ g[m].length = h[m].length
                          /\ g[m].type = "flat" \/ g[m].type = h[m].type
  BY DEF Grows, StandsFor, AsItWas
<1>6. ASSUME NEW n \in DOMAIN h, Regular(h, n) PROVE Regular(g, n)
  <2>1. SUFFICES ASSUME NEW r \in Below(g)[n], g[r].type = "rope", NEW d \in Below(g)[r]
                 PROVE  g[d].type # "dependent"
    BY DEF Regular
  <2>2. r \in Below(h)[n] /\ r \in DOMAIN h
    BY <1>4
  <2>3. h[r].type = "rope"
    BY <1>5, <2>1, <2>2
  <2>4. d \in Below(h)[r] /\ d \in DOMAIN h
    BY <1>4, <2>2
  <2>5. h[d].type # "dependent"
    BY <1>6, <2>2, <2>3, <2>4 DEF Regular
  <2> QED
    BY <1>5, <2>4, <2>5
<1>7. \A n \in DOMAIN h : h[n].type = "flat" => g[n].type = "flat"
  BY <1>5
<1>8. Len(h) <= Len(g)
  BY DEF Grows
<1> QED
  BY <1>4, <1>5, <1>6, <1>7, <1>8 DEF Kept

\* What a new node must be for the heap to stay good.
Fits(g, n) ==
  /\ g[n].type = "flat" => g[n].length = Len(g[n].flat)
  /\ g[n].type = "rope" => g[n].length = g[g[n].left].length + g[g[n].right].length
  /\ g[n].type = "dependent" => /\ g[n].off + g[n].length <= g[g[n].left].length
                                /\ Regular(g, g[n].left)
  /\ g[n].hasHash => g[n].hash = TextOf(g)[n]

LEMMA GrowsGood ==
  ASSUME NEW h, NEW g, Good(h), Heap(g), Grows(h, g),
         \A n \in DOMAIN g : n \notin DOMAIN h => Fits(g, n)
  PROVE  Good(g) /\ Kept(h, g)
<1>1. Heap(h) /\ Sized(h) /\ BasesRegular(h)
  BY DEF Good
<1>2. Kept(h, g)
  BY <1>1, GrowsKeeps
<1>3. ASSUME NEW n \in DOMAIN h PROVE Fits(g, n)
  <2>1. StandsFor(h[n], g[n], TextOf(h)[n])
    BY DEF Grows
  <2>2. /\ TextOf(g)[n] = TextOf(h)[n] /\ g[n].length = h[n].length
        /\ Len(TextOf(h)[n]) = h[n].length
    BY <1>1, <1>2, TextType DEF Kept
  <2>3. g[n].hasHash => g[n].hash = TextOf(g)[n]
    BY <2>1, <2>2 DEF StandsFor
  <2>4. CASE g[n].type = "flat" /\ g[n].flat = TextOf(h)[n]
    BY <2>2, <2>3, <2>4 DEF Fits
  <2>5. CASE AsItWas(h[n], g[n])
    <3>1. /\ g[n].type = h[n].type /\ g[n].flat = h[n].flat /\ g[n].length = h[n].length
          /\ g[n].left = h[n].left /\ g[n].right = h[n].right /\ g[n].off = h[n].off
      BY <2>2, <2>5 DEF AsItWas
    <3>2. /\ h[n].type # "flat" => h[n].left \in DOMAIN h
          /\ h[n].type = "rope" => h[n].right \in DOMAIN h
      BY <1>1, HeapIs
    <3>3. /\ h[n].type # "flat" => /\ g[h[n].left].length = h[h[n].left].length
                                   /\ Regular(h, h[n].left) => Regular(g, h[n].left)
          /\ h[n].type = "rope" => g[h[n].right].length = h[h[n].right].length
      BY <1>2, <3>2 DEF Kept
    <3>4. /\ h[n].type = "flat" => h[n].length = Len(h[n].flat)
          /\ h[n].type = "rope" => h[n].length = h[h[n].left].length + h[h[n].right].length
          /\ h[n].type = "dependent" => /\ h[n].off + h[n].length <= h[h[n].left].length
                                        /\ Regular(h, h[n].left)
      BY <1>1 DEF Sized, BasesRegular
    <3> QED
      BY <2>3, <3>1, <3>3, <3>4 DEF Fits
  <2> QED
    BY <2>1, <2>4, <2>5 DEF StandsFor
<1>4. \A n \in DOMAIN g : Fits(g, n)
  BY <1>3
<1>5. Good(g)
  BY <1>4 DEF Good, Fits, Sized, BasesRegular, HashesRight
<1> QED
  BY <1>2, <1>5

-----------------------------------------------------------------------------
(***************************************************************************)
(* The steps a heap takes.                                                 *)
(***************************************************************************)
NodeFits(h, node) ==
  /\ node \in Node /\ ~node.hasHash
  /\ node.type # "flat" => node.left \in DOMAIN h
  /\ node.type = "flat" => node.length = Len(node.flat)
  /\ node.type = "rope" => /\ node.right \in DOMAIN h
                           /\ node.length = h[node.left].length + h[node.right].length
  /\ node.type = "dependent" => /\ node.off + node.length <= h[node.left].length
                                /\ Regular(h, node.left)

TextOfNode(h, node) ==
  CASE node.type = "flat" -> node.flat
    [] node.type = "rope" -> TextOf(h)[node.left] \o TextOf(h)[node.right]
    [] node.type = "dependent" ->
         SubSeq(TextOf(h)[node.left], node.off + 1, node.off + node.length)

LEMMA NodeAppended ==
  ASSUME NEW h, Good(h), NEW node, NodeFits(h, node)
  PROVE  /\ Good(Append(h, node)) /\ Kept(h, Append(h, node))
         /\ Len(Append(h, node)) = Len(h) + 1
         /\ Len(h) + 1 \in DOMAIN Append(h, node)
         /\ TextOf(Append(h, node))[Len(h) + 1] = TextOfNode(h, node)
<1> DEFINE N == Len(h)
           g == Append(h, node)
<1>1. Heap(h) /\ HashesRight(h) /\ N \in Nat /\ DOMAIN h = 1..N /\ h \in Seq(Node)
  BY HeapIs DEF Good, Heap
<1>2. node \in Node
  BY DEF NodeFits
<1>3. /\ g \in Seq(Node) /\ Len(g) = N + 1 /\ DOMAIN g = 1..(N + 1)
      /\ g[N + 1] = node /\ \A n \in DOMAIN h : g[n] = h[n]
  BY <1>1, <1>2, AppendProperties
<1> HIDE DEF g
<1>4. \A n \in DOMAIN g : n \in DOMAIN h \/ n = N + 1
  BY <1>1, <1>3
<1>5. Heap(g)
  <2>1. ASSUME NEW n \in DOMAIN g
        PROVE  /\ g[n].type # "flat" => g[n].left \in 1..(n - 1)
               /\ g[n].type = "rope" => g[n].right \in 1..(n - 1)
    <3>1. CASE n \in DOMAIN h
      BY <1>1, <1>3, <3>1, HeapIs
    <3>2. CASE n = N + 1
      <4>1. n - 1 = N
        BY <1>1, <3>2
      <4> QED
        BY <1>1, <1>3, <3>2, <4>1 DEF NodeFits
    <3> QED
      BY <1>4, <3>1, <3>2
  <2> QED
    BY <1>3, <2>1 DEF Heap
<1>6. Grows(h, g)
  <2>1. N <= Len(g)
    BY <1>1, <1>3
  <2>2. ASSUME NEW n \in DOMAIN h PROVE StandsFor(h[n], g[n], TextOf(h)[n])
    BY <1>1, <1>3 DEF StandsFor, AsItWas, HashesRight
  <2> QED
    BY <2>1, <2>2 DEF Grows
<1>7. Kept(h, g)
  BY <1>1, <1>5, <1>6, GrowsKeeps
<1>8. /\ node.type # "flat" => node.left \in DOMAIN h
      /\ node.type = "rope" => node.right \in DOMAIN h
  BY DEF NodeFits
<1>9. Fits(g, N + 1)
  <2>1. /\ node.type # "flat" => /\ g[node.left].length = h[node.left].length
                                 /\ Regular(h, node.left) => Regular(g, node.left)
        /\ node.type = "rope" => g[node.right].length = h[node.right].length
    BY <1>7, <1>8 DEF Kept
  <2> QED
    BY <1>3, <2>1 DEF Fits, NodeFits
<1>10. Good(g)
  BY <1>4, <1>5, <1>6, <1>9, GrowsGood
<1>11. TextOf(g)[N + 1] = TextOfNode(h, node)
  <2>1. N + 1 \in DOMAIN g
    BY <1>1, <1>3
  <2>2. TextOf(g)[N + 1] = TextStep(g, TextOf(g), N + 1)
    BY <1>5, <2>1, TextAt
  <2>3. /\ node.type # "flat" => TextOf(g)[node.left] = TextOf(h)[node.left]
        /\ node.type = "rope" => TextOf(g)[node.right] = TextOf(h)[node.right]
    BY <1>7, <1>8 DEF Kept
  <2> DEFINE t == TextOf(h)
             u == TextOf(g)
  <2>4. node.type \in {"flat", "rope", "dependent"}
    BY <1>2 DEF Node
  <2>5. /\ u[N + 1] = TextStep(g, u, N + 1)
        /\ node.type # "flat" => u[node.left] = t[node.left]
        /\ node.type = "rope" => u[node.right] = t[node.right]
    BY <2>2, <2>3
  <2> HIDE DEF t, u
  <2>6. u[N + 1] = CASE node.type = "flat" -> node.flat
                     [] node.type = "rope" -> t[node.left] \o t[node.right]
                     [] node.type = "dependent" ->
                          SubSeq(t[node.left], node.off + 1, node.off + node.length)
    <3>1. CASE node.type = "flat"
      BY <1>3, <2>5, <3>1 DEF TextStep
    <3>2. CASE node.type = "rope"
      BY <1>3, <2>5, <3>2 DEF TextStep
    <3>3. CASE node.type = "dependent"
      BY <1>3, <2>5, <3>3 DEF TextStep
    <3> QED
      BY <2>4, <3>1, <3>2, <3>3
  <2> QED
    BY <2>6 DEF t, u, TextOfNode
<1>12. N + 1 \in DOMAIN g
  BY <1>1, <1>3
<1> QED
  BY <1>3, <1>7, <1>10, <1>11, <1>12 DEF g

\* A heap to which a string of the given text was added.
Adds(h, g, text) ==
  /\ Good(g) /\ Kept(h, g) /\ Len(g) = Len(h) + 1
  /\ Len(g) \in DOMAIN g /\ TextOf(g)[Len(g)] = text

LEMMA FlatIs ==
  ASSUME NEW s \in Seq(Chars)
  PROVE  FlatString(s) \in Node /\ FlatString(s).type = "flat" /\ FlatString(s).flat = s
         /\ FlatString(s).length = Len(s) /\ ~FlatString(s).hasHash
<1>1. <<>> \in Seq(Chars) /\ Len(s) \in Nat
  OBVIOUS
<1> QED
  BY <1>1 DEF FlatString, Node

LEMMA FlatAppended ==
  ASSUME NEW h, Good(h), NEW s \in Seq(Chars)
  PROVE  Adds(h, Append(h, FlatString(s)), s)
<1> DEFINE node == FlatString(s)
<1>1. node \in Node /\ node.type = "flat" /\ node.flat = s /\ node.length = Len(s) /\ ~node.hasHash
  BY FlatIs
<1> HIDE DEF node
<1>2. NodeFits(h, node) /\ TextOfNode(h, node) = s
  BY <1>1 DEF NodeFits, TextOfNode
<1>3. Adds(h, Append(h, node), s)
  BY <1>2, NodeAppended DEF Adds
<1> QED
  BY <1>3 DEF node

LEMMA ConcatAppended ==
  ASSUME NEW h, Good(h), NEW l \in DOMAIN h, NEW r \in DOMAIN h
  PROVE  Adds(h, StringConcat(h, l, r), TextOf(h)[l] \o TextOf(h)[r])
<1> DEFINE len == h[l].length + h[r].length
           node == [FlatString(<<>>) EXCEPT !.type = "rope", !.left = l, !.right = r,
                                            !.length = len]
<1>1. Heap(h) /\ l \in Nat /\ r \in Nat /\ h[l] \in Node /\ h[r] \in Node
  BY HeapIs DEF Good
<1>2. h[l].length \in Nat /\ h[r].length \in Nat /\ len \in Nat
  BY <1>1 DEF Node
<1>3. <<>> \in Seq(Chars)
  OBVIOUS
<1>4. /\ node \in Node /\ node.type = "rope" /\ node.left = l /\ node.right = r
      /\ node.length = len /\ ~node.hasHash
  <2> HIDE DEF len
  <2> QED
    BY <1>1, <1>2, <1>3 DEF FlatString, Node
<1>5. StringConcat(h, l, r) = Append(h, node)
  BY DEF StringConcat
<1> HIDE DEF node
<1>6. NodeFits(h, node) /\ TextOfNode(h, node) = TextOf(h)[l] \o TextOf(h)[r]
  BY <1>4 DEF NodeFits, TextOfNode
<1> QED
  BY <1>5, <1>6, NodeAppended DEF Adds

LEMMA SubAppended ==
  ASSUME NEW h, Good(h), NEW s \in DOMAIN h, Regular(h, s),
         NEW off \in Nat, NEW len \in Nat, off + len <= h[s].length
  PROVE  Adds(h, NewSubstring(h, s, off, len), SubSeq(TextOf(h)[s], off + 1, off + len))
<1> DEFINE node == [FlatString(<<>>) EXCEPT !.type = "dependent", !.left = s,
                                            !.off = off, !.length = len]
<1>1. Heap(h) /\ s \in Nat
  BY HeapIs DEF Good
<1>2. <<>> \in Seq(Chars)
  OBVIOUS
<1>3. /\ node \in Node /\ node.type = "dependent" /\ node.left = s /\ node.off = off
      /\ node.length = len /\ ~node.hasHash
  BY <1>1, <1>2 DEF FlatString, Node
<1>4. NewSubstring(h, s, off, len) = Append(h, node)
  BY DEF NewSubstring
<1> HIDE DEF node
<1>5. NodeFits(h, node) /\ TextOfNode(h, node) = SubSeq(TextOf(h)[s], off + 1, off + len)
  BY <1>3 DEF NodeFits, TextOfNode
<1> QED
  BY <1>4, <1>5, NodeAppended DEF Adds

\* The heap with node n replaced, by one that stands for the same text.
LEMMA NodeReplaced ==
  ASSUME NEW h, Good(h), NEW n \in DOMAIN h, NEW node \in Node,
         StandsFor(h[n], node, TextOf(h)[n])
  PROVE  /\ Good([h EXCEPT ![n] = node]) /\ Kept(h, [h EXCEPT ![n] = node])
         /\ Len([h EXCEPT ![n] = node]) = Len(h) /\ [h EXCEPT ![n] = node][n] = node
<1> DEFINE g == [h EXCEPT ![n] = node]
<1>1. Heap(h) /\ HashesRight(h) /\ h \in Seq(Node) /\ DOMAIN h = 1..Len(h) /\ Len(h) \in Nat
  BY HeapIs DEF Good, Heap
<1>2. /\ g \in Seq(Node) /\ Len(g) = Len(h) /\ DOMAIN g = DOMAIN h
      /\ g[n] = node /\ \A m \in DOMAIN h : m # n => g[m] = h[m]
  BY <1>1, ExceptSeq
<1> HIDE DEF g
<1>3. Heap(g)
  <2>1. ASSUME NEW m \in DOMAIN g
        PROVE  /\ g[m].type # "flat" => g[m].left \in 1..(m - 1)
               /\ g[m].type = "rope" => g[m].right \in 1..(m - 1)
    <3>1. CASE m # n
      BY <1>1, <1>2, <3>1 DEF Heap
    <3>2. CASE m = n
      BY <1>1, <1>2, <3>2 DEF Heap, StandsFor, AsItWas
    <3> QED
      BY <3>1, <3>2
  <2> QED
    BY <1>2, <2>1 DEF Heap
<1>4. Grows(h, g)
  <2>1. ASSUME NEW m \in DOMAIN h PROVE StandsFor(h[m], g[m], TextOf(h)[m])
    <3>1. CASE m # n
      BY <1>1, <1>2, <3>1 DEF StandsFor, AsItWas, HashesRight
    <3>2. CASE m = n
      BY <1>2, <3>2
    <3> QED
      BY <3>1, <3>2
  <2> QED
    BY <1>1, <1>2, <2>1 DEF Grows
<1>5. Good(g) /\ Kept(h, g)
  BY <1>2, <1>3, <1>4, GrowsGood
<1> QED
  BY <1>2, <1>5 DEF g

\* A flattened string has its text in its buffer.
Flat(h, n) == h[n].type = "flat" /\ h[n].flat = TextOf(h)[n]

LEMMA FlatHolds ==
  ASSUME NEW h, Heap(h), NEW n \in DOMAIN h, h[n].type = "flat"
  PROVE  Flat(h, n)
<1>1. TextOf(h)[n] = TextStep(h, TextOf(h), n)
  BY TextAt
<1> DEFINE t == TextOf(h)
<1> HIDE DEF t
<1>2. t[n] = TextStep(h, t, n)
  BY <1>1 DEF t
<1>3. t[n] = h[n].flat
  BY <1>2 DEF TextStep
<1> QED
  BY <1>3 DEF t, Flat

LEMMA FlattenKeeps ==
  ASSUME NEW h, Good(h), NEW n \in DOMAIN h
  PROVE  /\ Good(PrimFlatten(h, n)) /\ Kept(h, PrimFlatten(h, n))
         /\ Len(PrimFlatten(h, n)) = Len(h) /\ Flat(PrimFlatten(h, n), n)
<1> DEFINE s == TextOf(h)[n]
           node == [h[n] EXCEPT !.type = "flat", !.left = 0, !.right = 0, !.off = 0, !.flat = s]
           g == [h EXCEPT ![n] = node]
<1>1. /\ Heap(h) /\ Sized(h) /\ BasesRegular(h) /\ HashesRight(h) /\ h[n] \in Node
      /\ h[n].type \in {"flat", "rope", "dependent"}
  BY HeapIs DEF Good
<1>2. CASE h[n].type = "flat"
  <2>1. PrimFlatten(h, n) = h
    BY <1>2 DEF PrimFlatten
  <2> QED
    BY <1>1, <1>2, <2>1, KeptSame, FlatHolds
<1>3. CASE h[n].type # "flat"
  <2>1. PrimFlatten(h, n) = Flattened(h, n, s)
    <3>1. CASE h[n].type = "dependent"
      <4>1. FlattenDep(h)[n][Span(0, h[n].length)].out = s
        BY <1>1, <3>1, CopyWhole DEF BasesRegular
      <4> QED
        BY <3>1, <4>1 DEF PrimFlatten
    <3>2. CASE h[n].type = "rope"
      <4>1. FlattenRope(h)[n] = s
        BY <1>1, WalksAgree
      <4> QED
        BY <3>2, <4>1 DEF PrimFlatten
    <3> QED
      BY <1>1, <1>3, <3>1, <3>2
  <2>2. s \in Seq(Chars)
    BY <1>1, TextType
  <2>3. Flattened(h, n, s) = g
    <3> HIDE DEF s
    <3>1. /\ Flattened(h, n, s)[n] = node /\ DOMAIN Flattened(h, n, s) = DOMAIN h
          /\ \A m \in DOMAIN h : m # n => Flattened(h, n, s)[m] = h[m]
      BY <1>1 DEF Flattened, Node
    <3> QED
      BY <1>1 DEF Flattened, Node
  <2>4. /\ node \in Node /\ node.type = "flat" /\ node.flat = s /\ node.length = h[n].length
        /\ node.hasHash = h[n].hasHash /\ node.hash = h[n].hash
    <3> HIDE DEF s
    <3> QED
      BY <1>1, <2>2 DEF Node
  <2> HIDE DEF node
  <2>5. StandsFor(h[n], node, TextOf(h)[n])
    BY <1>1, <2>4 DEF StandsFor, HashesRight
  <2>6. Good(g) /\ Kept(h, g) /\ Len(g) = Len(h) /\ g[n] = node
    BY <2>4, <2>5, NodeReplaced
  <2> HIDE DEF g
  <2>7. Flat(g, n)
    BY <2>4, <2>6 DEF Flat, Kept
  <2> QED
    BY <2>1, <2>3, <2>6, <2>7
<1> QED
  BY <1>2, <1>3

LEMMA HashKeeps ==
  ASSUME NEW h, Good(h), NEW n \in DOMAIN h
  PROVE  /\ Good(PrimHash(h, n)) /\ Kept(h, PrimHash(h, n))
         /\ Len(PrimHash(h, n)) = Len(h) /\ PrimHash(h, n)[n].hash = TextOf(h)[n]
<1> DEFINE s == TextOf(h)[n]
           node == [h[n] EXCEPT !.hash = s, !.hasHash = TRUE]
           g == [h EXCEPT ![n] = node]
<1>1. Heap(h) /\ Sized(h) /\ BasesRegular(h) /\ HashesRight(h) /\ h[n] \in Node
  BY HeapIs DEF Good
<1>2. CASE h[n].hasHash
  <2>1. PrimHash(h, n) = h
    BY <1>2 DEF PrimHash
  <2> QED
    BY <1>1, <1>2, <2>1, KeptSame DEF HashesRight
<1>3. CASE ~h[n].hasHash
  <2>1. HashInner(h)[n] = s
    BY <1>1, WalksAgree
  <2>2. PrimHash(h, n) = [h EXCEPT ![n].hash = s, ![n].hasHash = TRUE]
    BY <1>3, <2>1 DEF PrimHash
  <2>3. PrimHash(h, n) = g
    <3> HIDE DEF s
    <3> QED
      BY <1>1, <2>2 DEF Node
  <2>4. s \in Seq(Chars)
    BY <1>1, TextType
  <2>5. /\ node \in Node /\ node.hash = s /\ node.length = h[n].length /\ AsItWas(h[n], node)
    <3> HIDE DEF s
    <3> QED
      BY <1>1, <2>4 DEF Node, AsItWas
  <2> HIDE DEF node
  <2>6. StandsFor(h[n], node, TextOf(h)[n])
    BY <2>5 DEF StandsFor
  <2>7. Good(g) /\ Kept(h, g) /\ Len(g) = Len(h) /\ g[n] = node
    BY <2>5, <2>6, NodeReplaced
  <2> QED
    BY <2>3, <2>5, <2>7
<1> QED
  BY <1>2, <1>3

-----------------------------------------------------------------------------
(***************************************************************************)
(* The methods.                                                            *)
(***************************************************************************)
Steps(h, g) == Good(g) /\ Kept(h, g)

AnswerOf(r) ==
  [num |-> r.num,
   texts |-> IF r.made = NoString THEN r.texts ELSE <<TextOf(r.heap)[r.made]>>]

\* A method that leaves the texts as they were and answers as it should.
Gives(h, r, num, texts) ==
  Steps(h, r.heap) /\ AnswerOf(r) = [num |-> num, texts |-> texts]

LEMMA StepsSame ==
  ASSUME NEW h, Good(h)
  PROVE  Steps(h, h)
BY KeptSame DEF Steps, Good

LEMMA StepsTwice ==
  ASSUME NEW h, NEW f, NEW g, Good(h), Steps(h, f), Steps(f, g)
  PROVE  Steps(h, g)
BY KeptTwice DEF Steps, Good

LEMMA GivesNumber ==
  ASSUME NEW h, NEW f, NEW n, Steps(h, f)
  PROVE  Gives(h, Num(f, n), n, <<>>)
BY DEF Gives, AnswerOf, Num, NoString

LEMMA GivesTexts ==
  ASSUME NEW h, NEW f, NEW list, Steps(h, f)
  PROVE  Gives(h, Texts(f, list), Undef, list)
BY DEF Gives, AnswerOf, Texts, NoString

LEMMA GivesSame ==
  ASSUME NEW h, NEW f, Good(h), Steps(h, f), NEW n \in DOMAIN h
  PROVE  Gives(h, Same(f, n), Undef, <<TextOf(h)[n]>>)
<1>1. n # 0
  BY HeapIs DEF Good
<1>2. TextOf(f)[n] = TextOf(h)[n]
  BY DEF Steps, Kept
<1> DEFINE u == TextOf(f)
<1> HIDE DEF u
<1>3. u = TextOf(f)
  BY DEF u
<1>4. AnswerOf(Same(f, n)) = [num |-> Undef, texts |-> <<u[n]>>]
  BY <1>1, <1>3 DEF AnswerOf, Same, NoString
<1>5. Same(f, n).heap = f
  BY DEF Same
<1> QED
  BY <1>2, <1>3, <1>4, <1>5 DEF Gives

LEMMA GivesNew ==
  ASSUME NEW h, NEW f, NEW g, NEW text, Good(h), Steps(h, f), Adds(f, g, text)
  PROVE  Gives(h, Made(g), Undef, <<text>>)
<1>1. Good(f) /\ Good(g) /\ Kept(f, g) /\ Len(g) \in DOMAIN g /\ TextOf(g)[Len(g)] = text
  BY DEF Steps, Adds
<1>2. Steps(h, g) /\ Steps(g, g)
  BY <1>1, StepsTwice, StepsSame DEF Steps
<1>3. Gives(g, Same(g, Len(g)), Undef, <<TextOf(g)[Len(g)]>>)
  BY <1>1, <1>2, GivesSame
<1>4. Same(g, Len(g)).heap = g
  BY DEF Same
<1> QED
  BY <1>1, <1>2, <1>3, <1>4 DEF Gives, Made

\* Two strings flattened.
LEMMA BothFlat ==
  ASSUME NEW h, Good(h), NEW m \in DOMAIN h, NEW n \in DOMAIN h
  PROVE  /\ Steps(h, Both(h, m, n)) /\ Len(Both(h, m, n)) = Len(h)
         /\ DOMAIN Both(h, m, n) = DOMAIN h
         /\ Both(h, m, n)[m].flat = TextOf(h)[m]
         /\ Both(h, m, n)[n].flat = TextOf(h)[n]
         /\ Both(h, m, n)[m].length = h[m].length
         /\ Both(h, m, n)[n].length = h[n].length
<1> DEFINE f == PrimFlatten(h, m)
           g == PrimFlatten(f, n)
<1>1. Good(f) /\ Kept(h, f) /\ Len(f) = Len(h) /\ Flat(f, m)
  BY FlattenKeeps
<1> HIDE DEF f
<1>2. DOMAIN f = DOMAIN h
  BY <1>1, HeapIs DEF Good
<1>3. Good(g) /\ Kept(f, g) /\ Len(g) = Len(f) /\ Flat(g, n)
  BY <1>1, <1>2, FlattenKeeps
<1> HIDE DEF g
<1>4. DOMAIN g = DOMAIN f
  BY <1>1, <1>3, HeapIs DEF Good
<1>5. Flat(g, m)
  <2>1. g[m].type = "flat"
    BY <1>1, <1>2, <1>3 DEF Flat, Kept
  <2> QED
    BY <1>2, <1>3, <1>4, <2>1, FlatHolds DEF Good
<1>6. /\ TextOf(g)[m] = TextOf(h)[m] /\ TextOf(g)[n] = TextOf(h)[n]
      /\ g[m].length = h[m].length /\ g[n].length = h[n].length
  BY <1>1, <1>2, <1>3 DEF Kept
<1>7. Steps(h, g)
  BY <1>1, <1>3, StepsTwice DEF Steps
<1>8. g = Both(h, m, n)
  BY DEF g, f, Both
<1> QED
  BY <1>1, <1>2, <1>3, <1>4, <1>5, <1>6, <1>7, <1>8 DEF Flat

\* The texts of the strings of a call.
LEMMA TextIs ==
  ASSUME NEW h, Good(h), NEW n \in DOMAIN h
  PROVE  /\ TextOf(h)[n] \in Seq(Chars) /\ Len(TextOf(h)[n]) = h[n].length
         /\ h[n].length \in Nat
<1>1. TextOf(h)[n] \in Seq(Chars) /\ Len(TextOf(h)[n]) = h[n].length
  BY TextType DEF Good
<1> QED
  BY <1>1, LenProperties

\* One character of a string.
LEMMA CharOfText ==
  ASSUME NEW h, Good(h), NEW n \in DOMAIN h, NEW i \in Int, i >= 0, i < h[n].length
  PROVE  /\ StringAt(h)[n][i] = TextOf(h)[n][i + 1] /\ StringAt(h)[n][i] \in Chars
         /\ CharText(TextOf(h)[n], i) = <<StringAt(h)[n][i]>>
         /\ HasChar(TextOf(h)[n], i)
<1> DEFINE t == TextOf(h)[n]
<1>1. t \in Seq(Chars) /\ Len(t) = h[n].length /\ i \in Nat
  BY TextIs
<1>2. StringAt(h)[n][i] = t[i + 1]
  BY <1>1, LookUp DEF Good
<1> HIDE DEF t
<1>3. i + 1 \in 1..Len(t) /\ i \in 0..(Len(t) - 1)
  BY <1>1
<1>4. t[i + 1] \in Chars
  BY <1>1, <1>3, ElementOfSeq
<1>5. CharText(t, i) = <<t[i + 1]>> /\ HasChar(t, i)
  BY <1>3 DEF CharText, HasChar
<1> QED
  BY <1>2, <1>4, <1>5 DEF t

LEMMA NoCharOfText ==
  ASSUME NEW h, Good(h), NEW n \in DOMAIN h, NEW i \in Int, i < 0 \/ i >= h[n].length
  PROVE  CharText(TextOf(h)[n], i) = <<>> /\ ~HasChar(TextOf(h)[n], i)
<1> DEFINE t == TextOf(h)[n]
<1>1. t \in Seq(Chars) /\ Len(t) = h[n].length /\ h[n].length \in Nat
  BY TextIs
<1> HIDE DEF t
<1>2. i \notin 0..(Len(t) - 1)
  BY <1>1
<1>3. CharText(t, i) = <<>> /\ ~HasChar(t, i)
  BY <1>2 DEF CharText, HasChar
<1> QED
  BY <1>3 DEF t

LEMMA IntegerIs ==
  ASSUME NEW a \in Int
  PROVE  ToInteger(a) \in Int
BY DEF ToInteger

LEMMA CharAtGives ==
  ASSUME NEW h, Good(h), NEW c, c.this \in DOMAIN h, c.a \in Int
  PROVE  Gives(h, CharAt(h, c), Undef, <<CharText(TextOf(h)[c.this], ToInteger(c.a))>>)
<1> DEFINE n == c.this
           i == ToInteger(c.a)
<1>1. i \in Int /\ Steps(h, h)
  BY IntegerIs, StepsSame
<1> HIDE DEF i
<1>2. CASE i < 0 \/ i >= h[n].length
  <2>1. CharAt(h, c) = Texts(h, <<<<>>>>)
    BY <1>2 DEF CharAt, i, EmptyAtom
  <2> QED
    BY <1>1, <1>2, <2>1, NoCharOfText, GivesTexts DEF i
<1>3. CASE ~(i < 0 \/ i >= h[n].length)
  <2> DEFINE s == <<StringAt(h)[n][i]>>
  <2>1. CharAt(h, c) = NewString(h, s)
    BY <1>3 DEF CharAt, i
  <2>2. i >= 0 /\ i < h[n].length
    BY <1>1, <1>3, TextIs
  <2>3. StringAt(h)[n][i] \in Chars /\ CharText(TextOf(h)[n], i) = s
    BY <1>1, <2>2, CharOfText
  <2>4. s \in Seq(Chars)
    BY <2>3
  <2> HIDE DEF s
  <2>5. Gives(h, Made(Append(h, FlatString(s))), Undef, <<s>>)
    BY <1>1, <2>4, FlatAppended, GivesNew
  <2> QED
    BY <2>1, <2>3, <2>5 DEF NewString, i
<1> QED
  BY <1>2, <1>3

LEMMA CharCodeAtGives ==
  ASSUME NEW h, Good(h), NEW c, c.this \in DOMAIN h, c.a \in Int
  PROVE  IF HasChar(TextOf(h)[c.this], ToInteger(c.a))
         THEN Gives(h, CharCodeAt(h, c), Undef, <<CharText(TextOf(h)[c.this], ToInteger(c.a))>>)
         ELSE Gives(h, CharCodeAt(h, c), NaN, <<>>)
<1> DEFINE n == c.this
           i == ToInteger(c.a)
<1>1. i \in Int /\ Steps(h, h)
  BY IntegerIs, StepsSame
<1> HIDE DEF i
<1>2. CASE i < 0 \/ i >= h[n].length
  <2>1. CharCodeAt(h, c) = Num(h, NaN)
    BY <1>2 DEF CharCodeAt, i
  <2>2. ~HasChar(TextOf(h)[n], i)
    BY <1>1, <1>2, NoCharOfText
  <2> QED
    BY <1>1, <2>1, <2>2, GivesNumber DEF i
<1>3. CASE ~(i < 0 \/ i >= h[n].length)
  <2>1. CharCodeAt(h, c) = Texts(h, <<<<StringAt(h)[n][i]>>>>)
    BY <1>3 DEF CharCodeAt, i
  <2>2. i >= 0 /\ i < h[n].length
    BY <1>1, <1>3, TextIs
  <2>3. /\ CharText(TextOf(h)[n], i) = <<StringAt(h)[n][i]>>
        /\ HasChar(TextOf(h)[n], i)
    BY <1>1, <2>2, CharOfText
  <2> QED
    BY <1>1, <2>1, <2>3, GivesTexts DEF i
<1> QED
  BY <1>2, <1>3

LEMMA CodePointAtGives ==
  ASSUME NEW h, Good(h), NEW c, c.this \in DOMAIN h, c.a \in Int
  PROVE  IF HasChar(TextOf(h)[c.this], ToInteger(c.a))
         THEN Gives(h, CodePointAt(h, c), Undef, <<CharText(TextOf(h)[c.this], ToInteger(c.a))>>)
         ELSE Gives(h, CodePointAt(h, c), Undef, <<>>)
<1> DEFINE n == c.this
           i == ToInteger(c.a)
<1>1. i \in Int /\ Steps(h, h)
  BY IntegerIs, StepsSame
<1> HIDE DEF i
<1>2. CASE i < 0 \/ i >= h[n].length
  <2>1. CodePointAt(h, c) = Texts(h, <<>>)
    BY <1>2 DEF CodePointAt, Undefined, i
  <2>2. ~HasChar(TextOf(h)[n], i)
    BY <1>1, <1>2, NoCharOfText
  <2> QED
    BY <1>1, <2>1, <2>2, GivesTexts DEF i
<1>3. CASE ~(i < 0 \/ i >= h[n].length)
  <2>1. CodePointAt(h, c) = CharCodeAt(h, c)
    BY <1>3 DEF CodePointAt, CharCodeAt, i
  <2>2. i >= 0 /\ i < h[n].length
    BY <1>1, <1>3, TextIs
  <2>3. HasChar(TextOf(h)[n], i)
    BY <1>1, <2>2, CharOfText
  <2> QED
    BY <2>1, <2>3, CharCodeAtGives DEF i
<1> QED
  BY <1>2, <1>3

LEMMA StringGetGives ==
  ASSUME NEW h, Good(h), NEW c, c.this \in DOMAIN h, c.a \in Int, c.a # Undef
  PROVE  IF HasChar(TextOf(h)[c.this], ToInteger(c.a))
         THEN Gives(h, StringGet(h, c), Undef, <<CharText(TextOf(h)[c.this], ToInteger(c.a))>>)
         ELSE Gives(h, StringGet(h, c), Undef, <<>>)
<1> DEFINE n == c.this
           i == ToInteger(c.a)
<1>1. i \in Int /\ Steps(h, h) /\ i = c.a
  BY IntegerIs, StepsSame DEF ToInteger
<1> HIDE DEF i
<1>2. CASE i < 0 \/ i >= h[n].length
  <2>1. StringGet(h, c) = Texts(h, <<>>)
    BY <1>1, <1>2 DEF StringGet, Undefined
  <2>2. ~HasChar(TextOf(h)[n], i)
    BY <1>1, <1>2, NoCharOfText
  <2> QED
    BY <1>1, <2>1, <2>2, GivesTexts DEF i
<1>3. CASE ~(i < 0 \/ i >= h[n].length)
  <2>1. StringGet(h, c) = CharAt(h, c)
    BY <1>1, <1>3 DEF StringGet, CharAt, i
  <2>2. i >= 0 /\ i < h[n].length
    BY <1>1, <1>3, TextIs
  <2>3. HasChar(TextOf(h)[n], i)
    BY <1>1, <2>2, CharOfText
  <2> QED
    BY <2>1, <2>3, CharAtGives DEF i
<1> QED
  BY <1>2, <1>3

LEMMA FromCodePointGives ==
  ASSUME NEW h, Good(h), NEW c, c.this \in DOMAIN h
  PROVE  Gives(h, FromCodePoint(h, c), Undef, <<TextOf(h)[c.this]>>)
<1> DEFINE t == TextOf(h)[c.this]
<1>1. t \in Seq(Chars) /\ Len(t) = h[c.this].length /\ Steps(h, h)
  BY TextIs, StepsSame
<1>2. FromCodePoint(h, c) = IF h[c.this].length = 0 THEN Texts(h, <<<<>>>>) ELSE NewString(h, t)
  BY DEF FromCodePoint, EmptyAtom
<1> HIDE DEF t
<1>3. CASE Len(t) = 0
  <2>1. t = <<>>
    BY <1>1, <1>3
  <2> QED
    BY <1>1, <1>2, <1>3, <2>1, GivesTexts DEF t
<1>4. CASE Len(t) # 0
  <2>1. Gives(h, Made(Append(h, FlatString(t))), Undef, <<t>>)
    BY <1>1, FlatAppended, GivesNew
  <2> QED
    BY <1>1, <1>2, <1>4, <2>1 DEF NewString, t
<1> QED
  BY <1>3, <1>4

LEMMA CaseMaps ==
  /\ DOMAIN Upper = Chars /\ \A x \in Chars : Upper[x] \in Chars
  /\ DOMAIN Lower = Chars /\ \A x \in Chars : Lower[x] \in Chars
BY StringsAssumption DEF Upper, Lower

LEMMA ChangeCaseGives ==
  ASSUME NEW h, Good(h), NEW c, c.this \in DOMAIN h, NEW map, \A x \in Chars : map[x] \in Chars
  PROVE  Gives(h, ChangeCase(h, c, map), Undef, <<Mapped(TextOf(h)[c.this], map)>>)
<1> DEFINE t == TextOf(h)[c.this]
           f == PrimFlatten(h, c.this)
           s == Mapped(t, map)
<1>1. t \in Seq(Chars)
  BY TextIs
<1>2. Good(f) /\ Kept(h, f) /\ Flat(f, c.this)
  BY FlattenKeeps
<1>3. f[c.this].flat = t
  BY <1>2 DEF Flat, Kept
<1>4. ChangeCase(h, c, map) = NewString(f, s)
  BY <1>3 DEF ChangeCase
<1> HIDE DEF t, f
<1>5. s \in Seq(Chars)
  <2> DEFINE m == Len(t)
  <2>1. m \in Nat /\ \A i \in 1..m : map[t[i]] \in Chars
    BY <1>1, ElementOfSeq, LenProperties
  <2>2. s = [i \in 1..m |-> map[t[i]]]
    BY DEF Mapped
  <2> HIDE DEF m, s
  <2> QED
    BY <2>1, <2>2
<1> HIDE DEF s
<1>6. Steps(h, f)
  BY <1>2 DEF Steps
<1>7. Adds(f, Append(f, FlatString(s)), s)
  BY <1>2, <1>5, FlatAppended
<1>8. Gives(h, Made(Append(f, FlatString(s))), Undef, <<s>>)
  BY <1>6, <1>7, GivesNew
<1> QED
  BY <1>4, <1>8 DEF NewString, s, t

-----------------------------------------------------------------------------
(***************************************************************************)
(* Substrings.  The limits of the code are those of the standard.          *)
(***************************************************************************)
LEMMA NewSubstringGives ==
  ASSUME NEW h, Good(h), NEW n \in DOMAIN h, Regular(h, n),
         NEW from \in Nat, NEW to \in Nat, from <= to, to <= h[n].length
  PROVE  Gives(h, Made(NewSubstring(h, n, from, to - from)), Undef,
               <<Slice(TextOf(h)[n], from, to)>>)
<1> DEFINE len == to - from
<1>1. len \in Nat /\ from + len = to
  OBVIOUS
<1> HIDE DEF len
<1>2. from + len <= h[n].length
  BY <1>1
<1>3. Adds(h, NewSubstring(h, n, from, len), SubSeq(TextOf(h)[n], from + 1, from + len))
  BY <1>1, <1>2, SubAppended
<1>4. Gives(h, Made(NewSubstring(h, n, from, len)), Undef,
            <<SubSeq(TextOf(h)[n], from + 1, from + len)>>)
  BY <1>3, StepsSame, GivesNew
<1>5. SubSeq(TextOf(h)[n], from + 1, from + len) = Slice(TextOf(h)[n], from, to)
  BY <1>1 DEF Slice
<1> QED
  BY <1>4, <1>5 DEF len

LEMMA SubstringGives ==
  ASSUME NEW h, Good(h), NEW c, c.this \in DOMAIN h, Regular(h, c.this), c.a \in Int, c.b \in Int
  PROVE  Gives(h, Substring(h, c), Undef, <<SubstringText(TextOf(h)[c.this], c.a, c.b)>>)
<1> DEFINE n == c.this
           t == TextOf(h)[n]
           w == h[n].length
           from == Clamp(Or(c.a, 0), 0, w)
           to == Clamp(Or(c.b, w), 0, w)
           low == Least(from, to)
           high == Most(from, to)
<1>1. Len(t) = w /\ w \in Nat
  BY TextIs
<1>2. /\ Least(Most(ToInteger(c.a), 0), w) = from
      /\ Least(Most(IF c.b = Undef THEN w ELSE c.b, 0), w) = to
  <2> HIDE DEF w
  <2> QED
    BY <1>1 DEF Least, Most, ToInteger, Clamp, Or
<1>3. Substring(h, c) = Made(NewSubstring(h, n, low, high - low))
  BY <1>2 DEF Substring
<1>4. from \in Nat /\ to \in Nat /\ from <= w /\ to <= w
  <2> HIDE DEF w
  <2> QED
    BY <1>1 DEF Clamp, Or
<1>5. SubstringText(t, c.a, c.b) = IF from < to THEN Slice(t, from, to) ELSE Slice(t, to, from)
  BY <1>1 DEF SubstringText
<1> HIDE DEF from, to, w, t
<1>6. low \in Nat /\ high \in Nat /\ low <= high /\ high <= w
  BY <1>1, <1>4 DEF Least, Most
<1>7. SubstringText(t, c.a, c.b) = Slice(t, low, high)
  BY <1>4, <1>5 DEF Least, Most
<1> HIDE DEF low, high
<1>8. Gives(h, Made(NewSubstring(h, n, low, high - low)), Undef, <<Slice(TextOf(h)[n], low, high)>>)
  BY <1>6, NewSubstringGives DEF w
<1> QED
  BY <1>3, <1>7, <1>8 DEF t

LEMMA SliceEmpty ==
  ASSUME NEW T, NEW t \in Seq(T), NEW i \in Nat, NEW j \in Nat, j <= i
  PROVE  Slice(t, i, j) = <<>>
BY DEF Slice

LEMMA FromEndIs ==
  ASSUME NEW T, NEW t \in Seq(T), NEW i \in Int
  PROVE  FromEnd(t, i) \in Nat /\ FromEnd(t, i) <= Len(t)
<1> DEFINE w == Len(t)
<1>1. w \in Nat
  BY LenProperties
<1> HIDE DEF w
<1>2. \A k \in Int : Clamp(k, 0, w) \in Nat /\ Clamp(k, 0, w) <= w
  BY <1>1 DEF Clamp
<1>3. FromEnd(t, i) = IF i < 0 THEN Clamp(w + i, 0, w) ELSE Clamp(i, 0, w)
  BY DEF FromEnd, w
<1> QED
  BY <1>1, <1>2, <1>3 DEF w

LEMMA StringSliceGives ==
  ASSUME NEW h, Good(h), NEW c, c.this \in DOMAIN h, Regular(h, c.this), c.a \in Int, c.b \in Int
  PROVE  Gives(h, StringSlice(h, c), Undef, <<SliceText(TextOf(h)[c.this], c.a, c.b)>>)
<1> DEFINE n == c.this
           t == TextOf(h)[n]
           w == h[n].length
           from == FromEnd(t, Or(c.a, 0))
           to == FromEnd(t, Or(c.b, w))
           high == Most(from, to)
<1>1. Len(t) = w /\ w \in Nat /\ t \in Seq(Chars)
  BY TextIs
<1> HIDE DEF w, t
<1>2. /\ (IF ToInteger(c.a) < 0 THEN Most(w + ToInteger(c.a), 0) ELSE Least(ToInteger(c.a), w)) = from
      /\ (IF (IF c.b = Undef THEN w ELSE c.b) < 0 THEN Most(w + (IF c.b = Undef THEN w ELSE c.b), 0)
          ELSE Least(IF c.b = Undef THEN w ELSE c.b, w)) = to
  BY <1>1 DEF Least, Most, ToInteger, Clamp, Or, FromEnd
<1>3. from \in Nat /\ to \in Nat /\ from <= w /\ to <= w
  <2>1. Or(c.a, 0) \in Int /\ Or(c.b, w) \in Int
    BY <1>1 DEF Or
  <2> QED
    BY <1>1, <2>1, FromEndIs
<1>4. SliceText(t, c.a, c.b) = Slice(t, from, to)
  BY <1>1 DEF SliceText
<1>5. StringSlice(h, c) = Made(NewSubstring(h, n, from, Most(to - from, 0)))
  BY <1>2 DEF StringSlice, w
<1> HIDE DEF from, to
<1>6. high \in Nat /\ from <= high /\ high <= w /\ Most(to - from, 0) = high - from
  BY <1>3 DEF Most
<1>7. Slice(t, from, to) = Slice(t, from, high)
  <2>1. CASE from <= to
    <3>1. high = to
      BY <1>3, <2>1 DEF Most
    <3> QED
      BY <3>1
  <2>2. CASE to < from
    <3>1. high = from /\ to <= from /\ from <= from
      BY <1>3, <2>2 DEF Most
    <3> HIDE DEF high
    <3> QED
      BY <1>1, <1>3, <3>1, SliceEmpty
  <2> QED
    BY <1>3, <2>1, <2>2
<1> HIDE DEF high
<1>8. Gives(h, Made(NewSubstring(h, n, from, high - from)), Undef, <<Slice(TextOf(h)[n], from, high)>>)
  BY <1>3, <1>6, NewSubstringGives DEF w
<1> QED
  BY <1>4, <1>5, <1>6, <1>7, <1>8 DEF t

LEMMA SubstrGives ==
  ASSUME NEW h, Good(h), NEW c, c.this \in DOMAIN h, Regular(h, c.this), c.a \in Int, c.b \in Int
  PROVE  Gives(h, Substr(h, c), Undef, <<SubstrText(TextOf(h)[c.this], c.a, c.b)>>)
<1> DEFINE n == c.this
           t == TextOf(h)[n]
           w == h[n].length
           start == IF ToInteger(c.a) >= 0 THEN ToInteger(c.a) ELSE Most(w + c.a, 0)
           len == Least(Most(c.b, 0), w - start)
           from == FromEnd(t, Or(c.a, 0))
           to == Clamp(from + c.b, from, w)
<1>1. Len(t) = w /\ w \in Nat /\ t \in Seq(Chars)
  BY TextIs
<1> HIDE DEF w, t
<1>2. SubstrText(t, c.a, c.b) = Slice(t, from, to)
  BY <1>1 DEF SubstrText
<1>3. Substr(h, c) = IF len <= 0 THEN Texts(h, <<<<>>>>)
                     ELSE Made(NewSubstring(h, n, start, len))
  BY DEF Substr, w, EmptyAtom
<1>4. start \in Nat /\ from \in Nat /\ from <= w /\ (start <= w => from = start) /\ (start > w => from = w)
  BY <1>1 DEF Most, ToInteger, Clamp, Or, FromEnd
<1> HIDE DEF start, from
<1>5. CASE len <= 0
  <2>1. to \in Nat /\ to <= from
    BY <1>1, <1>4, <1>5 DEF Clamp, Least, Most
  <2>2. Slice(t, from, to) = <<>>
    <3> HIDE DEF to
    <3> QED
      BY <1>1, <1>4, <2>1, SliceEmpty
  <2> QED
    BY <1>2, <1>3, <1>5, <2>2, StepsSame, GivesTexts DEF t
<1>6. CASE len > 0
  <2>1. from = start /\ to \in Nat /\ from <= to /\ to <= w /\ len = to - from
    BY <1>1, <1>4, <1>6 DEF Clamp, Least, Most
  <2>2. ~(len <= 0)
    BY <1>1, <1>4, <1>6 DEF Least, Most
  <2> HIDE DEF len, to
  <2>3. Gives(h, Made(NewSubstring(h, n, from, to - from)), Undef, <<Slice(TextOf(h)[n], from, to)>>)
    BY <1>4, <2>1, NewSubstringGives DEF w
  <2> QED
    BY <1>2, <1>3, <2>1, <2>2, <2>3 DEF t
<1>7. len \in Int
  BY <1>1, <1>4 DEF Least, Most
<1> QED
  <2> HIDE DEF len
  <2> QED
    BY <1>5, <1>6, <1>7

LEMMA ConcatGives ==
  ASSUME NEW h, Good(h), NEW l \in DOMAIN h, NEW r \in DOMAIN h
  PROVE  Gives(h, Made(StringConcat(h, l, r)), Undef, <<TextOf(h)[l] \o TextOf(h)[r]>>)
BY StepsSame, ConcatAppended, GivesNew

-----------------------------------------------------------------------------
(***************************************************************************)
(* Searches.                                                               *)
(***************************************************************************)
\* The comparison the searches make, character by character.
Compares(t, s, i) == \A j \in 0..(Len(s) - 1) : CharOf(t, i + j) = CharOf(s, j)

LEMMA MatchIs ==
  ASSUME NEW t \in Seq(Chars), NEW s \in Seq(Chars), NEW i \in Nat
  PROVE  /\ MatchesAt(t, s, i) => i + Len(s) <= Len(t)
         /\ i + Len(s) <= Len(t) => (MatchesAt(t, s, i) <=> Compares(t, s, i))
<1> DEFINE m == Len(s)
           u == SubSeq(t, i + 1, i + m)
<1>1. m \in Nat /\ Len(t) \in Nat
  BY LenProperties
<1>2. CASE i + m <= Len(t)
  <2>1. u \in Seq(Chars) /\ Len(u) = m /\ \A k \in 1..m : u[k] = t[i + k]
    <3> HIDE DEF m
    <3> QED
      BY <1>1, <1>2, SubIs
  <2>2. MatchesAt(t, s, i) <=> u = s
    BY <1>2 DEF MatchesAt, Slice
  <2> HIDE DEF u
  <2>5. ASSUME NEW j \in 0..(m - 1)
        PROVE  CharOf(t, i + j) = t[(i + j) + 1] /\ CharOf(s, j) = s[j + 1]
    <3>1. i + j \in 0..(Len(t) - 1) /\ j \in 0..(Len(s) - 1)
      BY <1>1, <1>2
    <3> QED
      BY <3>1 DEF CharOf
  <2>3. ASSUME u = s, NEW j \in 0..(m - 1) PROVE CharOf(t, i + j) = CharOf(s, j)
    <3>1. j + 1 \in 1..m /\ i + (j + 1) = (i + j) + 1
      BY <1>1
    <3> QED
      BY <2>1, <2>3, <2>5, <3>1
  <2>4. ASSUME \A j \in 0..(m - 1) : CharOf(t, i + j) = CharOf(s, j) PROVE u = s
    <3>1. ASSUME NEW k \in 1..m PROVE u[k] = s[k]
      <4>1. k - 1 \in 0..(m - 1) /\ (k - 1) + 1 = k /\ (i + (k - 1)) + 1 = i + k
        BY <1>1
      <4> DEFINE j == k - 1
      <4>2. j \in 0..(m - 1) /\ j + 1 = k /\ (i + j) + 1 = i + k
        BY <4>1
      <4> HIDE DEF j
      <4>4. CharOf(t, i + j) = t[(i + j) + 1] /\ CharOf(s, j) = s[j + 1]
        BY <2>5, <4>2
      <4>5. CharOf(t, i + j) = CharOf(s, j)
        BY <2>4, <4>2
      <4>3. t[(i + j) + 1] = s[j + 1]
        BY <4>4, <4>5
      <4> QED
        BY <2>1, <4>2, <4>3
    <3> QED
      BY <2>1, <3>1, SeqEqual
  <2>6. u = s <=> Compares(t, s, i)
    BY <2>3, <2>4 DEF Compares
  <2> QED
    BY <1>2, <2>2, <2>6
<1>3. CASE ~(i + m <= Len(t))
  BY <1>3 DEF MatchesAt
<1> QED
  BY <1>2, <1>3

LEMMA LowestIs ==
  ASSUME NEW S \in SUBSET Nat, S # {}
  PROVE  Lowest(S) \in S /\ \A j \in S : Lowest(S) <= j
BY LeastNatural DEF Lowest

LEMMA StrstrIs ==
  ASSUME NEW t \in Seq(Chars), NEW s \in Seq(Chars), Len(s) > 0
  PROVE  Charstrstr(t, s) = IndexOfText(t, s)
<1> DEFINE found == {i \in 0..(Len(t) - 1) :
                       /\ s # <<>>
                       /\ \A j \in 0..(Len(s) - 1) :
                            i + j < Len(t) /\ CharOf(t, i + j) = CharOf(s, j)}
<1>1. Len(t) \in Nat /\ Len(s) \in Nat /\ s # <<>>
  BY LenProperties
<1>2. ASSUME NEW i \in found PROVE i \in Matches(t, s)
  <2>1. /\ i \in 0..(Len(t) - 1)
        /\ \A j \in 0..(Len(s) - 1) : i + j < Len(t) /\ CharOf(t, i + j) = CharOf(s, j)
    OBVIOUS
  <2>2. i \in Nat /\ i \in 0..Len(t) /\ Len(s) - 1 \in 0..(Len(s) - 1)
    BY <1>1, <2>1
  <2>3. i + (Len(s) - 1) < Len(t)
    BY <2>1, <2>2
  <2>4. i + Len(s) <= Len(t)
    BY <1>1, <2>2, <2>3
  <2>6. Compares(t, s, i)
    BY <2>1 DEF Compares
  <2>5. MatchesAt(t, s, i)
    BY <2>2, <2>4, <2>6, MatchIs
  <2> QED
    BY <2>2, <2>5 DEF Matches
<1>3. ASSUME NEW i \in Matches(t, s) PROVE i \in found
  <2>1. i \in 0..Len(t) /\ i \in Nat /\ MatchesAt(t, s, i)
    BY <1>1 DEF Matches
  <2>2. i + Len(s) <= Len(t)
    BY <2>1, MatchIs
  <2>3. i \in 0..(Len(t) - 1)
    BY <1>1, <2>1, <2>2
  <2>4. ASSUME NEW j \in 0..(Len(s) - 1) PROVE i + j < Len(t) /\ CharOf(t, i + j) = CharOf(s, j)
    <3>1. i + j < Len(t)
      BY <1>1, <2>1, <2>2
    <3>2. Compares(t, s, i)
      BY <2>1, <2>2, MatchIs
    <3> QED
      BY <3>1, <3>2 DEF Compares
  <2> QED
    BY <1>1, <2>3, <2>4
<1>4. found = Matches(t, s)
  <2> HIDE DEF found
  <2> QED
    BY <1>2, <1>3
<1>5. Charstrstr(t, s) = IF found = {} THEN -1 ELSE CHOOSE i \in found : \A j \in found : i <= j
  BY DEF Charstrstr
<1> HIDE DEF found
<1> QED
  BY <1>4, <1>5 DEF IndexOfText, Lowest

\* Where there is no place, the search answers -1; else the place.
LEMMA IndexIs ==
  ASSUME NEW t \in Seq(Chars), NEW s \in Seq(Chars)
  PROVE  /\ Matches(t, s) = {} => IndexOfText(t, s) = -1
         /\ Matches(t, s) # {} => /\ IndexOfText(t, s) = Lowest(Matches(t, s))
                                  /\ Lowest(Matches(t, s)) \in Matches(t, s)
                                  /\ Lowest(Matches(t, s)) \in Nat
                                  /\ IndexOfText(t, s) # -1
<1>1. Matches(t, s) \in SUBSET Nat
  BY LenProperties DEF Matches
<1>2. Matches(t, s) # {} => Lowest(Matches(t, s)) \in Matches(t, s)
  BY <1>1, LowestIs
<1>3. Matches(t, s) # {} => Lowest(Matches(t, s)) \in Nat
  BY <1>1, <1>2
<1> DEFINE p == Lowest(Matches(t, s))
<1> HIDE DEF p
<1>4. p \in Nat => p # -1
  OBVIOUS
<1> QED
  BY <1>2, <1>3, <1>4 DEF IndexOfText, p

LEMMA IndexOfGives ==
  ASSUME NEW h, Good(h), NEW c, c.this \in DOMAIN h, c.arg \in DOMAIN h, h[c.arg].length > 0
  PROVE  Gives(h, IndexOf(h, c), IndexOfText(TextOf(h)[c.this], TextOf(h)[c.arg]), <<>>)
<1> DEFINE f == Both(h, c.this, c.arg)
           t == TextOf(h)[c.this]
           s == TextOf(h)[c.arg]
<1>1. Steps(h, f) /\ f[c.this].flat = t /\ f[c.arg].flat = s
  BY BothFlat
<1>2. t \in Seq(Chars) /\ s \in Seq(Chars) /\ Len(s) > 0
  BY TextIs
<1>3. IndexOf(h, c) = Num(f, Charstrstr(f[c.this].flat, f[c.arg].flat))
  BY DEF IndexOf
<1> HIDE DEF f, t, s
<1>4. IndexOf(h, c) = Num(f, IndexOfText(t, s))
  BY <1>1, <1>2, <1>3, StrstrIs
<1>5. Gives(h, IndexOf(h, c), IndexOfText(t, s), <<>>)
  BY <1>1, <1>4, GivesNumber
<1> QED
  BY <1>5 DEF t, s

\* No character of a text lies before a buffer, so a search backwards does
\* not match there.
LEMMA StrrstrIs ==
  ASSUME NEW t \in Seq(Chars), NEW s \in Seq(Chars), Len(s) > 0, Outside \notin Chars
  PROVE  Charstrrstr(t, s) = LastIndexOfText(t, s)
<1> DEFINE found == {i \in (1 - Len(s))..(Len(t) - Len(s)) :
                       \A j \in 0..(Len(s) - 1) : CharOf(t, i + j) = CharOf(s, j)}
<1>1. Len(t) \in Nat /\ Len(s) \in Nat
  BY LenProperties
<1>2. ASSUME NEW i \in found PROVE i \in Matches(t, s)
  <2>1. /\ i \in (1 - Len(s))..(Len(t) - Len(s)) /\ i \in Int
        /\ \A j \in 0..(Len(s) - 1) : CharOf(t, i + j) = CharOf(s, j)
    BY <1>1
  <2>2. 0 \in 0..(Len(s) - 1) /\ 1 \in 1..Len(s) /\ i + 0 = i
    BY <1>1, <2>1
  <2>3. CharOf(s, 0) = s[1] /\ s[1] \in Chars
    BY <2>2, ElementOfSeq DEF CharOf
  <2>4. CharOf(t, i) \in Chars
    BY <2>1, <2>2, <2>3
  <2>5. i \in 0..(Len(t) - 1)
    BY <2>4 DEF CharOf
  <2>6. i \in Nat /\ i \in 0..Len(t) /\ i + Len(s) <= Len(t)
    BY <1>1, <2>1, <2>5
  <2>8. Compares(t, s, i)
    BY <2>1 DEF Compares
  <2>7. MatchesAt(t, s, i)
    BY <2>6, <2>8, MatchIs
  <2> QED
    BY <2>6, <2>7 DEF Matches
<1>3. ASSUME NEW i \in Matches(t, s) PROVE i \in found
  <2>1. i \in 0..Len(t) /\ i \in Nat /\ MatchesAt(t, s, i)
    BY <1>1 DEF Matches
  <2>2. i + Len(s) <= Len(t)
    BY <2>1, MatchIs
  <2>3. i \in (1 - Len(s))..(Len(t) - Len(s))
    BY <1>1, <2>1, <2>2
  <2>5. Compares(t, s, i)
    BY <2>1, <2>2, MatchIs
  <2>4. \A j \in 0..(Len(s) - 1) : CharOf(t, i + j) = CharOf(s, j)
    BY <2>5 DEF Compares
  <2> QED
    BY <2>3, <2>4
<1>4. found = Matches(t, s)
  <2> HIDE DEF found
  <2> QED
    BY <1>2, <1>3
<1>5. Len(s) > Len(t) => found = {}
  <2>1. ASSUME Len(s) > Len(t), NEW i \in Matches(t, s) PROVE FALSE
    <3>1. i \in Nat /\ MatchesAt(t, s, i)
      BY <1>1 DEF Matches
    <3>2. i + Len(s) <= Len(t)
      BY <3>1, MatchIs
    <3> QED
      BY <1>1, <2>1, <3>1, <3>2
  <2> HIDE DEF found
  <2> QED
    BY <1>4, <2>1
<1>6. Charstrrstr(t, s) = IF Len(s) > Len(t) \/ found = {} THEN -1
                          ELSE CHOOSE i \in found : \A j \in found : i >= j
  BY DEF Charstrrstr
<1> HIDE DEF found
<1> QED
  BY <1>4, <1>5, <1>6 DEF LastIndexOfText, Highest

LEMMA LastIndexOfSteps ==
  ASSUME NEW h, Good(h), NEW c, c.this \in DOMAIN h, c.arg \in DOMAIN h
  PROVE  Steps(h, LastIndexOf(h, c).heap)
<1> DEFINE f == Both(h, c.this, c.arg)
<1>1. LastIndexOf(h, c).heap = f
  BY DEF LastIndexOf, Num
<1> QED
  BY <1>1, BothFlat

LEMMA LastIndexOfGives ==
  ASSUME NEW h, Good(h), NEW c, c.this \in DOMAIN h, c.arg \in DOMAIN h, h[c.arg].length > 0,
         Outside \notin Chars
  PROVE  Gives(h, LastIndexOf(h, c), LastIndexOfText(TextOf(h)[c.this], TextOf(h)[c.arg]), <<>>)
<1> DEFINE f == Both(h, c.this, c.arg)
           t == TextOf(h)[c.this]
           s == TextOf(h)[c.arg]
<1>1. Steps(h, f) /\ f[c.this].flat = t /\ f[c.arg].flat = s
  BY BothFlat
<1>2. t \in Seq(Chars) /\ s \in Seq(Chars) /\ Len(s) > 0
  BY TextIs
<1>3. LastIndexOf(h, c) = Num(f, Charstrrstr(f[c.this].flat, f[c.arg].flat))
  BY DEF LastIndexOf
<1> HIDE DEF f, t, s
<1>4. LastIndexOf(h, c) = Num(f, LastIndexOfText(t, s))
  BY <1>1, <1>2, <1>3, StrrstrIs
<1>5. Gives(h, LastIndexOf(h, c), LastIndexOfText(t, s), <<>>)
  BY <1>1, <1>4, GivesNumber
<1> QED
  BY <1>5 DEF t, s

\* The answer to a question.
Truth(b) == IF b THEN 1 ELSE 0

LEMMA GivesBool ==
  ASSUME NEW h, NEW f, NEW b, NEW e, Steps(h, f), b <=> e
  PROVE  Gives(h, Bool(f, b), Truth(e), <<>>)
<1>1. Bool(f, b) = Num(f, Truth(e))
  BY DEF Bool, Truth
<1> QED
  BY <1>1, GivesNumber

LEMMA StartsWithGives ==
  ASSUME NEW h, Good(h), NEW c, c.this \in DOMAIN h, c.arg \in DOMAIN h, c.a \in Int
  PROVE  Gives(h, StartsWith(h, c),
               Truth(StartsWithText(TextOf(h)[c.this], TextOf(h)[c.arg], c.a)), <<>>)
<1> DEFINE f == Both(h, c.this, c.arg)
           t == TextOf(h)[c.this]
           s == TextOf(h)[c.arg]
           w == h[c.this].length
           m == h[c.arg].length
           start == Least(Most(ToInteger(c.a), 0), w)
           same == \A i \in 0..(m - 1) : CharOf(f[c.this].flat, i + start) = CharOf(f[c.arg].flat, i)
<1>1. Steps(h, f) /\ f[c.this].flat = t /\ f[c.arg].flat = s
  BY BothFlat
<1>2. t \in Seq(Chars) /\ s \in Seq(Chars) /\ Len(t) = w /\ Len(s) = m /\ w \in Nat /\ m \in Nat
  BY TextIs
<1>3. StartsWith(h, c) = IF m + start > w THEN Bool(h, FALSE) ELSE Bool(f, same)
  BY DEF StartsWith
<1> HIDE DEF f, t, s, w, m
<1>4. start \in Nat /\ start = Clamp(Or(c.a, 0), 0, w)
  BY <1>2 DEF Least, Most, ToInteger, Clamp, Or
<1>5. StartsWithText(t, s, c.a) = MatchesAt(t, s, start)
  BY <1>2, <1>4 DEF StartsWithText
<1>6. CASE m + start > w
  <2>1. ~MatchesAt(t, s, start)
    <3>1. ~(start + Len(s) <= Len(t))
      <4> HIDE DEF start
      <4> QED
        BY <1>2, <1>4, <1>6
    <3> QED
      BY <3>1 DEF MatchesAt
  <2>2. FALSE <=> StartsWithText(t, s, c.a)
    BY <1>5, <2>1
  <2>3. Gives(h, Bool(h, FALSE), Truth(StartsWithText(t, s, c.a)), <<>>)
    BY <2>2, StepsSame, GivesBool
  <2> QED
    BY <1>3, <1>6, <2>3 DEF t, s
<1>7. CASE ~(m + start > w)
  <2> HIDE DEF start
  <2>1. start + Len(s) <= Len(t)
    BY <1>2, <1>4, <1>7
  <2>2. ASSUME NEW i \in 0..(m - 1) PROVE i + start = start + i
    BY <1>2, <1>4
  <2>3. same <=> Compares(t, s, start)
    BY <1>1, <1>2, <2>2 DEF Compares
  <2>4. same <=> StartsWithText(t, s, c.a)
    <3> HIDE DEF same
    <3> QED
      BY <1>2, <1>4, <1>5, <2>1, <2>3, MatchIs
  <2> HIDE DEF same
  <2>5. Gives(h, Bool(f, same), Truth(StartsWithText(t, s, c.a)), <<>>)
    BY <1>1, <2>4, GivesBool
  <2> QED
    BY <1>3, <1>7, <2>5 DEF t, s
<1> QED
  BY <1>6, <1>7

\* How much of the string endsWith looks at.
EndOf(h, c) == Least(Most(IF c.a = Undef THEN h[c.this].length ELSE c.a, 0), h[c.this].length)

LEMMA EndsWithGives ==
  ASSUME NEW h, Good(h), NEW c, c.this \in DOMAIN h, c.arg \in DOMAIN h, c.a \in Int,
         h[c.arg].length <= EndOf(h, c)
  PROVE  Gives(h, EndsWith(h, c),
               Truth(EndsWithText(TextOf(h)[c.this], TextOf(h)[c.arg], c.a)), <<>>)
<1> DEFINE f == Both(h, c.this, c.arg)
           t == TextOf(h)[c.this]
           s == TextOf(h)[c.arg]
           w == h[c.this].length
           m == h[c.arg].length
           e == EndOf(h, c)
           start == e - m
           same == \A i \in 0..(m - 1) : CharOf(f[c.this].flat, i + start) = CharOf(f[c.arg].flat, i)
<1>1. Steps(h, f) /\ f[c.this].flat = t /\ f[c.arg].flat = s
  BY BothFlat
<1>2. t \in Seq(Chars) /\ s \in Seq(Chars) /\ Len(t) = w /\ Len(s) = m /\ w \in Nat /\ m \in Nat
  BY TextIs
<1>3. EndsWith(h, c) = Bool(f, same)
  BY DEF EndsWith, EndOf
<1>4. e = Clamp(Or(c.a, w), 0, w) /\ e \in Nat /\ e <= w
  <2> HIDE DEF w
  <2>1. e = Least(Most(IF c.a = Undef THEN w ELSE c.a, 0), w)
    BY DEF EndOf, w
  <2> QED
    BY <1>2, <2>1 DEF Least, Most, Clamp, Or
<1> HIDE DEF f, t, s, w, e
<1>5. EndsWithText(t, s, c.a) <=> e >= m /\ Slice(t, e - m, e) = s
  BY <1>2, <1>4 DEF EndsWithText
<1>6. m <= e
  BY DEF m, e
<1> HIDE DEF m
<1>7. start \in Nat /\ start + Len(s) = e /\ start + Len(s) <= Len(t)
  BY <1>2, <1>4, <1>6
<1>8. EndsWithText(t, s, c.a) <=> MatchesAt(t, s, start)
  <2>1. e >= m
    BY <1>2, <1>4, <1>6
  <2> QED
    BY <1>5, <1>7, <2>1 DEF MatchesAt
<1> HIDE DEF start
<1>9. ASSUME NEW i \in 0..(m - 1) PROVE i + start = start + i
  BY <1>2, <1>7
<1>10. same <=> Compares(t, s, start)
  BY <1>1, <1>2, <1>9 DEF Compares
<1> HIDE DEF same
<1>11. same <=> EndsWithText(t, s, c.a)
  BY <1>2, <1>7, <1>8, <1>10, MatchIs
<1>12. Gives(h, Bool(f, same), Truth(EndsWithText(t, s, c.a)), <<>>)
  BY <1>1, <1>11, GivesBool
<1> QED
  BY <1>3, <1>12 DEF t, s

-----------------------------------------------------------------------------
(***************************************************************************)
(* contains and replace.                                                   *)
(***************************************************************************)
LEMMA RestMatches ==
  ASSUME NEW t \in Seq(Chars), NEW s \in Seq(Chars), NEW start \in Nat, start <= Len(t),
         NEW i \in Nat
  PROVE  MatchesAt(SubSeq(t, start + 1, Len(t)), s, i) <=> MatchesAt(t, s, start + i)
<1> DEFINE w == Len(t)
           m == Len(s)
           k == w - start
           rest == SubSeq(t, start + 1, w)
<1>1. w \in Nat /\ m \in Nat /\ k \in Nat /\ start + k = w
  BY LenProperties
<1> HIDE DEF w, m, k
<1>2. rest = SubSeq(t, start + 1, start + k)
  BY <1>1
<1>3. rest \in Seq(Chars) /\ Len(rest) = k
  BY <1>1, <1>2, SubIs DEF w
<1>4. CASE ~(i + m <= k)
  <2>1. ~((start + i) + m <= w)
    BY <1>1, <1>4
  <2> HIDE DEF rest
  <2> QED
    BY <1>3, <1>4, <2>1 DEF MatchesAt, m, w
<1>5. CASE i + m <= k
  <2>1. (start + i) + m <= w /\ i + start = start + i
    BY <1>1, <1>5
  <2>2. SubSeq(rest, i + 1, i + m) = SubSeq(t, (i + start) + 1, (i + start) + m)
    <3>1. start + k <= Len(t)
      BY <1>1 DEF w
    <3> QED
      BY <1>1, <1>2, <1>5, <3>1, SubSub
  <2> HIDE DEF rest
  <2>3. MatchesAt(rest, s, i) <=> SubSeq(rest, i + 1, i + m) = s
    BY <1>3, <1>5 DEF MatchesAt, Slice, m
  <2>4. MatchesAt(t, s, start + i) <=> SubSeq(t, (start + i) + 1, (start + i) + m) = s
    BY <2>1 DEF MatchesAt, Slice, m, w
  <2>5. MatchesAt(rest, s, i) <=> MatchesAt(t, s, start + i)
    BY <2>1, <2>2, <2>3, <2>4
  <2> QED
    BY <2>5 DEF rest, w
<1>6. MatchesAt(rest, s, i) <=> MatchesAt(t, s, start + i)
  <2>1. i + m <= k \/ ~(i + m <= k)
    OBVIOUS
  <2> QED
    BY <1>4, <1>5, <2>1 DEF w
<1> QED
  BY <1>6 DEF w

LEMMA MatchHolds ==
  ASSUME NEW t \in Seq(Chars), NEW s \in Seq(Chars), NEW i \in Nat
  PROVE  i \in Matches(t, s) <=> MatchesAt(t, s, i)
<1>1. Len(t) \in Nat /\ Len(s) \in Nat
  BY LenProperties
<1>2. MatchesAt(t, s, i) => i \in 0..Len(t)
  <2>1. MatchesAt(t, s, i) => i + Len(s) <= Len(t)
    BY MatchIs
  <2> QED
    BY <1>1, <2>1
<1> QED
  BY <1>2 DEF Matches

LEMMA MatchesAreNat ==
  ASSUME NEW t \in Seq(Chars), NEW s \in Seq(Chars), NEW i \in Matches(t, s)
  PROVE  i \in Nat
<1>1. Len(t) \in Nat
  BY LenProperties
<1> QED
  BY <1>1 DEF Matches

LEMMA ContainsGives ==
  ASSUME NEW h, Good(h), NEW c, c.this \in DOMAIN h, c.arg \in DOMAIN h, c.a \in Int,
         h[c.arg].length > 0
  PROVE  Gives(h, Contains(h, c),
               Truth(ContainsText(TextOf(h)[c.this], TextOf(h)[c.arg], c.a)), <<>>)
<1> DEFINE f == Both(h, c.this, c.arg)
           t == TextOf(h)[c.this]
           s == TextOf(h)[c.arg]
           w == h[c.this].length
           start == Least(Most(ToInteger(c.a), 0), w)
           rest == SubSeq(t, start + 1, w)
           found == Charstrstr(rest, s) # -1
<1>1. Steps(h, f) /\ f[c.this].flat = t /\ f[c.arg].flat = s
  BY BothFlat
<1>2. t \in Seq(Chars) /\ s \in Seq(Chars) /\ Len(t) = w /\ w \in Nat /\ Len(s) > 0
  BY TextIs
<1>3. Contains(h, c) = Bool(f, found)
  BY <1>1 DEF Contains
<1> HIDE DEF f, t, s, w
<1>4. start \in Nat /\ start <= w /\ start = Clamp(Or(c.a, 0), 0, w)
  BY <1>2 DEF Least, Most, ToInteger, Clamp, Or
<1>5. ContainsText(t, s, c.a) <=> \E i \in Matches(t, s) : i >= start
  BY <1>2, <1>4 DEF ContainsText
<1> HIDE DEF start
<1>6. rest \in Seq(Chars)
  <2> DEFINE k == w - start
  <2>1. k \in Nat /\ start + k = w /\ start + k <= Len(t)
    BY <1>2, <1>4
  <2> HIDE DEF k
  <2>2. SubSeq(t, start + 1, start + k) \in Seq(Chars)
    BY <1>2, <1>4, <2>1, SubIs
  <2> QED
    BY <2>1, <2>2
<1>7. \A i \in Nat : MatchesAt(rest, s, i) <=> MatchesAt(t, s, start + i)
  BY <1>2, <1>4, RestMatches
<1> HIDE DEF rest
<1>8. found <=> Matches(rest, s) # {}
  BY <1>2, <1>6, StrstrIs, IndexIs
<1>9. ASSUME NEW i \in Matches(rest, s) PROVE \E j \in Matches(t, s) : j >= start
  <2>1. i \in Nat /\ start + i \in Nat /\ start + i >= start
    BY <1>2, <1>4, <1>6, MatchesAreNat
  <2>2. MatchesAt(t, s, start + i)
    BY <1>2, <1>6, <1>7, <2>1, MatchHolds
  <2>3. start + i \in Matches(t, s)
    BY <1>2, <2>1, <2>2, MatchHolds
  <2> QED
    BY <2>1, <2>3
<1>10. ASSUME NEW j \in Matches(t, s), j >= start PROVE Matches(rest, s) # {}
  <2> DEFINE i == j - start
  <2>1. j \in Nat /\ i \in Nat /\ start + i = j
    BY <1>2, <1>4, <1>10, MatchesAreNat
  <2> HIDE DEF i
  <2>2. MatchesAt(t, s, start + i)
    BY <1>2, <2>1, MatchHolds
  <2>3. i \in Matches(rest, s)
    BY <1>2, <1>6, <1>7, <2>1, <2>2, MatchHolds
  <2> QED
    BY <2>3
<1>11. found <=> ContainsText(t, s, c.a)
  <2> HIDE DEF found
  <2> QED
    BY <1>5, <1>8, <1>9, <1>10
<1> HIDE DEF found
<1>12. Gives(h, Bool(f, found), Truth(ContainsText(t, s, c.a)), <<>>)
  BY <1>1, <1>11, GivesBool
<1> QED
  BY <1>3, <1>12 DEF t, s

\* A string that was flattened stays so.
LEMMA StaysFlat ==
  ASSUME NEW h, NEW g, Good(h), Steps(h, g), NEW n \in DOMAIN h, h[n].type = "flat"
  PROVE  g[n].flat = TextOf(h)[n] /\ g[n].type = "flat" /\ n \in DOMAIN g
<1>1. Heap(h) /\ Heap(g) /\ Kept(h, g) /\ Len(h) <= Len(g)
  BY DEF Good, Steps, Kept
<1>2. n \in DOMAIN g
  BY <1>1, KeptDomain
<1>3. g[n].type = "flat" /\ TextOf(g)[n] = TextOf(h)[n]
  BY <1>1 DEF Kept
<1>4. Flat(g, n)
  BY <1>1, <1>2, <1>3, FlatHolds
<1> QED
  BY <1>2, <1>3, <1>4 DEF Flat

LEMMA BothAreFlat ==
  ASSUME NEW h, Good(h), NEW m \in DOMAIN h, NEW n \in DOMAIN h
  PROVE  Both(h, m, n)[m].type = "flat" /\ Both(h, m, n)[n].type = "flat"
<1> DEFINE f == PrimFlatten(h, m)
<1>1. Good(f) /\ Kept(h, f) /\ Len(f) = Len(h) /\ Flat(f, m)
  BY FlattenKeeps
<1> HIDE DEF f
<1>2. DOMAIN f = DOMAIN h
  BY <1>1, HeapIs DEF Good
<1>3. Kept(f, PrimFlatten(f, n)) /\ Flat(PrimFlatten(f, n), n)
  BY <1>1, <1>2, FlattenKeeps
<1> QED
  BY <1>1, <1>2, <1>3 DEF Both, Kept, Flat, f

LEMMA ReplaceGives ==
  ASSUME NEW h, Good(h), NEW c, c.this \in DOMAIN h, c.arg \in DOMAIN h, c.a \in DOMAIN h,
         h[c.arg].length > 0
  PROVE  Gives(h, Replace(h, c), Undef,
               <<ReplaceText(TextOf(h)[c.this], TextOf(h)[c.arg], TextOf(h)[c.a])>>)
<1> DEFINE f == Both(h, c.this, c.arg)
           g == PrimFlatten(f, c.a)
           t == TextOf(h)[c.this]
           s == TextOf(h)[c.arg]
           r == TextOf(h)[c.a]
           w == h[c.this].length
           m == h[c.arg].length
           p == IndexOfText(t, s)
           new == SubSeq(t, 1, p) \o r \o SubSeq(t, p + m + 1, w)
<1>1. /\ t \in Seq(Chars) /\ s \in Seq(Chars) /\ r \in Seq(Chars)
      /\ Len(t) = w /\ Len(s) = m /\ w \in Nat /\ m \in Nat /\ Len(s) > 0
  BY TextIs
<1>2. /\ Steps(h, f) /\ Good(f) /\ f[c.this].flat = t /\ f[c.arg].flat = s
      /\ DOMAIN f = DOMAIN h
  <2>1. /\ Steps(h, f) /\ f[c.this].flat = t /\ f[c.arg].flat = s
        /\ DOMAIN f = DOMAIN h
    BY BothFlat
  <2> HIDE DEF f
  <2> QED
    BY <2>1 DEF Steps
<1>3. Steps(f, g) /\ g[c.a].flat = TextOf(g)[c.a]
  BY <1>2, FlattenKeeps DEF Steps, Flat
<1>4. Steps(h, g)
  BY <1>2, <1>3, StepsTwice
<1>5. g[c.a].flat = r
  BY <1>3, <1>4 DEF Steps, Kept
<1>6. g[c.this].flat = t
  <2>1. f[c.this].type = "flat"
    BY BothAreFlat
  <2> HIDE DEF f, g
  <2>2. g[c.this].flat = TextOf(f)[c.this]
    BY <1>2, <1>3, <2>1, StaysFlat
  <2>3. TextOf(f)[c.this] = t
    BY <1>2 DEF Steps, Kept
  <2> QED
    BY <2>2, <2>3
<1>7. Charstrstr(f[c.this].flat, f[c.arg].flat) = p
  <2> HIDE DEF f, t, s
  <2> QED
    BY <1>1, <1>2, StrstrIs
<1>8. Replace(h, c) = IF p = -1 THEN Same(f, c.this) ELSE NewString(g, new)
  <2>1. Replace(h, c)
          = IF Charstrstr(f[c.this].flat, f[c.arg].flat) = -1 THEN Same(f, c.this)
            ELSE NewString(g, SubSeq(g[c.this].flat, 1, Charstrstr(f[c.this].flat, f[c.arg].flat))
                   \o g[c.a].flat
                   \o SubSeq(g[c.this].flat,
                        Charstrstr(f[c.this].flat, f[c.arg].flat) + h[c.arg].length + 1,
                        h[c.this].length))
    BY DEF Replace
  <2> HIDE DEF f, g, t, s, r, p
  <2> QED
    BY <1>5, <1>6, <1>7, <2>1
<1> HIDE DEF f, g, t, s, r, w, m
<1>9. CASE Matches(t, s) = {}
  <2>1. p = -1 /\ ReplaceText(t, s, r) = t
    BY <1>1, <1>9, IndexIs DEF ReplaceText
  <2>2. Gives(h, Same(f, c.this), Undef, <<TextOf(h)[c.this]>>)
    BY <1>2, GivesSame
  <2> QED
    BY <1>8, <2>1, <2>2 DEF t, s, r
<1>10. CASE Matches(t, s) # {}
  <2>1. p = Lowest(Matches(t, s)) /\ p \in Matches(t, s) /\ p \in Nat /\ p # -1
    BY <1>1, <1>10, IndexIs
  <2>2. ReplaceText(t, s, r) = Slice(t, 0, Lowest(Matches(t, s))) \o r
                                \o Slice(t, Lowest(Matches(t, s)) + Len(s), Len(t))
    BY <1>10 DEF ReplaceText
  <2> HIDE DEF p
  <2>3. MatchesAt(t, s, p)
    BY <1>1, <2>1, MatchHolds
  <2>4. p + m <= w
    BY <1>1, <2>1, <2>3, MatchIs
  <2>5. ReplaceText(t, s, r) = new
    <3>1. Slice(t, 0, p) = SubSeq(t, 1, p) /\ Slice(t, p + Len(s), Len(t)) = SubSeq(t, p + m + 1, w)
      BY <1>1 DEF Slice
    <3> QED
      BY <2>1, <2>2, <3>1
  <2>6. new \in Seq(Chars)
    <3> DEFINE a == SubSeq(t, 1, p)
               q == p + m
               k == w - q
               b == SubSeq(t, p + m + 1, w)
    <3>7. q \in Nat /\ q <= w
      BY <1>1, <2>1, <2>4
    <3>8. p <= w
      BY <1>1, <2>1, <2>4
    <3>9. k \in Nat /\ q + k = w
      <4> HIDE DEF q
      <4> QED
        BY <1>1, <3>7
    <3>1. 0 \in Nat /\ 0 + p <= Len(t) /\ k \in Nat /\ p + m \in Nat
          /\ (p + m) + k = w /\ (p + m) + k <= Len(t)
      <4> HIDE DEF k
      <4> QED
        BY <1>1, <2>1, <3>7, <3>8, <3>9
    <3>2. SubSeq(t, 0 + 1, 0 + p) \in Seq(Chars)
      BY <1>1, <2>1, <3>1, SubIs
    <3> HIDE DEF k
    <3>3. SubSeq(t, (p + m) + 1, (p + m) + k) \in Seq(Chars)
      BY <1>1, <3>1, SubIs
    <3>4. a \in Seq(Chars) /\ b \in Seq(Chars)
      BY <2>1, <3>1, <3>2, <3>3
    <3> HIDE DEF a, b
    <3>5. a \o r \in Seq(Chars)
      BY <1>1, <3>4, ConcatProperties
    <3>6. (a \o r) \o b \in Seq(Chars)
      BY <3>4, <3>5, ConcatProperties
    <3> QED
      BY <3>6 DEF a, b
  <2> HIDE DEF new
  <2>7. Adds(g, Append(g, FlatString(new)), new)
    BY <1>4, <2>6, FlatAppended DEF Steps
  <2>8. Gives(h, Made(Append(g, FlatString(new))), Undef, <<new>>)
    BY <1>4, <2>7, GivesNew
  <2> QED
    BY <1>8, <2>1, <2>5, <2>8 DEF NewString, t, s, r
<1> QED
  BY <1>9, <1>10

-----------------------------------------------------------------------------
(***************************************************************************)
(* repeat: the heap after k concatenations, and the text after k copies.   *)
(***************************************************************************)
CopiesStep(g, s, k) == StringConcat(g, IF k = 1 THEN s ELSE Len(g), s)

AreCopies(f, h, s, n) ==
  f = [k \in 0..n |-> IF k = 0 THEN h ELSE CopiesStep(f[k - 1], s, k)]

AreTexts(r, t, n) == r = [k \in 0..n |-> IF k = 0 THEN <<>> ELSE r[k - 1] \o t]

LEMMA CopiesExist ==
  ASSUME NEW h, NEW s, NEW n \in Nat
  PROVE  \E f : AreCopies(f, h, s, n)
<1> DEFINE R == {m \in 0..n : \E f : AreCopies(f, h, s, m)}
<1>1. 0 \in R
  <2> DEFINE f == [k \in 0..0 |-> h]
  <2>1. AreCopies(f, h, s, 0)
    BY DEF AreCopies
  <2> HIDE DEF f
  <2> QED
    BY <2>1
<1>2. ASSUME NEW m \in 1..n, m - 1 \in R PROVE m \in R
  <2>1. PICK f : AreCopies(f, h, s, m - 1)
    BY <1>2
  <2> DEFINE g == [k \in 0..m |-> IF k = 0 THEN h ELSE CopiesStep(f[k - 1], s, k)]
  <2>2. \A k \in 0..(m - 1) : f[k] = IF k = 0 THEN h ELSE CopiesStep(f[k - 1], s, k)
    BY <2>1 DEF AreCopies
  <2>3. \A k \in 0..(m - 1) : k \in 0..m /\ g[k] = f[k]
    BY <2>2
  <2>4. \A k \in 0..m : k # 0 => k - 1 \in 0..(m - 1)
    OBVIOUS
  <2>5. \A k \in 0..m : g[k] = IF k = 0 THEN h ELSE CopiesStep(g[k - 1], s, k)
    BY <2>3, <2>4
  <2>6. AreCopies(g, h, s, m)
    BY <2>5 DEF AreCopies
  <2> HIDE DEF g
  <2> QED
    BY <2>6
<1>3. n \in R
  <2> HIDE DEF R
  <2> QED
    BY <1>1, <1>2, UpTo
<1> QED
  BY <1>3

LEMMA CopiesAre ==
  ASSUME NEW h, NEW s, NEW n \in Nat
  PROVE  \E f : AreCopies(f, h, s, n) /\ ConcatCopies(h, s, n) = f[n]
<1>1. PICK f : f = [k \in 0..n |-> IF k = 0 THEN h
                                   ELSE StringConcat(f[k - 1], IF k = 1 THEN s ELSE Len(f[k - 1]), s)]
  <2>1. PICK f : AreCopies(f, h, s, n)
    BY CopiesExist
  <2> QED
    BY <2>1, Zenon DEF AreCopies, CopiesStep
<1> DEFINE e == CHOOSE g : g = [k \in 0..n |-> IF k = 0 THEN h
                                  ELSE StringConcat(g[k - 1], IF k = 1 THEN s ELSE Len(g[k - 1]), s)]
<1>2. e = [k \in 0..n |-> IF k = 0 THEN h
                          ELSE StringConcat(e[k - 1], IF k = 1 THEN s ELSE Len(e[k - 1]), s)]
  BY <1>1
<1>3. ConcatCopies(h, s, n) = e[n]
  BY DEF ConcatCopies
<1> HIDE DEF e
<1>4. AreCopies(e, h, s, n)
  BY <1>2 DEF AreCopies, CopiesStep
<1> QED
  BY <1>3, <1>4

LEMMA TextsExist ==
  ASSUME NEW t, NEW n \in Nat
  PROVE  \E f : AreTexts(f, t, n)
<1> DEFINE R == {m \in 0..n : \E f : AreTexts(f, t, m)}
<1>1. 0 \in R
  <2> DEFINE f == [k \in 0..0 |-> <<>>]
  <2>1. AreTexts(f, t, 0)
    BY DEF AreTexts
  <2> HIDE DEF f
  <2> QED
    BY <2>1
<1>2. ASSUME NEW m \in 1..n, m - 1 \in R PROVE m \in R
  <2>1. PICK f : AreTexts(f, t, m - 1)
    BY <1>2
  <2> DEFINE g == [k \in 0..m |-> IF k = 0 THEN <<>> ELSE f[k - 1] \o t]
  <2>2. \A k \in 0..(m - 1) : f[k] = IF k = 0 THEN <<>> ELSE f[k - 1] \o t
    BY <2>1 DEF AreTexts
  <2>3. \A k \in 0..(m - 1) : k \in 0..m /\ g[k] = f[k]
    BY <2>2
  <2>4. \A k \in 0..m : k # 0 => k - 1 \in 0..(m - 1)
    OBVIOUS
  <2>5. \A k \in 0..m : g[k] = IF k = 0 THEN <<>> ELSE g[k - 1] \o t
    BY <2>3, <2>4
  <2>6. AreTexts(g, t, m)
    BY <2>5 DEF AreTexts
  <2> HIDE DEF g
  <2> QED
    BY <2>6
<1>3. n \in R
  <2> HIDE DEF R
  <2> QED
    BY <1>1, <1>2, UpTo
<1> QED
  BY <1>3

LEMMA TextsAre ==
  ASSUME NEW t, NEW n \in Nat
  PROVE  \E f : AreTexts(f, t, n) /\ RepeatText(t, n) = f[n]
<1>1. PICK f : f = [k \in 0..n |-> IF k = 0 THEN <<>> ELSE f[k - 1] \o t]
  BY TextsExist DEF AreTexts
<1> DEFINE e == CHOOSE g : g = [k \in 0..n |-> IF k = 0 THEN <<>> ELSE g[k - 1] \o t]
<1>2. e = [k \in 0..n |-> IF k = 0 THEN <<>> ELSE e[k - 1] \o t]
  BY <1>1
<1>3. RepeatText(t, n) = e[n]
  BY DEF RepeatText
<1> HIDE DEF e
<1>4. AreTexts(e, t, n)
  BY <1>2 DEF AreTexts
<1> QED
  BY <1>3, <1>4

\* After k concatenations the last string is the text k + 1 times.
LEMMA CopiesGive ==
  ASSUME NEW h, Good(h), NEW s \in DOMAIN h, NEW n \in Nat, n > 0
  PROVE  Gives(h, Made(ConcatCopies(h, s, n)), Undef, <<RepeatText(TextOf(h)[s], n + 1)>>)
<1> DEFINE t == TextOf(h)[s]
<1>1. t \in Seq(Chars)
  BY TextIs
<1> HIDE DEF t
<1>2. PICK f : AreCopies(f, h, s, n) /\ ConcatCopies(h, s, n) = f[n]
  BY CopiesAre
<1>3. PICK r : AreTexts(r, t, n + 1) /\ RepeatText(t, n + 1) = r[n + 1]
  BY TextsAre
<1>4. \A k \in 0..n : f[k] = IF k = 0 THEN h ELSE CopiesStep(f[k - 1], s, k)
  BY <1>2 DEF AreCopies
<1>5. r[0] = <<>> /\ \A k \in 1..(n + 1) : r[k] = r[k - 1] \o t
  <2>1. \A k \in 0..(n + 1) : r[k] = IF k = 0 THEN <<>> ELSE r[k - 1] \o t
    BY <1>3 DEF AreTexts
  <2>2. 0 \in 0..(n + 1) /\ \A k \in 1..(n + 1) : k \in 0..(n + 1) /\ k # 0
    OBVIOUS
  <2> QED
    BY <2>1, <2>2
<1>6. r[1] = t
  <2>1. r[1] = r[1 - 1] \o t /\ 1 - 1 = 0
    BY <1>5
  <2>2. <<>> \o t = t
    BY <1>1, ConcatEmptySeq
  <2> QED
    BY <1>5, <2>1, <2>2
<1> DEFINE Last(k) == /\ Len(f[k]) \in DOMAIN f[k]
                      /\ TextOf(f[k])[Len(f[k])] = r[k + 1]
           S == {k \in 0..n : Steps(h, f[k]) /\ (k # 0 => Last(k))}
<1>7. 0 \in S
  <2>1. f[0] = h
    BY <1>4
  <2> QED
    BY <2>1, StepsSame
<1>8. ASSUME NEW k \in 1..n, k - 1 \in S PROVE k \in S
  <2> DEFINE g == f[k - 1]
             l == IF k = 1 THEN s ELSE Len(g)
  <2>1. /\ k \in 0..n /\ k # 0 /\ k \in 1..(n + 1) /\ k + 1 \in 1..(n + 1)
        /\ (k + 1) - 1 = k /\ (k - 1) + 1 = k /\ k - 1 \in Nat
    OBVIOUS
  <2>2. Steps(h, g) /\ (k - 1 # 0 => Last(k - 1))
    BY <1>8
  <2>3. s \in DOMAIN g /\ TextOf(g)[s] = t
    <3>1. Heap(h) /\ Heap(g) /\ Kept(h, g)
      BY <2>2 DEF Good, Steps
    <3> HIDE DEF g
    <3> QED
      BY <3>1, KeptDomain DEF Kept, t
  <2>4. f[k] = StringConcat(g, l, s)
    BY <1>4, <2>1 DEF CopiesStep
  <2>5. l \in DOMAIN g /\ TextOf(g)[l] = r[k]
    <3>1. CASE k = 1
      BY <1>6, <2>3, <3>1
    <3>2. CASE k # 1
      <4>1. Last(k - 1) /\ l = Len(g)
        BY <2>1, <2>2, <3>2
      <4> QED
        BY <2>1, <4>1
    <3> QED
      BY <3>1, <3>2
  <2> HIDE DEF g, l
  <2>6. Adds(g, f[k], r[k] \o t)
    BY <2>2, <2>3, <2>4, <2>5, ConcatAppended DEF Steps
  <2>7. r[k + 1] = r[k] \o t
    BY <1>5, <2>1
  <2>8. Steps(h, f[k])
    <3>1. Steps(g, f[k])
      BY <2>6 DEF Adds, Steps
    <3> QED
      BY <2>2, <3>1, StepsTwice
  <2>9. Last(k)
    BY <2>6, <2>7 DEF Adds
  <2> HIDE DEF Last
  <2> QED
    BY <2>1, <2>8, <2>9
<1>9. n \in S
  <2>1. n \in 0..n
    OBVIOUS
  <2> HIDE DEF S
  <2> QED
    BY <1>7, <1>8, <2>1, UpTo
<1> DEFINE g == f[n]
<1>10. Steps(h, g) /\ Len(g) \in DOMAIN g /\ TextOf(g)[Len(g)] = r[n + 1] /\ Good(g)
  BY <1>9 DEF Steps
<1> HIDE DEF g
<1>11. Gives(g, Same(g, Len(g)), Undef, <<TextOf(g)[Len(g)]>>)
  BY <1>10, StepsSame, GivesSame
<1>12. Same(g, Len(g)).heap = g
  BY DEF Same
<1>13. Gives(h, Made(g), Undef, <<r[n + 1]>>)
  BY <1>10, <1>11, <1>12 DEF Gives, Made
<1> QED
  BY <1>2, <1>3, <1>13 DEF g, t

LEMMA RepeatGives ==
  ASSUME NEW h, Good(h), NEW c, c.this \in DOMAIN h, c.a \in Nat
  PROVE  Gives(h, Repeat(h, c), Undef, <<RepeatText(TextOf(h)[c.this], c.a)>>)
<1> DEFINE t == TextOf(h)[c.this]
<1>1. t \in Seq(Chars)
  BY TextIs
<1> HIDE DEF t
<1>2. PICK r : AreTexts(r, t, c.a) /\ RepeatText(t, c.a) = r[c.a]
  BY TextsAre
<1>3. r[0] = <<>> /\ \A k \in 1..c.a : r[k] = r[k - 1] \o t
  <2> DEFINE n == c.a
  <2>1. \A k \in 0..n : r[k] = IF k = 0 THEN <<>> ELSE r[k - 1] \o t
    BY <1>2 DEF AreTexts
  <2>3. n \in Nat
    OBVIOUS
  <2> HIDE DEF n
  <2>2. 0 \in 0..n /\ \A k \in 1..n : k \in 0..n /\ k # 0
    BY <2>3
  <2>4. r[0] = <<>> /\ \A k \in 1..n : r[k] = r[k - 1] \o t
    BY <2>1, <2>2
  <2> QED
    BY <2>4 DEF n
<1>4. CASE c.a = 0
  <2>1. Repeat(h, c) = Texts(h, <<<<>>>>)
    BY <1>4 DEF Repeat, EmptyAtom
  <2> QED
    BY <1>2, <1>3, <1>4, <2>1, StepsSame, GivesTexts DEF t
<1>5. CASE c.a = 1
  <2>1. Repeat(h, c) = Same(h, c.this)
    BY <1>5 DEF Repeat
  <2>2. r[1] = r[1 - 1] \o t /\ 1 - 1 = 0
    BY <1>3, <1>5
  <2>3. <<>> \o t = t
    BY <1>1, ConcatEmptySeq
  <2>4. RepeatText(t, c.a) = t
    BY <1>2, <1>3, <1>5, <2>2, <2>3
  <2>5. Gives(h, Repeat(h, c), Undef, <<t>>)
    BY <2>1, StepsSame, GivesSame DEF t
  <2> QED
    BY <2>4, <2>5 DEF t
<1>6. CASE c.a > 1
  <2> DEFINE n == c.a - 1
  <2>1. n \in Nat /\ n > 0 /\ n + 1 = c.a
    BY <1>6
  <2>2. Repeat(h, c) = Made(ConcatCopies(h, c.this, n))
    BY <1>6 DEF Repeat
  <2> HIDE DEF n
  <2> QED
    BY <2>1, <2>2, CopiesGive
<1> QED
  BY <1>4, <1>5, <1>6

-----------------------------------------------------------------------------
(***************************************************************************)
(* split.  The pieces from position p on, as the loop finds them: up to the*)
(* next place where a piece ends, and then the pieces behind it.           *)
(***************************************************************************)
Pieced == Seq(Seq(Chars))

Ends(t, s, p) == {i \in Matches(t, s) : i >= p /\ i + Len(s) # p /\ i # Len(t)}

CutStep(t, s, tail, p) ==
  IF Ends(t, s, p) = {} THEN <<Slice(t, p, Len(t))>>
  ELSE <<Slice(t, p, Lowest(Ends(t, s, p)))>> \o tail[Lowest(Ends(t, s, p)) + Len(s)]

\* Where a piece may start: the empty separator leaves none at the end.
Starts(t, s, p) == p \in 0..Len(t) /\ (p < Len(t) \/ Len(s) > 0)

Cuts(tail, t, s) ==
  \A p \in 0..Len(t) :
    Starts(t, s, p) => tail[p] \in Pieced /\ tail[p] = CutStep(t, s, tail, p)

\* A turn of the loop.
State == [list : Pieced, p : Nat, q : Nat, on : BOOLEAN]

StartState == [list |-> <<>>, p |-> 0, q |-> 0, on |-> TRUE]

AreTurns(turn, f, c, n) ==
  turn = [k \in 0..n |-> IF k = 0 THEN [list |-> <<>>, p |-> 0, q |-> 0, on |-> TRUE]
                         ELSE SplitTurn(f, c, turn[k - 1])]

LEMMA TurnsExist ==
  ASSUME NEW f, NEW c, NEW n \in Nat
  PROVE  \E turn : AreTurns(turn, f, c, n)
<1> DEFINE z == [list |-> <<>>, p |-> 0, q |-> 0, on |-> TRUE]
           R == {m \in 0..n : \E turn : AreTurns(turn, f, c, m)}
<1>1. 0 \in R
  <2> DEFINE g == [k \in 0..0 |-> z]
  <2>1. AreTurns(g, f, c, 0)
    <3> HIDE DEF z
    <3>1. g = [k \in 0..0 |-> IF k = 0 THEN z ELSE SplitTurn(f, c, g[k - 1])]
      OBVIOUS
    <3> QED
      BY <3>1 DEF AreTurns, z
  <2> HIDE DEF g
  <2> QED
    BY <2>1
<1>2. ASSUME NEW m \in 1..n, m - 1 \in R PROVE m \in R
  <2>1. PICK e : AreTurns(e, f, c, m - 1)
    BY <1>2
  <2> HIDE DEF z
  <2> DEFINE g == [k \in 0..m |-> IF k = 0 THEN z ELSE SplitTurn(f, c, e[k - 1])]
  <2>2. \A k \in 0..(m - 1) : e[k] = IF k = 0 THEN z ELSE SplitTurn(f, c, e[k - 1])
    BY <2>1 DEF AreTurns, z
  <2>3. \A k \in 0..(m - 1) : k \in 0..m /\ g[k] = e[k]
    BY <2>2
  <2>4. \A k \in 0..m : k # 0 => k - 1 \in 0..(m - 1)
    OBVIOUS
  <2>5. \A k \in 0..m : g[k] = IF k = 0 THEN z ELSE SplitTurn(f, c, g[k - 1])
    BY <2>3, <2>4
  <2>7. g = [k \in 0..m |-> IF k = 0 THEN z ELSE SplitTurn(f, c, g[k - 1])]
    BY <2>5
  <2> HIDE DEF g
  <2>6. AreTurns(g, f, c, m)
    BY <2>7 DEF AreTurns, z
  <2> QED
    BY <2>6
<1>3. n \in R
  <2> HIDE DEF R
  <2> QED
    BY <1>1, <1>2, UpTo
<1> QED
  BY <1>3

LEMMA TurnsAre ==
  ASSUME NEW f, NEW c, 2 * f[c.this].length + 1 \in Nat
  PROVE  \E turn : /\ AreTurns(turn, f, c, 2 * f[c.this].length + 1)
                   /\ SplitLoop(f, c) = turn[2 * f[c.this].length + 1].list
<1> DEFINE n == 2 * f[c.this].length + 1
<1>1. PICK turn : AreTurns(turn, f, c, n)
  <2>1. n \in Nat
    OBVIOUS
  <2> HIDE DEF n
  <2> QED
    BY <2>1, TurnsExist
<1> DEFINE e == CHOOSE g : g = [k \in 0..n |->
                  IF k = 0 THEN [list |-> <<>>, p |-> 0, q |-> 0, on |-> TRUE]
                  ELSE SplitTurn(f, c, g[k - 1])]
<1>2. SplitLoop(f, c) = e[n].list
  BY DEF SplitLoop
<1> HIDE DEF n
<1>3. AreTurns(e, f, c, n)
  BY <1>1, Zenon DEF AreTurns
<1> HIDE DEF e
<1> QED
  BY <1>2, <1>3 DEF n

\* What a turn does to the list, in terms of the texts.
SplitsAs(f, c, t, s) ==
  /\ t \in Seq(Chars) /\ s \in Seq(Chars)
  /\ f[c.this].length = Len(t) /\ f[c.arg].length = Len(s) /\ TextOf(f)[c.this] = t
  /\ \A q \in Nat : SplitMatch(f, c.this, c.arg, q) <=> MatchesAt(t, s, q)

LEMMA TurnIs ==
  ASSUME NEW f, NEW c, NEW t, NEW s, SplitsAs(f, c, t, s), NEW x \in State
  PROVE  /\ ~x.on => SplitTurn(f, c, x) = x
         /\ x.on /\ x.q = Len(t) =>
              SplitTurn(f, c, x) = [list |-> Append(x.list, Slice(t, x.p, x.q)),
                                    p |-> x.p, q |-> x.q, on |-> FALSE]
         /\ x.on /\ x.q # Len(t) /\ ~(MatchesAt(t, s, x.q) /\ x.q + Len(s) # x.p) =>
              SplitTurn(f, c, x) = [list |-> x.list, p |-> x.p, q |-> x.q + 1, on |-> TRUE]
         /\ x.on /\ x.q # Len(t) /\ MatchesAt(t, s, x.q) /\ x.q + Len(s) # x.p =>
              SplitTurn(f, c, x) = [list |-> Append(x.list, Slice(t, x.p, x.q)),
                                    p |-> x.q + Len(s), q |-> x.q + Len(s),
                                    on |-> Len(x.list) + 1 # c.a]
<1> DEFINE w == Len(t)
           e == x.q + Len(s)
           piece == Slice(t, x.p, x.q)
           match == MatchesAt(t, s, x.q) /\ e # x.p
<1>1. x = [list |-> x.list, p |-> x.p, q |-> x.q, on |-> x.on] /\ x.q \in Nat /\ x.on \in BOOLEAN
  BY DEF State
<1>2. /\ f[c.this].length = w /\ x.q + f[c.arg].length = e
      /\ SubSeq(TextOf(f)[c.this], x.p + 1, x.q) = piece
      /\ SplitMatch(f, c.this, c.arg, x.q) <=> MatchesAt(t, s, x.q)
  BY <1>1 DEF SplitsAs, Slice
<1> HIDE DEF w, e, piece
<1>3. SplitTurn(f, c, x) =
        CASE ~x.on -> x
          [] x.on /\ x.q = w ->
               [list |-> Append(x.list, piece), p |-> x.p, q |-> x.q, on |-> FALSE]
          [] x.on /\ x.q # w /\ ~match -> [x EXCEPT !.q = @ + 1]
          [] x.on /\ x.q # w /\ match ->
               [list |-> Append(x.list, piece), p |-> e, q |-> e, on |-> Len(x.list) + 1 # c.a]
  BY <1>2 DEF SplitTurn
<1> DEFINE turn == SplitTurn(f, c, x)
<1> HIDE DEF match, turn
<1>4. /\ ~x.on => turn = x
      /\ x.on /\ x.q = w =>
           turn = [list |-> Append(x.list, piece), p |-> x.p, q |-> x.q, on |-> FALSE]
      /\ x.on /\ x.q # w /\ ~match => turn = [x EXCEPT !.q = @ + 1]
      /\ x.on /\ x.q # w /\ match =>
           turn = [list |-> Append(x.list, piece), p |-> e, q |-> e, on |-> Len(x.list) + 1 # c.a]
  BY <1>3 DEF turn
<1>5. x.on => [x EXCEPT !.q = @ + 1]
                   = [list |-> x.list, p |-> x.p, q |-> x.q + 1, on |-> TRUE]
  <2>2. [x EXCEPT !.q = @ + 1] = [list |-> x.list, p |-> x.p, q |-> x.q + 1, on |-> x.on]
    BY DEF State
  <2>3. x.on => x.on = TRUE
    BY <1>1, Zenon
  <2> QED
    BY <2>2, <2>3
<1> QED
  BY <1>4, <1>5 DEF turn, match, w, e, piece

\* The loop, from the pieces it has to the pieces there are.
Going(x, k, t, s, tail, a) ==
  /\ x.list \o tail[x.p] = tail[0]
  /\ \A i \in Ends(t, s, x.p) : i >= x.q
  /\ x.p + x.q >= k
  /\ a # Undef => Len(x.list) < a

Ended(x, tail, a) ==
  \/ x.list = tail[0] /\ (a # Undef => Len(x.list) <= a)
  \/ Len(x.list) = a /\ \E rest \in Pieced : x.list \o rest = tail[0]

LoopInv(x, k, t, s, tail, a) ==
  /\ x \in State /\ x.p <= x.q /\ x.q <= Len(t) /\ Starts(t, s, x.p)
  /\ x.on => Going(x, k, t, s, tail, a)
  /\ ~x.on => Ended(x, tail, a)

LEMMA SliceIs ==
  ASSUME NEW t \in Seq(Chars), NEW p \in Nat, NEW q \in Nat, p <= q, q <= Len(t)
  PROVE  Slice(t, p, q) \in Seq(Chars)
<1> DEFINE len == q - p
<1>1. len \in Nat /\ p + len = q
  OBVIOUS
<1> HIDE DEF len
<1>2. SubSeq(t, p + 1, p + len) \in Seq(Chars)
  BY <1>1, SubIs
<1> QED
  BY <1>1, <1>2 DEF Slice

\* One more piece.
LEMMA OnePiece ==
  ASSUME NEW list \in Pieced, NEW piece \in Seq(Chars), NEW rest \in Pieced
  PROVE  /\ Append(list, piece) \in Pieced /\ Len(Append(list, piece)) = Len(list) + 1
         /\ Append(list, piece) = list \o <<piece>>
         /\ Append(list, piece) \o rest = list \o (<<piece>> \o rest)
<1>1. list \in Seq(Seq(Chars)) /\ rest \in Seq(Seq(Chars)) /\ <<piece>> \in Seq(Seq(Chars))
  BY DEF Pieced
<1>2. Append(list, piece) \in Seq(Seq(Chars)) /\ Len(Append(list, piece)) = Len(list) + 1
  BY <1>1, AppendProperties
<1>3. Append(list, piece) = list \o <<piece>>
  BY <1>1, AppendIsConcat
<1>4. (list \o <<piece>>) \o rest = list \o (<<piece>> \o rest)
  BY <1>1, ConcatAssociative
<1> QED
  BY <1>2, <1>3, <1>4 DEF Pieced

LEMMA EndsAre ==
  ASSUME NEW t \in Seq(Chars), NEW s \in Seq(Chars), NEW p \in Nat
  PROVE  /\ Ends(t, s, p) \in SUBSET Nat
         /\ \A i \in Nat : i \in Ends(t, s, p) <=>
              MatchesAt(t, s, i) /\ i >= p /\ i + Len(s) # p /\ i # Len(t)
<1>1. \A i \in Ends(t, s, p) : i \in Nat
  BY MatchesAreNat DEF Ends
<1>2. \A i \in Nat : i \in Matches(t, s) <=> MatchesAt(t, s, i)
  BY MatchHolds
<1>3. Ends(t, s, p) \in SUBSET Nat
  BY <1>1
<1>4. \A i \in Nat : i \in Ends(t, s, p) <=>
        MatchesAt(t, s, i) /\ i >= p /\ i + Len(s) # p /\ i # Len(t)
  BY <1>2 DEF Ends
<1> QED
  BY <1>3, <1>4

LEMMA TurnKeeps ==
  ASSUME NEW f, NEW c, NEW t, NEW s, SplitsAs(f, c, t, s), Len(t) > 0,
         NEW tail, Cuts(tail, t, s), c.a \in Nat \/ c.a = Undef, c.a # 0,
         NEW k \in Nat, NEW x, LoopInv(x, k, t, s, tail, c.a)
  PROVE  LoopInv(SplitTurn(f, c, x), k + 1, t, s, tail, c.a)
<1> DEFINE y == SplitTurn(f, c, x)
           w == Len(t)
           m == Len(s)
           p == x.p
           q == x.q
           a == c.a
           list == x.list
           piece == Slice(t, p, q)
           longer == Append(list, piece)
           e == q + m
<1>1. /\ x \in State /\ p <= q /\ q <= w /\ Starts(t, s, p) /\ p \in Nat /\ q \in Nat
      /\ list \in Pieced /\ x.on \in BOOLEAN
  BY DEF LoopInv, State
<1>2. t \in Seq(Chars) /\ s \in Seq(Chars) /\ w \in Nat /\ m \in Nat
  BY LenProperties DEF SplitsAs
<1>3. piece \in Seq(Chars)
  BY <1>1, <1>2, SliceIs
<1>4. /\ ~x.on => y = x
      /\ x.on /\ q = w => y = [list |-> longer, p |-> p, q |-> q, on |-> FALSE]
      /\ x.on /\ q # w /\ ~(MatchesAt(t, s, q) /\ e # p) =>
           y = [list |-> list, p |-> p, q |-> q + 1, on |-> TRUE]
      /\ x.on /\ q # w /\ MatchesAt(t, s, q) /\ e # p =>
           y = [list |-> longer, p |-> e, q |-> e, on |-> Len(list) + 1 # a]
  BY <1>1, TurnIs
<1>5. x.on => /\ list \o tail[p] = tail[0]
              /\ \A i \in Ends(t, s, p) : i >= q
              /\ p + q >= k
              /\ a # Undef => Len(list) < a
  BY DEF LoopInv, Going
<1>6. tail[p] \in Pieced /\ tail[p] = CutStep(t, s, tail, p)
  BY <1>1 DEF Cuts, Starts
<1>7. /\ Ends(t, s, p) \in SUBSET Nat
      /\ \A i \in Nat : i \in Ends(t, s, p) <=>
           MatchesAt(t, s, i) /\ i >= p /\ i + m # p /\ i # w
  BY <1>1, <1>2, EndsAre
<1>8. longer \in Pieced /\ Len(longer) = Len(list) + 1 /\ Len(list) \in Nat
      /\ longer = list \o <<piece>>
      /\ \A rest \in Pieced : longer \o rest = list \o (<<piece>> \o rest)
  BY <1>1, <1>3, OnePiece, LenProperties DEF Pieced
<1> DEFINE Now(z) == LoopInv(z, k + 1, t, s, tail, a)
<1> HIDE DEF y, w, m, a, list, piece, longer
<1>9. CASE ~x.on
  <2>1. Ended(x, tail, a)
    BY <1>9 DEF LoopInv, a
  <2>2. Now(x)
    BY <1>1, <1>9, <2>1 DEF LoopInv, w
  <2> QED
    BY <1>4, <1>9, <2>2 DEF y, a
<1>10. CASE x.on /\ q = w
  <2> DEFINE z == [list |-> longer, p |-> p, q |-> q, on |-> FALSE]
  <2>1. Ends(t, s, p) = {}
    <3>1. ASSUME NEW i \in Ends(t, s, p) PROVE FALSE
      <4>1. i \in Nat /\ i >= w /\ i # w /\ MatchesAt(t, s, i)
        BY <1>5, <1>7, <1>10
      <4>2. i + m <= w
        BY <1>2, <4>1, MatchIs DEF m, w
      <4> QED
        BY <1>2, <4>1, <4>2
    <3> QED
      BY <3>1
  <2>2. tail[p] = <<piece>>
    BY <1>6, <1>10, <2>1 DEF CutStep, piece, w
  <2>3. longer = tail[0]
    BY <1>5, <1>8, <1>10, <2>2
  <2>4. a # Undef => Len(longer) <= a
    <3>1. a # Undef => a \in Nat
      BY DEF a
    <3> QED
      BY <1>5, <1>8, <1>10, <3>1
  <2>5. z \in State /\ z.p = p /\ z.q = q /\ z.list = longer /\ ~z.on
    BY <1>1, <1>8 DEF State
  <2>6. y = z
    BY <1>4, <1>10
  <2> HIDE DEF z
  <2>7. Ended(z, tail, a)
    BY <2>3, <2>4, <2>5 DEF Ended
  <2>8. Now(z)
    BY <1>1, <2>5, <2>7 DEF LoopInv, w
  <2> QED
    BY <2>6, <2>8 DEF y, a
<1>11. CASE x.on /\ q # w /\ ~(MatchesAt(t, s, q) /\ e # p)
  <2> DEFINE z == [list |-> list, p |-> p, q |-> q + 1, on |-> TRUE]
  <2>1. z \in State /\ z.p = p /\ z.q = q + 1 /\ z.list = list /\ z.on
    BY <1>1 DEF State
  <2>2. y = z
    BY <1>4, <1>11
  <2> HIDE DEF z
  <2>3. ASSUME NEW i \in Ends(t, s, p) PROVE i >= q + 1
    <3>1. i \in Nat /\ i >= q /\ MatchesAt(t, s, i) /\ i + m # p
      BY <1>5, <1>7, <1>11
    <3>2. i # q
      BY <1>11, <3>1
    <3> QED
      BY <1>1, <3>1, <3>2
  <2>4. p + (q + 1) >= k + 1 /\ p <= q + 1 /\ q + 1 <= w
    BY <1>1, <1>2, <1>5, <1>11
  <2>5. Going(z, k + 1, t, s, tail, a)
    BY <1>5, <1>11, <2>1, <2>3, <2>4 DEF Going
  <2>6. Now(z)
    BY <1>1, <2>1, <2>4, <2>5 DEF LoopInv, w
  <2> QED
    BY <2>2, <2>6 DEF y, a
<1>12. CASE x.on /\ q # w /\ MatchesAt(t, s, q) /\ e # p
  <2> DEFINE b == Len(list) + 1 # a
             z == [list |-> longer, p |-> e, q |-> e, on |-> b]
  <2>1. e \in Nat /\ e >= q /\ e <= w
    <3>1. q + m <= w
      BY <1>1, <1>2, <1>12, MatchIs DEF m, w
    <3> QED
      BY <1>1, <1>2, <3>1
  <2>2. b \in BOOLEAN
    OBVIOUS
  <2>3. y = z
    BY <1>4, <1>12
  <2> HIDE DEF b
  <2>4. z \in State /\ z.p = e /\ z.q = e /\ z.list = longer /\ z.on = b
    BY <1>8, <2>1, <2>2 DEF State
  <2> HIDE DEF z, e
  <2>5. q \in Ends(t, s, p)
    BY <1>1, <1>7, <1>12 DEF e
  <2>6. Lowest(Ends(t, s, p)) = q
    <3> DEFINE S == Ends(t, s, p)
    <3>1. S \in SUBSET Nat /\ q \in S /\ \A i \in S : i >= q
      BY <1>5, <1>7, <1>12, <2>5
    <3> HIDE DEF S
    <3>2. Lowest(S) \in S /\ Lowest(S) <= q
      BY <3>1, LowestIs
    <3> DEFINE v == Lowest(S)
    <3>4. v \in Nat /\ v <= q /\ v >= q
      BY <3>1, <3>2
    <3> HIDE DEF v
    <3>3. v = q
      BY <1>1, <3>4
    <3> QED
      BY <3>3 DEF S, v
  <2>7. tail[p] = <<piece>> \o tail[e]
    BY <1>6, <2>5, <2>6 DEF CutStep, piece, e, m
  <2>8. Starts(t, s, e)
    <3>1. e < w \/ m > 0
      BY <1>1, <1>2, <1>12, <2>1 DEF e
    <3> QED
      BY <1>2, <2>1, <3>1 DEF Starts, w, m
  <2>9. tail[e] \in Pieced
    BY <2>8 DEF Cuts, Starts
  <2>10. longer \o tail[e] = tail[0]
    BY <1>5, <1>8, <1>12, <2>7, <2>9
  <2>11. ASSUME NEW i \in Ends(t, s, e) PROVE i >= e
    BY <1>2, <2>1, EndsAre, <2>11
  <2>12. e + e >= k + 1
    <3>1. p + q >= k /\ p <= q /\ q <= e /\ e # p
      BY <1>1, <1>5, <1>12, <2>1
    <3> QED
      BY <1>1, <2>1, <3>1
  <2>13. a # Undef => a \in Nat /\ Len(list) < a
    BY <1>5, <1>12 DEF a
  <2>14. CASE b
    <3>1. a # Undef => Len(longer) < a
      BY <1>8, <2>13, <2>14 DEF b
    <3>2. Going(z, k + 1, t, s, tail, a)
      BY <2>4, <2>10, <2>11, <2>12, <3>1 DEF Going
    <3>3. e <= e
      BY <2>1
    <3>4. Now(z)
      BY <2>1, <2>4, <2>8, <2>14, <3>2, <3>3 DEF LoopInv, w
    <3> QED
      BY <2>3, <3>4 DEF y, a
  <2>15. CASE ~b
    <3>1. Len(longer) = a
      BY <1>8, <2>15 DEF b
    <3>2. Ended(z, tail, a)
      BY <2>4, <2>9, <2>10, <3>1 DEF Ended
    <3>3. e <= e
      BY <2>1
    <3>4. Now(z)
      BY <2>1, <2>4, <2>8, <2>15, <3>2, <3>3 DEF LoopInv, w
    <3> QED
      BY <2>3, <3>4 DEF y, a
  <2> QED
    BY <2>14, <2>15
<1> QED
  BY <1>9, <1>10, <1>11, <1>12

LEMMA LoopGives ==
  ASSUME NEW f, NEW c, NEW t, NEW s, SplitsAs(f, c, t, s), Len(t) > 0,
         NEW tail, Cuts(tail, t, s), c.a \in Nat \/ c.a = Undef, c.a # 0
  PROVE  SplitLoop(f, c) = SubSeq(tail[0], 1, Clamp(Or(c.a, Len(tail[0])), 0, Len(tail[0])))
<1> DEFINE w == Len(t)
           a == c.a
           n == 2 * w + 1
           all == tail[0]
           L == Len(all)
<1>1. w \in Nat /\ f[c.this].length = w /\ t \in Seq(Chars) /\ s \in Seq(Chars)
      /\ (a \in Nat \/ a = Undef) /\ a # 0
  BY LenProperties DEF SplitsAs
<1>2. PICK turn : AreTurns(turn, f, c, n) /\ SplitLoop(f, c) = turn[n].list
  <2>1. 2 * f[c.this].length + 1 \in Nat
    BY <1>1
  <2>2. PICK turn : /\ AreTurns(turn, f, c, 2 * f[c.this].length + 1)
                    /\ SplitLoop(f, c) = turn[2 * f[c.this].length + 1].list
    BY <2>1, TurnsAre
  <2> QED
    BY <1>1, <2>2
<1>3. \A k \in 0..n : turn[k] = IF k = 0 THEN StartState ELSE SplitTurn(f, c, turn[k - 1])
  <2> HIDE DEF n
  <2>1. turn = [k \in 0..n |-> IF k = 0 THEN StartState ELSE SplitTurn(f, c, turn[k - 1])]
    BY <1>2 DEF AreTurns, StartState
  <2> QED
    BY <2>1
<1>4. Starts(t, s, 0) /\ all \in Pieced
  <2>1. 0 \in 0..Len(t) /\ 0 < Len(t)
    BY <1>1
  <2>2. Starts(t, s, 0)
    BY <2>1 DEF Starts
  <2> QED
    BY <2>1, <2>2 DEF Cuts
<1>5. L \in Nat
  BY <1>4, LenProperties DEF Pieced
<1> DEFINE S == {k \in 0..n : LoopInv(turn[k], k, t, s, tail, a)}
<1>6. 0 \in S
  <2>1. n \in Nat /\ 0 \in 0..n
    BY <1>1
  <2> HIDE DEF n
  <2>2. turn[0] = StartState
    BY <1>3, <2>1
  <2>3. /\ StartState.list = <<>> /\ StartState.p = 0 /\ StartState.q = 0 /\ StartState.on
        /\ StartState \in State
    <3>1. <<>> \in Pieced
      BY DEF Pieced
    <3> QED
      BY <3>1 DEF StartState, State
  <2>4. <<>> \o all = all
    BY <1>4, ConcatEmptySeq DEF Pieced
  <2>5. \A i \in Ends(t, s, 0) : i >= 0
    BY <1>1, EndsAre
  <2>6. Len(<<>>) = 0 /\ (a # Undef => 0 < a) /\ 0 + 0 >= 0 /\ 0 <= 0 /\ 0 <= Len(t)
    BY <1>1
  <2>7. Going(StartState, 0, t, s, tail, a)
    BY <2>3, <2>4, <2>5, <2>6 DEF Going
  <2>8. LoopInv(StartState, 0, t, s, tail, a)
    BY <1>4, <2>3, <2>6, <2>7 DEF LoopInv
  <2> QED
    BY <2>1, <2>2, <2>8
<1>7. ASSUME NEW k \in 1..n, k - 1 \in S PROVE k \in S
  <2>1. k - 1 \in Nat /\ (k - 1) + 1 = k /\ k \in 0..n /\ k # 0
    BY <1>1
  <2> DEFINE x == turn[k - 1]
  <2>2. LoopInv(x, k - 1, t, s, tail, a) /\ turn[k] = SplitTurn(f, c, x)
    BY <1>3, <1>7, <2>1
  <2> HIDE DEF x, n
  <2>3. LoopInv(SplitTurn(f, c, x), (k - 1) + 1, t, s, tail, a)
    BY <2>1, <2>2, TurnKeeps
  <2> QED
    BY <2>1, <2>2, <2>3
<1>8. LoopInv(turn[n], n, t, s, tail, a)
  <2>1. n \in Nat /\ n \in 0..n
    BY <1>1
  <2> HIDE DEF S, n
  <2>2. n \in S
    BY <1>6, <1>7, <2>1, UpTo
  <2> QED
    BY <2>2 DEF S
<1> DEFINE x == turn[n]
<1>9. x.p \in Nat /\ x.q \in Nat /\ x.p <= x.q /\ x.q <= w /\ x.list \in Pieced /\ x.on \in BOOLEAN
  BY <1>8 DEF LoopInv, State
<1>10. ~x.on
  <2>1. ASSUME x.on PROVE FALSE
    <3>1. x.p + x.q >= n
      BY <1>8, <2>1 DEF LoopInv, Going
    <3> HIDE DEF x
    <3> QED
      BY <1>1, <1>9, <3>1
  <2> QED
    BY <2>1
<1>11. Ended(x, tail, a)
  BY <1>8, <1>10 DEF LoopInv
<1>12. SplitLoop(f, c) = x.list
  BY <1>2
<1>13. Len(x.list) \in Nat
  BY <1>9, LenProperties DEF Pieced
<1> HIDE DEF x, all, L, a, n
<1> DEFINE cut == Clamp(Or(a, L), 0, L)
<1>14. CASE x.list = all /\ (a # Undef => Len(x.list) <= a)
  <2>1. cut = L
    BY <1>1, <1>5, <1>14 DEF Clamp, Or, L
  <2>2. SubSeq(all, 1, L) = all
    BY <1>4, SubWhole DEF Pieced, L
  <2> QED
    BY <1>12, <1>14, <2>1, <2>2 DEF all, L, a
<1>15. CASE Len(x.list) = a /\ \E rest \in Pieced : x.list \o rest = all
  <2>1. PICK rest \in Pieced : x.list \o rest = all
    BY <1>15
  <2> DEFINE u == x.list
  <2>2. u \in Pieced /\ Len(u) = a /\ a \in Nat
    BY <1>9, <1>13, <1>15
  <2> HIDE DEF u
  <2>3. u \o rest = all
    BY <2>1 DEF u
  <2>4. /\ Len(all) = a + Len(rest) /\ Len(rest) \in Nat
        /\ \A i \in 1..(a + Len(rest)) : all[i] = IF i <= a THEN u[i] ELSE rest[i - a]
    BY <2>2, <2>3, ConcatProperties, LenProperties DEF Pieced
  <2>5. a <= L /\ a # Undef
    BY <2>2, <2>4 DEF L, Undef
  <2>6. cut = a
    BY <1>5, <2>2, <2>5 DEF Clamp, Or
  <2> DEFINE v == SubSeq(all, 0 + 1, 0 + a)
  <2>7. v \in Seq(Seq(Chars)) /\ Len(v) = a /\ \A i \in 1..a : v[i] = all[0 + i]
    <3>1. 0 \in Nat /\ 0 + a <= Len(all) /\ all \in Seq(Seq(Chars))
      BY <1>4, <2>2, <2>4 DEF Pieced
    <3> QED
      BY <2>2, <3>1, SubIs
  <2> HIDE DEF v
  <2>8. ASSUME NEW i \in 1..a PROVE v[i] = u[i]
    <3>1. i \in 1..(a + Len(rest)) /\ i <= a /\ 0 + i = i
      BY <2>2, <2>4
    <3> QED
      BY <2>4, <2>7, <3>1
  <2>9. v = u
    BY <2>2, <2>7, <2>8, SeqEqual DEF Pieced
  <2>10. SubSeq(all, 1, a) = u
    BY <2>2, <2>9 DEF v
  <2> QED
    BY <1>12, <2>6, <2>10 DEF u, all, L, a
<1> QED
  BY <1>11, <1>14, <1>15 DEF Ended, all

-----------------------------------------------------------------------------
(***************************************************************************)
(* The pieces the standard asks for are those the loop finds.              *)
(***************************************************************************)
PieceStep(t, s, f, p) ==
  IF MatchesFrom(t, s, p) = {} THEN <<Slice(t, p, Len(t))>>
  ELSE <<Slice(t, p, Lowest(MatchesFrom(t, s, p)))>>
         \o f[Lowest(MatchesFrom(t, s, p)) + Len(s)]

ArePieces(f, t, s, low) == f = [p \in low..Len(t) |-> PieceStep(t, s, f, p)]

LEMMA NextPlace ==
  ASSUME NEW t \in Seq(Chars), NEW s \in Seq(Chars), Len(s) > 0, NEW p \in Nat
  PROVE  /\ Ends(t, s, p) = MatchesFrom(t, s, p)
         /\ MatchesFrom(t, s, p) # {} =>
              /\ Lowest(MatchesFrom(t, s, p)) \in Nat
              /\ Lowest(MatchesFrom(t, s, p)) >= p
              /\ Lowest(MatchesFrom(t, s, p)) <= Len(t)
              /\ Lowest(MatchesFrom(t, s, p)) + Len(s) \in (p + 1)..Len(t)
<1> DEFINE w == Len(t)
           m == Len(s)
           S == MatchesFrom(t, s, p)
<1>1. w \in Nat /\ m \in Nat /\ m > 0
  BY LenProperties
<1>2. ASSUME NEW i \in Matches(t, s) PROVE i \in Nat /\ i + m <= w
  <2>1. i \in Nat
    BY MatchesAreNat
  <2>2. MatchesAt(t, s, i)
    BY <2>1, MatchHolds
  <2> QED
    BY <2>1, <2>2, MatchIs
<1>3. \A i \in S : i \in Nat /\ i >= p /\ i + m <= w
  BY <1>2 DEF MatchesFrom
<1>4. Ends(t, s, p) = S
  <2>1. \A i \in Matches(t, s) : i >= p => i + m # p /\ i # w
    BY <1>1, <1>2
  <2> QED
    BY <2>1 DEF Ends, MatchesFrom
<1> HIDE DEF S, w, m
<1>5. ASSUME S # {}
      PROVE  /\ Lowest(S) \in Nat /\ Lowest(S) >= p /\ Lowest(S) <= w
             /\ Lowest(S) + m \in (p + 1)..w
  <2> DEFINE v == Lowest(S)
  <2>1. S \in SUBSET Nat
    BY <1>3
  <2>2. v \in S
    BY <1>5, <2>1, LowestIs
  <2>3. v \in Nat /\ v >= p /\ v + m <= w
    BY <1>3, <2>2
  <2> HIDE DEF v
  <2>4. v <= w /\ v + m \in (p + 1)..w
    BY <1>1, <2>3
  <2> QED
    BY <2>3, <2>4 DEF v
<1> QED
  BY <1>4, <1>5 DEF S, w, m

LEMMA PiecesExist ==
  ASSUME NEW t \in Seq(Chars), NEW s \in Seq(Chars), Len(s) > 0
  PROVE  \E f : ArePieces(f, t, s, 0)
<1> DEFINE w == Len(t)
           n == w + 1
           R == {r \in 0..n : \E f : ArePieces(f, t, s, n - r)}
<1>1. w \in Nat /\ n \in Nat /\ n - 0 = n /\ n - n = 0 /\ 0 \in 0..n /\ n \in 0..n
  BY LenProperties
<1>2. 0 \in R
  <2> DEFINE f == [p \in n..w |-> 0]
  <2>1. n..w = {}
    BY <1>1
  <2>2. f = [p \in n..w |-> PieceStep(t, s, f, p)]
    BY <2>1
  <2> HIDE DEF f
  <2>3. ArePieces(f, t, s, n - 0)
    BY <1>1, <2>2 DEF ArePieces
  <2> QED
    BY <1>1, <2>3
<1>3. ASSUME NEW r \in 1..n, r - 1 \in R PROVE r \in R
  <2> DEFINE low == n - r
  <2>1. low \in Nat /\ low <= w /\ n - (r - 1) = low + 1 /\ r \in 0..n
    BY <1>1
  <2>2. PICK f : ArePieces(f, t, s, low + 1)
    BY <1>3, <2>1
  <2> HIDE DEF low, n
  <2> DEFINE g == [p \in low..w |-> PieceStep(t, s, f, p)]
  <2>3. \A p \in (low + 1)..w : p \in low..w /\ f[p] = PieceStep(t, s, f, p)
    <3>1. f = [p \in (low + 1)..w |-> PieceStep(t, s, f, p)]
      BY <2>2 DEF ArePieces
    <3>2. \A p \in (low + 1)..w : f[p] = PieceStep(t, s, f, p)
      BY <3>1
    <3>3. \A p \in (low + 1)..w : p \in low..w
      BY <1>1, <2>1
    <3> QED
      BY <3>2, <3>3
  <2>4. \A p \in (low + 1)..w : g[p] = f[p]
    BY <2>3
  <2>5. ASSUME NEW p \in low..w PROVE PieceStep(t, s, g, p) = PieceStep(t, s, f, p)
    <3> DEFINE S == MatchesFrom(t, s, p)
               v == Lowest(S) + Len(s)
    <3>1. p \in Nat
      BY <2>1
    <3>2. S # {} => v \in (p + 1)..w
      BY <3>1, NextPlace
    <3>3. S # {} => v \in (low + 1)..w
      BY <1>1, <2>1, <3>1, <3>2
    <3>4. S # {} => g[v] = f[v]
      BY <2>4, <3>3
    <3> HIDE DEF g
    <3> QED
      BY <3>4 DEF PieceStep
  <2>6. g = [p \in low..w |-> PieceStep(t, s, g, p)]
    BY <2>5
  <2> HIDE DEF g
  <2>7. ArePieces(g, t, s, n - r)
    BY <2>6 DEF ArePieces, low
  <2> QED
    BY <2>1, <2>7
<1>4. n \in R
  <2> HIDE DEF R, n
  <2> QED
    BY <1>1, <1>2, <1>3, UpTo
<1> QED
  BY <1>1, <1>4

LEMMA PiecesAre ==
  ASSUME NEW t \in Seq(Chars), NEW s \in Seq(Chars), Len(s) > 0
  PROVE  \E f : ArePieces(f, t, s, 0) /\ Pieces(t, s) = f[0]
<1> DEFINE e == CHOOSE f : f = [p \in 0..Len(t) |->
                  IF MatchesFrom(t, s, p) = {} THEN <<Slice(t, p, Len(t))>>
                  ELSE <<Slice(t, p, Lowest(MatchesFrom(t, s, p)))>>
                         \o f[Lowest(MatchesFrom(t, s, p)) + Len(s)]]
<1>1. PICK f : ArePieces(f, t, s, 0)
  BY PiecesExist
<1>2. Pieces(t, s) = e[0]
  BY DEF Pieces
<1>3. ArePieces(e, t, s, 0)
  BY <1>1, Zenon DEF ArePieces, PieceStep
<1> HIDE DEF e
<1> QED
  BY <1>2, <1>3

LEMMA PiecesCut ==
  ASSUME NEW t \in Seq(Chars), NEW s \in Seq(Chars), Len(s) > 0
  PROVE  \E tail : Cuts(tail, t, s) /\ tail[0] = Pieces(t, s)
<1> DEFINE w == Len(t)
           n == w + 1
<1>1. w \in Nat /\ n \in Nat /\ n - 0 = n /\ n - n = 0 /\ 0 \in 0..n /\ n \in 0..n
  BY LenProperties
<1>2. PICK f : ArePieces(f, t, s, 0) /\ Pieces(t, s) = f[0]
  BY PiecesAre
<1>3. \A p \in 0..w : f[p] = PieceStep(t, s, f, p)
  BY <1>2 DEF ArePieces
<1>4. ASSUME NEW p \in 0..w PROVE f[p] = CutStep(t, s, f, p)
  <2>1. p \in Nat
    BY <1>1
  <2>2. Ends(t, s, p) = MatchesFrom(t, s, p)
    BY <2>1, NextPlace
  <2> QED
    BY <1>3, <2>2 DEF PieceStep, CutStep
<1> DEFINE R == {r \in 0..n : \A p \in (n - r)..w : f[p] \in Pieced}
<1>5. 0 \in R
  <2>1. \A p \in (n - 0)..w : FALSE
    BY <1>1
  <2> QED
    BY <1>1, <2>1
<1>6. ASSUME NEW r \in 1..n, r - 1 \in R PROVE r \in R
  <2> DEFINE p == n - r
             S == MatchesFrom(t, s, p)
             v == Lowest(S)
             m == Len(s)
  <2>1. p \in Nat /\ p <= w /\ n - (r - 1) = p + 1 /\ r \in 0..n /\ p \in 0..w
    BY <1>1
  <2>2. \A q \in (p + 1)..w : f[q] \in Pieced
    BY <1>6, <2>1
  <2>3. S # {} => v \in Nat /\ v >= p /\ v <= w /\ v + m \in (p + 1)..w
    BY <2>1, NextPlace
  <2>4. f[p] = IF S = {} THEN <<Slice(t, p, w)>> ELSE <<Slice(t, p, v)>> \o f[v + m]
    BY <1>3, <2>1 DEF PieceStep
  <2>5. \A q \in p..w : q = p \/ q \in (p + 1)..w
    BY <1>1, <2>1
  <2> HIDE DEF p, S, v, m, w
  <2>6. f[p] \in Pieced
    <3>1. CASE S = {}
      <4>1. Slice(t, p, w) \in Seq(Chars)
        BY <1>1, <2>1, SliceIs DEF w
      <4> QED
        BY <2>4, <3>1, <4>1 DEF Pieced
    <3>2. CASE S # {}
      <4>1. Slice(t, p, v) \in Seq(Chars)
        BY <1>1, <2>1, <2>3, <3>2, SliceIs DEF w
      <4>2. f[v + m] \in Seq(Seq(Chars)) /\ <<Slice(t, p, v)>> \in Seq(Seq(Chars))
        BY <2>2, <2>3, <3>2, <4>1 DEF Pieced
      <4>3. <<Slice(t, p, v)>> \o f[v + m] \in Seq(Seq(Chars))
        BY <4>2, ConcatProperties
      <4> QED
        BY <2>4, <3>2, <4>3 DEF Pieced
    <3> QED
      BY <3>1, <3>2
  <2>7. \A q \in p..w : f[q] \in Pieced
    BY <2>2, <2>5, <2>6
  <2> QED
    BY <2>1, <2>7 DEF p
<1>7. n \in R
  <2> HIDE DEF R, n
  <2> QED
    BY <1>1, <1>5, <1>6, UpTo
<1>8. \A p \in 0..w : f[p] \in Pieced
  BY <1>1, <1>7
<1>9. Cuts(f, t, s)
  BY <1>4, <1>8 DEF Cuts
<1> QED
  BY <1>2, <1>9

LEMMA SingleSlice ==
  ASSUME NEW t \in Seq(Chars), NEW p \in Nat, p < Len(t)
  PROVE  Slice(t, p, p + 1) = <<t[p + 1]>> /\ t[p + 1] \in Chars
<1>1. Len(t) \in Nat /\ p + 1 \in 1..Len(t)
  BY LenProperties
<1>2. t[p + 1] \in Chars
  BY <1>1, ElementOfSeq
<1> DEFINE u == SubSeq(t, p + 1, p + 1)
           v == <<t[p + 1]>>
<1>3. u \in Seq(Chars) /\ Len(u) = 1 /\ \A i \in 1..1 : u[i] = t[p + i]
  <2> DEFINE k == 1
  <2>1. p + k <= Len(t) /\ k \in Nat
    BY <1>1
  <2> HIDE DEF k, u
  <2>2. /\ SubSeq(t, p + 1, p + k) \in Seq(Chars) /\ Len(SubSeq(t, p + 1, p + k)) = k
        /\ \A i \in 1..k : SubSeq(t, p + 1, p + k)[i] = t[p + i]
    BY <2>1, SubIs
  <2>3. u = SubSeq(t, p + 1, p + k) /\ k = 1
    BY DEF u, k
  <2> QED
    BY <2>2, <2>3
<1>4. v \in Seq(Chars) /\ Len(v) = 1 /\ v[1] = t[p + 1]
  BY <1>2
<1> HIDE DEF u, v
<1>5. u = v
  <2>1. \A i \in 1..1 : i = 1
    OBVIOUS
  <2>2. \A i \in 1..Len(u) : u[i] = v[i]
    BY <1>3, <1>4, <2>1
  <2> QED
    BY <1>3, <1>4, <2>2, SeqEqual
<1> QED
  BY <1>2, <1>5 DEF u, v, Slice

LEMMA LettersCut ==
  ASSUME NEW t \in Seq(Chars), NEW s \in Seq(Chars), Len(s) = 0
  PROVE  \E tail : Cuts(tail, t, s) /\ tail[0] = [i \in 1..Len(t) |-> <<t[i]>>]
<1> DEFINE w == Len(t)
           tail == [p \in 0..w |-> [i \in 1..(w - p) |-> <<t[p + i]>>]]
<1>1. w \in Nat /\ s = <<>>
  BY LenProperties
<1>2. ASSUME NEW p \in 0..w
      PROVE  /\ tail[p] \in Pieced /\ Len(tail[p]) = w - p
             /\ \A i \in 1..(w - p) : tail[p][i] = <<t[p + i]>>
  <2> DEFINE k == w - p
             u == [i \in 1..k |-> <<t[p + i]>>]
  <2>1. k \in Nat /\ \A i \in 1..k : p + i \in 1..w
    BY <1>1
  <2>2. \A i \in 1..k : <<t[p + i]>> \in Seq(Chars)
    BY <2>1, ElementOfSeq
  <2>3. tail[p] = u
    OBVIOUS
  <2> HIDE DEF k, w, tail
  <2>4. u \in [1..k -> Seq(Chars)] /\ DOMAIN u = 1..k
    BY <2>2
  <2>5. \A i \in 1..k : u[i] = <<t[p + i]>>
    OBVIOUS
  <2> HIDE DEF u
  <2>6. u \in Seq(Seq(Chars)) /\ Len(u) = k
    BY <2>1, <2>4
  <2> QED
    BY <2>3, <2>5, <2>6 DEF k, Pieced
<1>3. tail[0] = [i \in 1..Len(t) |-> <<t[i]>>]
  <2>1. 0 \in 0..w /\ w - 0 = w /\ \A i \in 1..w : 0 + i = i
    BY <1>1
  <2>2. tail[0] = [i \in 1..(w - 0) |-> <<t[0 + i]>>]
    BY <2>1
  <2> QED
    BY <2>1, <2>2
<1> HIDE DEF tail
<1>4. ASSUME NEW p \in 0..w, p < w PROVE tail[p] = CutStep(t, s, tail, p)
  <2> DEFINE S == Ends(t, s, p)
             q == p + 1
  <2>1. p \in Nat /\ q \in Nat /\ q <= w
    BY <1>1, <1>4
  <2>2. \A i \in Nat : MatchesAt(t, s, i) <=> i <= w
    <3>1. ASSUME NEW i \in Nat PROVE MatchesAt(t, s, i) <=> i <= w
      <4>1. i + 0 = i /\ SubSeq(t, i + 1, i) = <<>>
        BY SubNone
      <4> QED
        BY <1>1, <4>1 DEF MatchesAt, Slice
    <3> QED
      BY <3>1
  <2>3. S \in SUBSET Nat /\ \A i \in Nat : i \in S <=> i <= w /\ i >= p /\ i # p /\ i # w
    <3>1. \A i \in Nat : i + Len(s) = i
      OBVIOUS
    <3> QED
      BY <2>1, <2>2, <3>1, EndsAre
  <2>4. Slice(t, p, q) = <<t[q]>> /\ t[q] \in Chars
    BY <1>4, <2>1, SingleSlice
  <2> HIDE DEF S
  <2>5. CASE q = w
    <3>1. S = {}
      <4>1. ASSUME NEW i \in S PROVE FALSE
        <5>1. i \in Nat /\ i <= w /\ i >= p /\ i # p /\ i # w
          BY <2>3
        <5> QED
          BY <2>1, <2>5, <5>1
      <4> QED
        BY <4>1
    <3>2. CutStep(t, s, tail, p) = <<Slice(t, p, q)>>
      BY <2>5, <3>1 DEF CutStep, S
    <3> DEFINE u == tail[p]
               v == <<<<t[q]>>>>
    <3>3. u \in Seq(Seq(Chars)) /\ Len(u) = 1 /\ u[1] = <<t[q]>>
      <4>1. w - p = 1 /\ 1 \in 1..1
        BY <2>1, <2>5
      <4> QED
        BY <1>2, <4>1 DEF Pieced
    <3>4. v \in Seq(Seq(Chars)) /\ Len(v) = 1 /\ v[1] = <<t[q]>>
      BY <2>4
    <3> HIDE DEF u, v
    <3>5. \A i \in 1..Len(u) : u[i] = v[i]
      <4>1. \A i \in 1..1 : i = 1
        OBVIOUS
      <4> QED
        BY <3>3, <3>4, <4>1
    <3>6. u = v
      BY <3>3, <3>4, <3>5, SeqEqual
    <3> QED
      BY <2>4, <3>2, <3>6 DEF u, v
  <2>6. CASE q # w
    <3>1. q \in S /\ \A i \in S : q <= i
      <4>1. q \in S
        BY <1>1, <2>1, <2>3, <2>6
      <4>2. ASSUME NEW i \in S PROVE q <= i
        <5>1. i \in Nat /\ i >= p /\ i # p
          BY <2>3
        <5> QED
          BY <2>1, <5>1
      <4> QED
        BY <4>1, <4>2
    <3>2. Lowest(S) = q
      <4> DEFINE v == Lowest(S)
      <4>1. v \in S /\ v <= q /\ q <= v
        BY <2>3, <3>1, LowestIs
      <4>2. v \in Nat
        BY <2>3, <4>1
      <4> HIDE DEF v
      <4>3. v = q
        BY <2>1, <4>1, <4>2
      <4> QED
        BY <4>3 DEF v
    <3>3. CutStep(t, s, tail, p) = <<Slice(t, p, q)>> \o tail[q]
      <4>1. S # {} /\ q + Len(s) = q
        BY <2>1, <3>1
      <4> QED
        BY <3>2, <4>1 DEF CutStep, S
    <3> DEFINE u == tail[p]
               a == <<<<t[q]>>>>
               b == tail[q]
               k == w - q
    <3>4. /\ k \in Nat /\ w - p = k + 1
          /\ u \in Seq(Seq(Chars)) /\ Len(u) = k + 1
          /\ \A i \in 1..(k + 1) : u[i] = <<t[p + i]>>
      <4>1. k \in Nat /\ w - p = k + 1
        BY <1>1, <2>1
      <4> HIDE DEF k
      <4> QED
        BY <1>2, <4>1 DEF Pieced
    <3>5. /\ b \in Seq(Seq(Chars)) /\ Len(b) = k
          /\ \A i \in 1..k : b[i] = <<t[q + i]>>
      <4>1. q \in 0..w
        BY <1>1, <2>1
      <4> HIDE DEF q
      <4> QED
        BY <1>2, <4>1 DEF Pieced
    <3>6. a \in Seq(Seq(Chars)) /\ Len(a) = 1 /\ a[1] = <<t[q]>>
      BY <2>4
    <3> HIDE DEF u, a, b, k
    <3>7. /\ a \o b \in Seq(Seq(Chars)) /\ Len(a \o b) = 1 + k
          /\ \A i \in 1..(1 + k) : (a \o b)[i] = IF i <= 1 THEN a[i] ELSE b[i - 1]
      <4> DEFINE x == Len(a)
                 y == Len(b)
      <4>3. a \in Seq(Seq(Chars)) /\ b \in Seq(Seq(Chars))
        BY <3>5, <3>6
      <4>1. /\ a \o b \in Seq(Seq(Chars)) /\ Len(a \o b) = x + y
            /\ \A i \in 1..(x + y) : (a \o b)[i] = IF i <= x THEN a[i] ELSE b[i - x]
        BY <4>3, ConcatProperties
      <4>2. x = 1 /\ y = k
        BY <3>5, <3>6
      <4> HIDE DEF x, y
      <4> QED
        BY <4>1, <4>2
    <3>8. ASSUME NEW i \in 1..(k + 1) PROVE u[i] = (a \o b)[i]
      <4>1. i \in 1..(1 + k) /\ (i <= 1 => i = 1) /\ (~(i <= 1) => i - 1 \in 1..k /\ q + (i - 1) = p + i)
        BY <2>1, <3>4
      <4>2. u[i] = <<t[p + i]>>
        BY <3>4
      <4>3. CASE i <= 1
        BY <3>6, <3>7, <4>1, <4>2, <4>3
      <4>4. CASE ~(i <= 1)
        BY <3>5, <3>7, <4>1, <4>2, <4>4
      <4> QED
        BY <4>3, <4>4
    <3>9. u = a \o b
      <4>1. Len(u) = Len(a \o b)
        BY <3>4, <3>7
      <4> QED
        BY <3>4, <3>7, <3>8, <4>1, SeqEqual
    <3> QED
      BY <2>4, <3>3, <3>9 DEF u, a, b
  <2> QED
    BY <2>5, <2>6
<1>5. Cuts(tail, t, s)
  <2>1. \A p \in 0..w : Starts(t, s, p) => p < w
    BY <1>1 DEF Starts
  <2> QED
    BY <1>2, <1>4, <2>1 DEF Cuts
<1> QED
  BY <1>3, <1>5

\* What split should answer is a prefix of the pieces.
Prefix(all, a) == SubSeq(all, 1, Clamp(Or(a, Len(all)), 0, Len(all)))

LEMMA SplitTextIs ==
  ASSUME NEW t \in Seq(Chars), NEW s \in Seq(Chars), NEW a
  PROVE  \E tail : Cuts(tail, t, s) /\ SplitText(t, s, a) = Prefix(tail[0], a)
<1>1. CASE Len(s) = 0
  <2>1. s = <<>>
    BY <1>1
  <2>2. PICK tail : Cuts(tail, t, s) /\ tail[0] = [i \in 1..Len(t) |-> <<t[i]>>]
    BY <1>1, LettersCut
  <2>3. SplitText(t, s, a) = Prefix(tail[0], a)
    BY <2>1, <2>2 DEF SplitText, Prefix
  <2> QED
    BY <2>2, <2>3
<1>2. CASE Len(s) # 0
  <2>1. s # <<>> /\ Len(s) > 0
    BY <1>2, LenProperties
  <2>2. PICK tail : Cuts(tail, t, s) /\ tail[0] = Pieces(t, s)
    BY <2>1, PiecesCut
  <2>3. SplitText(t, s, a) = Prefix(tail[0], a)
    BY <2>1, <2>2 DEF SplitText, Prefix
  <2> QED
    BY <2>2, <2>3
<1> QED
  BY <1>1, <1>2

LEMMA FirstIsPieced ==
  ASSUME NEW t \in Seq(Chars), NEW s \in Seq(Chars), NEW tail, Cuts(tail, t, s), Starts(t, s, 0)
  PROVE  tail[0] \in Pieced /\ tail[0] = CutStep(t, s, tail, 0)
<1>1. 0 \in 0..Len(t)
  BY LenProperties
<1> QED
  BY <1>1 DEF Cuts

\* What the standard answers when the limit is zero, or the string is empty.
LEMMA SplitNone ==
  ASSUME NEW t \in Seq(Chars), NEW s \in Seq(Chars)
  PROVE  SplitText(t, s, 0) = <<>>
<1>1. PICK tail : Cuts(tail, t, s) /\ SplitText(t, s, 0) = Prefix(tail[0], 0)
  BY SplitTextIs
<1> DEFINE all == tail[0]
<1>2. CASE Starts(t, s, 0)
  <2>1. all \in Seq(Seq(Chars)) /\ Len(all) \in Nat
    BY <1>1, <1>2, FirstIsPieced, LenProperties DEF Pieced
  <2> HIDE DEF all
  <2>2. Clamp(Or(0, Len(all)), 0, Len(all)) = 0
    BY <2>1 DEF Clamp, Or, Undef
  <2>3. SubSeq(all, 1, 0) = <<>>
    BY <2>1
  <2> QED
    BY <1>1, <2>2, <2>3 DEF Prefix, all
<1>3. CASE ~Starts(t, s, 0)
  <2>1. Len(t) = 0 /\ Len(s) = 0
    BY <1>3, LenProperties DEF Starts
  <2>2. s = <<>> /\ [i \in 1..Len(t) |-> <<t[i]>>] = <<>>
    BY <2>1
  <2>3. SplitText(t, s, 0) = SubSeq(<<>>, 1, Clamp(Or(0, 0), 0, 0))
    BY <2>2 DEF SplitText
  <2>4. Clamp(Or(0, 0), 0, 0) = 0
    BY DEF Clamp, Or, Undef
  <2> QED
    BY <2>3, <2>4
<1> QED
  BY <1>2, <1>3

LEMMA SplitEmpty ==
  ASSUME NEW t \in Seq(Chars), NEW s \in Seq(Chars), NEW a, a \in Nat \/ a = Undef, a # 0,
         Len(t) = 0
  PROVE  SplitText(t, s, a) = IF MatchesAt(t, s, 0) THEN <<>> ELSE <<<<>>>>
<1>1. CASE Len(s) = 0
  <2>1. s = <<>> /\ t = <<>> /\ [i \in 1..Len(t) |-> <<t[i]>>] = <<>>
    BY <1>1
  <2>2. SplitText(t, s, a) = SubSeq(<<>>, 1, Clamp(Or(a, 0), 0, 0))
    BY <2>1 DEF SplitText
  <2>3. Clamp(Or(a, 0), 0, 0) = 0
    BY DEF Clamp, Or, Undef
  <2>4. SubSeq(t, 1, 0) = <<>>
    BY <2>1
  <2>5. 0 + 0 <= 0 /\ 0 + 1 = 1 /\ 0 + 0 = 0
    OBVIOUS
  <2>6. MatchesAt(t, s, 0)
    BY <1>1, <2>1, <2>4, <2>5 DEF MatchesAt, Slice
  <2> QED
    BY <2>2, <2>3, <2>6
<1>2. CASE Len(s) # 0
  <2>1. Len(s) \in Nat /\ Len(s) > 0
    BY <1>2, LenProperties
  <2>2. PICK tail : Cuts(tail, t, s) /\ tail[0] = Pieces(t, s)
    BY <2>1, PiecesCut
  <2>3. \A i \in Nat : ~MatchesAt(t, s, i)
    <3>1. \A i \in Nat : ~(i + Len(s) <= Len(t))
      BY <2>1
    <3> QED
      BY <3>1 DEF MatchesAt
  <2>4. Ends(t, s, 0) = {}
    BY <2>3, MatchHolds, MatchesAreNat DEF Ends
  <2>5. Starts(t, s, 0)
    BY <2>1 DEF Starts
  <2>6. tail[0] = <<Slice(t, 0, Len(t))>>
    <3>1. tail[0] = CutStep(t, s, tail, 0)
      BY <2>2, <2>5, FirstIsPieced
    <3> QED
      BY <2>4, <3>1 DEF CutStep
  <2>7. Slice(t, 0, 0) = <<>>
    <3>1. 0 \in Nat /\ 0 <= 0
      OBVIOUS
    <3> QED
      BY <3>1, SliceEmpty
  <2>8. SplitText(t, s, a) = SubSeq(<<<<>>>>, 1, Clamp(Or(a, 1), 0, 1))
    <3>1. s # <<>> /\ Len(<<<<>>>>) = 1
      BY <1>2
    <3> QED
      BY <2>2, <2>6, <2>7, <3>1 DEF SplitText
  <2>9. Clamp(Or(a, 1), 0, 1) = 1
    BY DEF Clamp, Or, Undef
  <2>10. SubSeq(<<<<>>>>, 1, 1) = <<<<>>>>
    <3> DEFINE v == <<<<>>>>
               u == SubSeq(v, 1, Len(v))
    <3>1. v \in Seq(Seq(Chars)) /\ Len(v) = 1
      OBVIOUS
    <3> HIDE DEF v
    <3>2. SubSeq(v, 1, Len(v)) = v
      BY <3>1
    <3> QED
      BY <3>1, <3>2 DEF v
  <2> QED
    BY <2>3, <2>8, <2>9, <2>10
<1> QED
  BY <1>1, <1>2

LEMMA SplitGives ==
  ASSUME NEW h, Good(h), NEW c, c.this \in DOMAIN h, c.arg \in DOMAIN h,
         c.a \in Nat \/ c.a = Undef
  PROVE  Gives(h, Split(h, c), Undef, SplitText(TextOf(h)[c.this], TextOf(h)[c.arg], c.a))
<1> DEFINE f == IF h[c.arg].length > h[c.this].length THEN h ELSE Both(h, c.this, c.arg)
           t == TextOf(h)[c.this]
           s == TextOf(h)[c.arg]
           w == h[c.this].length
           m == h[c.arg].length
<1>1. /\ t \in Seq(Chars) /\ s \in Seq(Chars)
      /\ Len(t) = w /\ Len(s) = m /\ w \in Nat /\ m \in Nat
  BY TextIs
<1>2. Steps(h, f)
  BY BothFlat, StepsSame
<1>3. m <= w => f[c.this].flat = t /\ f[c.arg].flat = s
  <2>1. m <= w => f = Both(h, c.this, c.arg)
    BY <1>1
  <2> HIDE DEF f
  <2> QED
    BY <2>1, BothFlat
<1>4. Split(h, c) =
        CASE c.a = 0 -> Texts(h, <<>>)
          [] c.a # 0 /\ w = 0 ->
               IF SplitMatch(f, c.this, c.arg, 0) THEN Texts(f, <<>>) ELSE Texts(f, <<<<>>>>)
          [] c.a # 0 /\ w # 0 -> Texts(f, SplitLoop(f, c))
  BY DEF Split
<1> HIDE DEF f
<1>5. TextOf(f)[c.this] = t /\ f[c.this].length = w /\ f[c.arg].length = m
  BY <1>2 DEF Steps, Kept
<1> HIDE DEF t, s, w, m
<1>6. ASSUME NEW q \in Nat
      PROVE  SplitMatch(f, c.this, c.arg, q) <=> MatchesAt(t, s, q)
  <2>1. SplitMatch(f, c.this, c.arg, q) <=>
          /\ q + Len(s) <= Len(t)
          /\ \A i \in 0..(Len(s) - 1) : CharOf(f[c.this].flat, q + i) = CharOf(f[c.arg].flat, i)
    BY <1>1, <1>5 DEF SplitMatch
  <2>2. CASE q + Len(s) <= Len(t)
    <3>1. m <= w
      BY <1>1, <2>2
    <3>2. SplitMatch(f, c.this, c.arg, q) <=> Compares(t, s, q)
      BY <1>3, <2>1, <2>2, <3>1 DEF Compares
    <3> QED
      BY <1>1, <2>2, <3>2, MatchIs
  <2>3. CASE ~(q + Len(s) <= Len(t))
    BY <2>1, <2>3 DEF MatchesAt
  <2> QED
    BY <2>2, <2>3
<1>7. CASE c.a = 0
  <2>1. Gives(h, Texts(h, <<>>), Undef, <<>>)
    BY StepsSame, GivesTexts
  <2>2. SplitText(t, s, c.a) = <<>>
    BY <1>1, <1>7, SplitNone
  <2> QED
    BY <1>4, <1>7, <2>1, <2>2 DEF t, s
<1>8. CASE c.a # 0 /\ w = 0
  <2>1. Split(h, c) = IF MatchesAt(t, s, 0) THEN Texts(f, <<>>) ELSE Texts(f, <<<<>>>>)
    BY <1>4, <1>6, <1>8
  <2>2. SplitText(t, s, c.a) = IF MatchesAt(t, s, 0) THEN <<>> ELSE <<<<>>>>
    BY <1>1, <1>8, SplitEmpty
  <2>3. /\ Gives(h, Texts(f, <<>>), Undef, <<>>)
        /\ Gives(h, Texts(f, <<<<>>>>), Undef, <<<<>>>>)
    BY <1>2, GivesTexts
  <2>4. Gives(h, Split(h, c), Undef, SplitText(t, s, c.a))
    BY <2>1, <2>2, <2>3
  <2> QED
    BY <2>4 DEF t, s
<1>9. CASE c.a # 0 /\ w # 0
  <2>1. PICK tail : Cuts(tail, t, s) /\ SplitText(t, s, c.a) = Prefix(tail[0], c.a)
    BY <1>1, SplitTextIs
  <2>2. SplitsAs(f, c, t, s)
    BY <1>1, <1>5, <1>6 DEF SplitsAs
  <2>3. Len(t) > 0
    BY <1>1, <1>9
  <2>4. SplitLoop(f, c) = SplitText(t, s, c.a)
    BY <1>9, <2>1, <2>2, <2>3, LoopGives DEF Prefix
  <2>5. Split(h, c) = Texts(f, SplitText(t, s, c.a))
    BY <1>4, <1>9, <2>4
  <2>6. Gives(h, Split(h, c), Undef, SplitText(t, s, c.a))
    BY <1>2, <2>5, GivesTexts
  <2> QED
    BY <2>6 DEF t, s
<1> QED
  BY <1>7, <1>8, <1>9

-----------------------------------------------------------------------------
(***************************************************************************)
(* A call of a method, when no substring is taken of an irregular base.    *)
(***************************************************************************)
Legal(h, c) ==
  /\ c.this \in DOMAIN h
  /\ \/ c.op \in {"charAt", "charCodeAt", "codePointAt"} /\ c.a \in Int
     \/ c.op = "get" /\ c.a \in Int /\ c.a # Undef
     \/ c.op \in {"length", "toLowerCase", "toUpperCase", "toString", "fromCodePoint"}
     \/ /\ c.op \in {"substring", "slice", "substr"}
        /\ Regular(h, c.this) /\ c.a \in Int /\ c.b \in Int
     \/ /\ c.op \in {"indexOf", "lastIndexOf"}
        /\ c.arg \in DOMAIN h /\ h[c.arg].length > 0
     \/ c.op = "startsWith" /\ c.arg \in DOMAIN h /\ c.a \in Int
     \/ c.op = "contains" /\ c.arg \in DOMAIN h /\ h[c.arg].length > 0 /\ c.a \in Int
     \/ c.op = "endsWith" /\ c.arg \in DOMAIN h /\ c.a \in Int /\ h[c.arg].length <= EndOf(h, c)
     \/ c.op = "repeat" /\ c.a \in Nat
     \/ c.op = "replace" /\ c.arg \in DOMAIN h /\ h[c.arg].length > 0 /\ c.a \in DOMAIN h
     \/ c.op = "split" /\ c.arg \in DOMAIN h /\ (c.a \in Nat \/ c.a = Undef)
     \/ c.op = "concat" /\ c.arg \in DOMAIN h

LEMMA CallsAreLegal ==
  ASSUME AnyBase = FALSE, NEW h, Good(h), NEW c \in Calls(h)
  PROVE  Legal(h, c)
<1> DEFINE Ids == DOMAIN h
           Args == Positions \cup {Undef}
           Needles == {n \in Ids : h[n].length > 0}
           Bases == {n \in Ids : AnyBase \/ Regular(h, n)}
<1>1. /\ \A i \in Args : i \in Int
      /\ \A i \in Positions : i \in Int /\ i # Undef
      /\ \A i \in Sizes : i \in Nat
      /\ Undef \in Int
  BY StringsAssumption DEF Sizes, Undef
<1>2. /\ \A n \in Needles : n \in Ids /\ h[n].length > 0
      /\ \A n \in Bases : n \in Ids /\ Regular(h, n)
  OBVIOUS
<1>3. \/ \E op \in {"charAt", "charCodeAt", "codePointAt"}, s \in Ids, i \in Args :
        c = Call(op, s, NoString, i, Undef)
      \/ \E s \in Ids, i \in Positions : c = Call("get", s, NoString, i, Undef)
      \/ \E op \in {"length", "toLowerCase", "toUpperCase", "toString", "fromCodePoint"},
              s \in Ids : c = Call(op, s, NoString, Undef, Undef)
      \/ \E op \in {"substring", "slice"}, s \in Bases, i \in Args, j \in Args : c = Call(op,
              s, NoString, i, j)
      \/ \E s \in Bases, i \in Args, j \in Positions : c = Call("substr", s, NoString, i, j)
      \/ \E op \in {"indexOf", "lastIndexOf"}, s \in Ids, n \in Needles : c = Call(op, s, n,
              Undef, Undef)
      \/ \E op \in {"startsWith"}, s \in Ids, n \in Ids, i \in Args : c = Call(op, s, n, i, Undef)
      \/ \E s \in Ids, n \in Needles, i \in Args : c = Call("contains", s, n, i, Undef)
      \/ (\E s \in Ids, n \in Ids, i \in Args : c = Call("endsWith", s, n, i, Undef))
           /\ h[c.arg].length <= Least(IF c.a = Undef THEN h[c.this].length ELSE Most(c.a, 0),
                                       h[c.this].length)
      \/ \E s \in Ids, n \in Sizes : c = Call("repeat", s, NoString, n, Undef)
      \/ \E s \in Ids, n \in Needles, r \in Ids : c = Call("replace", s, n, r, Undef)
      \/ \E s \in Bases, n \in Ids, lim \in Sizes \cup {Undef} : c = Call("split", s, n, lim, Undef)
      \/ \E s \in Ids, n \in Ids : c = Call("concat", s, n, Undef, Undef)
  BY DEF Calls
<1> HIDE DEF Ids, Args, Needles, Bases
<1>4. CASE \E op \in {"charAt", "charCodeAt", "codePointAt"}, s \in Ids, i \in Args :
        c = Call(op, s, NoString, i, Undef)
  <2>1. PICK op \in {"charAt", "charCodeAt", "codePointAt"}, s \in Ids, i \in Args :
          c = Call(op, s, NoString, i, Undef)
    BY <1>4
  <2>2. c.op = op /\ c.this = s /\ c.arg = NoString /\ c.a = i /\ c.b = Undef
    BY <2>1 DEF Call
  <2> QED
    BY <1>1, <1>2, <2>2 DEF Legal, Ids
<1>5. CASE \E s \in Ids, i \in Positions : c = Call("get", s, NoString, i, Undef)
  <2>1. PICK s \in Ids, i \in Positions : c = Call("get", s, NoString, i, Undef)
    BY <1>5
  <2>2. c.op = "get" /\ c.this = s /\ c.arg = NoString /\ c.a = i /\ c.b = Undef
    BY <2>1 DEF Call
  <2> QED
    BY <1>1, <1>2, <2>2 DEF Legal, Ids
<1>6. CASE \E op \in {"length", "toLowerCase", "toUpperCase", "toString", "fromCodePoint"},
        s \in Ids : c = Call(op, s, NoString, Undef, Undef)
  <2>1. PICK op \in {"length", "toLowerCase", "toUpperCase", "toString", "fromCodePoint"},
          s \in Ids : c = Call(op, s, NoString, Undef, Undef)
    BY <1>6
  <2>2. c.op = op /\ c.this = s /\ c.arg = NoString /\ c.a = Undef /\ c.b = Undef
    BY <2>1 DEF Call
  <2> QED
    BY <1>1, <1>2, <2>2 DEF Legal, Ids
<1>7. CASE \E op \in {"substring", "slice"}, s \in Bases, i \in Args, j \in Args : c = Call(op,
        s, NoString, i, j)
  <2>1. PICK op \in {"substring", "slice"}, s \in Bases, i \in Args, j \in Args : c = Call(op,
          s, NoString, i, j)
    BY <1>7
  <2>2. c.op = op /\ c.this = s /\ c.arg = NoString /\ c.a = i /\ c.b = j
    BY <2>1 DEF Call
  <2> QED
    BY <1>1, <1>2, <2>2 DEF Legal, Ids
<1>8. CASE \E s \in Bases, i \in Args, j \in Positions : c = Call("substr", s, NoString, i, j)
  <2>1. PICK s \in Bases, i \in Args, j \in Positions : c = Call("substr", s, NoString, i, j)
    BY <1>8
  <2>2. c.op = "substr" /\ c.this = s /\ c.arg = NoString /\ c.a = i /\ c.b = j
    BY <2>1 DEF Call
  <2> QED
    BY <1>1, <1>2, <2>2 DEF Legal, Ids
<1>9. CASE \E op \in {"indexOf", "lastIndexOf"}, s \in Ids, n \in Needles : c = Call(op, s, n,
        Undef, Undef)
  <2>1. PICK op \in {"indexOf", "lastIndexOf"}, s \in Ids, n \in Needles : c = Call(op, s, n,
          Undef, Undef)
    BY <1>9
  <2>2. c.op = op /\ c.this = s /\ c.arg = n /\ c.a = Undef /\ c.b = Undef
    BY <2>1 DEF Call
  <2> QED
    BY <1>1, <1>2, <2>2 DEF Legal, Ids
<1>10. CASE \E op \in {"startsWith"}, s \in Ids, n \in Ids, i \in Args : c = Call(op, s, n, i,
        Undef)
  <2>1. PICK op \in {"startsWith"}, s \in Ids, n \in Ids, i \in Args : c = Call(op, s, n, i, Undef)
    BY <1>10
  <2>2. c.op = op /\ c.this = s /\ c.arg = n /\ c.a = i /\ c.b = Undef
    BY <2>1 DEF Call
  <2> QED
    BY <1>1, <1>2, <2>2 DEF Legal, Ids
<1>11. CASE \E s \in Ids, n \in Needles, i \in Args : c = Call("contains", s, n, i, Undef)
  <2>1. PICK s \in Ids, n \in Needles, i \in Args : c = Call("contains", s, n, i, Undef)
    BY <1>11
  <2>2. c.op = "contains" /\ c.this = s /\ c.arg = n /\ c.a = i /\ c.b = Undef
    BY <2>1 DEF Call
  <2> QED
    BY <1>1, <1>2, <2>2 DEF Legal, Ids
<1>12. CASE /\ (\E s \in Ids, n \in Ids, i \in Args : c = Call("endsWith", s, n, i, Undef))
           /\ h[c.arg].length <= Least(IF c.a = Undef THEN h[c.this].length ELSE Most(c.a, 0),
                                       h[c.this].length)
  <2>1. PICK s \in Ids, n \in Ids, i \in Args : c = Call("endsWith", s, n, i, Undef)
    BY <1>12
  <2>2. c.op = "endsWith" /\ c.this = s /\ c.arg = n /\ c.a = i
    BY <2>1 DEF Call
  <2>3. c.this \in DOMAIN h /\ c.arg \in DOMAIN h /\ c.a \in Int
    BY <1>1, <2>2 DEF Ids
  <2>4. h[c.this].length \in Nat
    BY <2>3, TextIs
  <2>5. Least(IF c.a = Undef THEN h[c.this].length ELSE Most(c.a, 0),
          h[c.this].length) = EndOf(h, c)
    BY <2>3, <2>4 DEF EndOf, Least, Most
  <2> QED
    BY <1>12, <2>2, <2>3, <2>5 DEF Legal
<1>13. CASE \E s \in Ids, n \in Sizes : c = Call("repeat", s, NoString, n, Undef)
  <2>1. PICK s \in Ids, n \in Sizes : c = Call("repeat", s, NoString, n, Undef)
    BY <1>13
  <2>2. c.op = "repeat" /\ c.this = s /\ c.arg = NoString /\ c.a = n /\ c.b = Undef
    BY <2>1 DEF Call
  <2> QED
    BY <1>1, <1>2, <2>2 DEF Legal, Ids
<1>14. CASE \E s \in Ids, n \in Needles, r \in Ids : c = Call("replace", s, n, r, Undef)
  <2>1. PICK s \in Ids, n \in Needles, r \in Ids : c = Call("replace", s, n, r, Undef)
    BY <1>14
  <2>2. c.op = "replace" /\ c.this = s /\ c.arg = n /\ c.a = r /\ c.b = Undef
    BY <2>1 DEF Call
  <2> QED
    BY <1>1, <1>2, <2>2 DEF Legal, Ids
<1>15. CASE \E s \in Bases, n \in Ids, lim \in Sizes \cup {Undef} : c = Call("split", s, n,
        lim, Undef)
  <2>1. PICK s \in Bases, n \in Ids, lim \in Sizes \cup {Undef} : c = Call("split", s, n, lim,
          Undef)
    BY <1>15
  <2>2. c.op = "split" /\ c.this = s /\ c.arg = n /\ c.a = lim /\ c.b = Undef
    BY <2>1 DEF Call
  <2> QED
    BY <1>1, <1>2, <2>2 DEF Legal, Ids
<1>16. CASE \E s \in Ids, n \in Ids : c = Call("concat", s, n, Undef, Undef)
  <2>1. PICK s \in Ids, n \in Ids : c = Call("concat", s, n, Undef, Undef)
    BY <1>16
  <2>2. c.op = "concat" /\ c.this = s /\ c.arg = n /\ c.a = Undef /\ c.b = Undef
    BY <2>1 DEF Call
  <2> QED
    BY <1>1, <1>2, <2>2 DEF Legal, Ids
<1> QED
  BY <1>3, <1>4, <1>5, <1>6, <1>7, <1>8, <1>9, <1>10, <1>11, <1>12, <1>13, <1>14, <1>15, <1>16

\* What a call does: the texts stay, and the answer is the standard's.
Agrees(h, c) ==
  /\ Steps(h, Do(h, c).heap)
  /\ Outside \notin Chars => AnswerOf(Do(h, c)) = Expected(TextOf(h), c)

LEMMA CallAgrees ==
  ASSUME NEW h, Good(h), NEW c, Legal(h, c)
  PROVE  Agrees(h, c)
<1>1. CASE c.op = "charAt"
  <2>1. Do(h, c) = CharAt(h, c)
    BY <1>1 DEF Do
  <2>2. Expected(TextOf(h), c) = [num |-> Undef, texts |-> <<CharText(TextOf(h)[c.this],
          ToInteger(c.a))>>]
    BY <1>1 DEF Expected, ToInteger, Or
  <2>3. c.this \in DOMAIN h /\ c.a \in Int
    BY <1>1 DEF Legal
  <2>4. Gives(h, CharAt(h, c), Undef, <<CharText(TextOf(h)[c.this], ToInteger(c.a))>>)
    BY <2>3, CharAtGives
  <2> QED
    BY <2>1, <2>2, <2>4 DEF Agrees, Gives
<1>2. CASE c.op = "charCodeAt"
  <2> DEFINE t == TextOf(h)[c.this]
             i == ToInteger(c.a)
  <2>1. Do(h, c) = CharCodeAt(h, c)
    BY <1>2 DEF Do
  <2>2. Expected(TextOf(h), c) =
          IF HasChar(t, i) THEN [num |-> Undef, texts |-> <<CharText(t, i)>>]
          ELSE [num |-> NaN, texts |-> <<>>]
    BY <1>2 DEF Expected, ToInteger, Or
  <2>3. c.this \in DOMAIN h /\ c.a \in Int
    BY <1>2 DEF Legal
  <2>4. IF HasChar(t, i) THEN Gives(h, CharCodeAt(h, c), Undef, <<CharText(t, i)>>)
        ELSE Gives(h, CharCodeAt(h, c), NaN, <<>>)
    BY <2>3, CharCodeAtGives
  <2> QED
    BY <2>1, <2>2, <2>4 DEF Agrees, Gives
<1>3. CASE c.op = "codePointAt"
  <2> DEFINE t == TextOf(h)[c.this]
             i == ToInteger(c.a)
  <2>1. Do(h, c) = CodePointAt(h, c)
    BY <1>3 DEF Do
  <2>2. Expected(TextOf(h), c) =
          IF HasChar(t, i) THEN [num |-> Undef, texts |-> <<CharText(t, i)>>]
          ELSE [num |-> Undef, texts |-> <<>>]
    BY <1>3 DEF Expected, ToInteger, Or
  <2>3. c.this \in DOMAIN h /\ c.a \in Int
    BY <1>3 DEF Legal
  <2>4. IF HasChar(t, i) THEN Gives(h, CodePointAt(h, c), Undef, <<CharText(t, i)>>)
        ELSE Gives(h, CodePointAt(h, c), Undef, <<>>)
    BY <2>3, CodePointAtGives
  <2> QED
    BY <2>1, <2>2, <2>4 DEF Agrees, Gives
<1>4. CASE c.op = "get"
  <2> DEFINE t == TextOf(h)[c.this]
             i == ToInteger(c.a)
  <2>1. Do(h, c) = StringGet(h, c)
    BY <1>4 DEF Do
  <2>2. Expected(TextOf(h), c) =
          IF HasChar(t, i) THEN [num |-> Undef, texts |-> <<CharText(t, i)>>]
          ELSE [num |-> Undef, texts |-> <<>>]
    BY <1>4 DEF Expected, ToInteger, Or
  <2>3. c.this \in DOMAIN h /\ c.a \in Int /\ c.a # Undef
    BY <1>4 DEF Legal
  <2>4. IF HasChar(t, i) THEN Gives(h, StringGet(h, c), Undef, <<CharText(t, i)>>)
        ELSE Gives(h, StringGet(h, c), Undef, <<>>)
    BY <2>3, StringGetGives
  <2> QED
    BY <2>1, <2>2, <2>4 DEF Agrees, Gives
<1>5. CASE c.op = "toString"
  <2>1. Do(h, c) = StringToString(h, c)
    BY <1>5 DEF Do
  <2>2. Expected(TextOf(h), c) = [num |-> Undef, texts |-> <<TextOf(h)[c.this]>>]
    BY <1>5 DEF Expected
  <2>3. c.this \in DOMAIN h
    BY <1>5 DEF Legal
  <2>4. Gives(h, StringToString(h, c), Undef, <<TextOf(h)[c.this]>>)
    BY <2>3, StepsSame, GivesSame DEF StringToString
  <2> QED
    BY <2>1, <2>2, <2>4 DEF Agrees, Gives
<1>6. CASE c.op = "fromCodePoint"
  <2>1. Do(h, c) = FromCodePoint(h, c)
    BY <1>6 DEF Do
  <2>2. Expected(TextOf(h), c) = [num |-> Undef, texts |-> <<TextOf(h)[c.this]>>]
    BY <1>6 DEF Expected
  <2>3. c.this \in DOMAIN h
    BY <1>6 DEF Legal
  <2>4. Gives(h, FromCodePoint(h, c), Undef, <<TextOf(h)[c.this]>>)
    BY <2>3, FromCodePointGives
  <2> QED
    BY <2>1, <2>2, <2>4 DEF Agrees, Gives
<1>7. CASE c.op = "length"
  <2>1. Do(h, c) = GetLength(h, c)
    BY <1>7 DEF Do
  <2>2. Expected(TextOf(h), c) = [num |-> Len(TextOf(h)[c.this]), texts |-> <<>>]
    BY <1>7 DEF Expected
  <2>3. c.this \in DOMAIN h
    BY DEF Legal
  <2>4. Len(TextOf(h)[c.this]) = h[c.this].length
    BY <2>3, TextIs
  <2>5. Gives(h, Num(h, h[c.this].length), h[c.this].length, <<>>)
    BY StepsSame, GivesNumber
  <2>6. Gives(h, GetLength(h, c), Len(TextOf(h)[c.this]), <<>>)
    BY <2>4, <2>5 DEF GetLength
  <2> QED
    BY <2>1, <2>2, <2>6 DEF Agrees, Gives
<1>8. CASE c.op = "toLowerCase"
  <2>1. Do(h, c) = ChangeCase(h, c, Lower)
    BY <1>8 DEF Do
  <2>2. Expected(TextOf(h), c) = [num |-> Undef, texts |-> <<Mapped(TextOf(h)[c.this], Lower)>>]
    BY <1>8 DEF Expected
  <2>3. c.this \in DOMAIN h
    BY <1>8 DEF Legal
  <2>4. Gives(h, ChangeCase(h, c, Lower), Undef, <<Mapped(TextOf(h)[c.this], Lower)>>)
    BY <2>3, CaseMaps, ChangeCaseGives
  <2> QED
    BY <2>1, <2>2, <2>4 DEF Agrees, Gives
<1>9. CASE c.op = "toUpperCase"
  <2>1. Do(h, c) = ChangeCase(h, c, Upper)
    BY <1>9 DEF Do
  <2>2. Expected(TextOf(h), c) = [num |-> Undef, texts |-> <<Mapped(TextOf(h)[c.this], Upper)>>]
    BY <1>9 DEF Expected
  <2>3. c.this \in DOMAIN h
    BY <1>9 DEF Legal
  <2>4. Gives(h, ChangeCase(h, c, Upper), Undef, <<Mapped(TextOf(h)[c.this], Upper)>>)
    BY <2>3, CaseMaps, ChangeCaseGives
  <2> QED
    BY <2>1, <2>2, <2>4 DEF Agrees, Gives
<1>10. CASE c.op = "substring"
  <2>1. Do(h, c) = Substring(h, c)
    BY <1>10 DEF Do
  <2>2. Expected(TextOf(h), c) = [num |-> Undef, texts |-> <<SubstringText(TextOf(h)[c.this],
          c.a, c.b)>>]
    BY <1>10 DEF Expected
  <2>3. c.this \in DOMAIN h /\ Regular(h, c.this) /\ c.a \in Int /\ c.b \in Int
    BY <1>10 DEF Legal
  <2>4. Gives(h, Substring(h, c), Undef, <<SubstringText(TextOf(h)[c.this], c.a, c.b)>>)
    BY <2>3, SubstringGives
  <2> QED
    BY <2>1, <2>2, <2>4 DEF Agrees, Gives
<1>11. CASE c.op = "slice"
  <2>1. Do(h, c) = StringSlice(h, c)
    BY <1>11 DEF Do
  <2>2. Expected(TextOf(h), c) = [num |-> Undef, texts |-> <<SliceText(TextOf(h)[c.this], c.a,
          c.b)>>]
    BY <1>11 DEF Expected
  <2>3. c.this \in DOMAIN h /\ Regular(h, c.this) /\ c.a \in Int /\ c.b \in Int
    BY <1>11 DEF Legal
  <2>4. Gives(h, StringSlice(h, c), Undef, <<SliceText(TextOf(h)[c.this], c.a, c.b)>>)
    BY <2>3, StringSliceGives
  <2> QED
    BY <2>1, <2>2, <2>4 DEF Agrees, Gives
<1>12. CASE c.op = "substr"
  <2>1. Do(h, c) = Substr(h, c)
    BY <1>12 DEF Do
  <2>2. Expected(TextOf(h), c) = [num |-> Undef, texts |-> <<SubstrText(TextOf(h)[c.this], c.a,
          c.b)>>]
    BY <1>12 DEF Expected
  <2>3. c.this \in DOMAIN h /\ Regular(h, c.this) /\ c.a \in Int /\ c.b \in Int
    BY <1>12 DEF Legal
  <2>4. Gives(h, Substr(h, c), Undef, <<SubstrText(TextOf(h)[c.this], c.a, c.b)>>)
    BY <2>3, SubstrGives
  <2> QED
    BY <2>1, <2>2, <2>4 DEF Agrees, Gives
<1>13. CASE c.op = "indexOf"
  <2>1. Do(h, c) = IndexOf(h, c)
    BY <1>13 DEF Do
  <2>2. Expected(TextOf(h), c) = [num |-> IndexOfText(TextOf(h)[c.this], TextOf(h)[c.arg]),
          texts |-> <<>>]
    BY <1>13 DEF Expected
  <2>3. c.this \in DOMAIN h /\ c.arg \in DOMAIN h /\ h[c.arg].length > 0
    BY <1>13 DEF Legal
  <2>4. Gives(h, IndexOf(h, c), IndexOfText(TextOf(h)[c.this], TextOf(h)[c.arg]), <<>>)
    BY <2>3, IndexOfGives
  <2> QED
    BY <2>1, <2>2, <2>4 DEF Agrees, Gives
<1>14. CASE c.op = "lastIndexOf"
  <2>1. Do(h, c) = LastIndexOf(h, c)
    BY <1>14 DEF Do
  <2>2. Expected(TextOf(h), c) = [num |-> LastIndexOfText(TextOf(h)[c.this], TextOf(h)[c.arg]),
          texts |-> <<>>]
    BY <1>14 DEF Expected
  <2>3. c.this \in DOMAIN h /\ c.arg \in DOMAIN h /\ h[c.arg].length > 0
    BY <1>14 DEF Legal
  <2>4. Steps(h, LastIndexOf(h, c).heap)
    BY <2>3, LastIndexOfSteps
  <2>5. ASSUME Outside \notin Chars
        PROVE  Gives(h, LastIndexOf(h, c), LastIndexOfText(TextOf(h)[c.this],
        TextOf(h)[c.arg]), <<>>)
    BY <2>3, <2>5, LastIndexOfGives
  <2> QED
    BY <2>1, <2>2, <2>4, <2>5 DEF Agrees, Gives
<1>15. CASE c.op = "startsWith"
  <2>1. Do(h, c) = StartsWith(h, c)
    BY <1>15 DEF Do
  <2>2. Expected(TextOf(h), c) = [num |-> Truth(StartsWithText(TextOf(h)[c.this],
          TextOf(h)[c.arg], c.a)), texts |-> <<>>]
    BY <1>15 DEF Expected, Truth
  <2>3. c.this \in DOMAIN h /\ c.arg \in DOMAIN h /\ c.a \in Int
    BY <1>15 DEF Legal
  <2>4. Gives(h, StartsWith(h, c), Truth(StartsWithText(TextOf(h)[c.this], TextOf(h)[c.arg],
          c.a)), <<>>)
    BY <2>3, StartsWithGives
  <2> QED
    BY <2>1, <2>2, <2>4 DEF Agrees, Gives
<1>16. CASE c.op = "contains"
  <2>1. Do(h, c) = Contains(h, c)
    BY <1>16 DEF Do
  <2>2. Expected(TextOf(h), c) = [num |-> Truth(ContainsText(TextOf(h)[c.this],
          TextOf(h)[c.arg], c.a)), texts |-> <<>>]
    BY <1>16 DEF Expected, Truth
  <2>3. c.this \in DOMAIN h /\ c.arg \in DOMAIN h /\ h[c.arg].length > 0 /\ c.a \in Int
    BY <1>16 DEF Legal
  <2>4. Gives(h, Contains(h, c), Truth(ContainsText(TextOf(h)[c.this], TextOf(h)[c.arg], c.a)),
          <<>>)
    BY <2>3, ContainsGives
  <2> QED
    BY <2>1, <2>2, <2>4 DEF Agrees, Gives
<1>17. CASE c.op = "endsWith"
  <2>1. Do(h, c) = EndsWith(h, c)
    BY <1>17 DEF Do
  <2>2. Expected(TextOf(h), c) = [num |-> Truth(EndsWithText(TextOf(h)[c.this],
          TextOf(h)[c.arg], c.a)), texts |-> <<>>]
    BY <1>17 DEF Expected, Truth
  <2>3. c.this \in DOMAIN h /\ c.arg \in DOMAIN h /\ c.a \in Int /\ h[c.arg].length <= EndOf(h, c)
    BY <1>17 DEF Legal
  <2>4. Gives(h, EndsWith(h, c), Truth(EndsWithText(TextOf(h)[c.this], TextOf(h)[c.arg], c.a)),
          <<>>)
    BY <2>3, EndsWithGives
  <2> QED
    BY <2>1, <2>2, <2>4 DEF Agrees, Gives
<1>18. CASE c.op = "repeat"
  <2>1. Do(h, c) = Repeat(h, c)
    BY <1>18 DEF Do
  <2>2. Expected(TextOf(h), c) = [num |-> Undef, texts |-> <<RepeatText(TextOf(h)[c.this], c.a)>>]
    BY <1>18 DEF Expected
  <2>3. c.this \in DOMAIN h /\ c.a \in Nat
    BY <1>18 DEF Legal
  <2>4. Gives(h, Repeat(h, c), Undef, <<RepeatText(TextOf(h)[c.this], c.a)>>)
    BY <2>3, RepeatGives
  <2> QED
    BY <2>1, <2>2, <2>4 DEF Agrees, Gives
<1>19. CASE c.op = "replace"
  <2>1. Do(h, c) = Replace(h, c)
    BY <1>19 DEF Do
  <2>2. Expected(TextOf(h), c) = [num |-> Undef, texts |-> <<ReplaceText(TextOf(h)[c.this],
          TextOf(h)[c.arg], TextOf(h)[c.a])>>]
    BY <1>19 DEF Expected
  <2>3. c.this \in DOMAIN h /\ c.arg \in DOMAIN h /\ h[c.arg].length > 0 /\ c.a \in DOMAIN h
    BY <1>19 DEF Legal
  <2>4. Gives(h, Replace(h, c), Undef, <<ReplaceText(TextOf(h)[c.this], TextOf(h)[c.arg],
          TextOf(h)[c.a])>>)
    BY <2>3, ReplaceGives
  <2> QED
    BY <2>1, <2>2, <2>4 DEF Agrees, Gives
<1>20. CASE c.op = "split"
  <2>1. Do(h, c) = Split(h, c)
    BY <1>20 DEF Do
  <2>2. Expected(TextOf(h), c) = [num |-> Undef, texts |-> SplitText(TextOf(h)[c.this],
          TextOf(h)[c.arg], c.a)]
    BY <1>20 DEF Expected
  <2>3. c.this \in DOMAIN h /\ c.arg \in DOMAIN h /\ (c.a \in Nat \/ c.a = Undef)
    BY <1>20 DEF Legal
  <2>4. Gives(h, Split(h, c), Undef, SplitText(TextOf(h)[c.this], TextOf(h)[c.arg], c.a))
    BY <2>3, SplitGives
  <2> QED
    BY <2>1, <2>2, <2>4 DEF Agrees, Gives
<1>21. CASE c.op = "concat"
  <2>1. Do(h, c) = Made(StringConcat(h, c.this, c.arg))
    BY <1>21 DEF Do
  <2>2. Expected(TextOf(h), c) = [num |-> Undef,
          texts |-> <<TextOf(h)[c.this] \o TextOf(h)[c.arg]>>]
    BY <1>21 DEF Expected
  <2>3. c.this \in DOMAIN h /\ c.arg \in DOMAIN h
    BY <1>21 DEF Legal
  <2>4. Gives(h, Made(StringConcat(h, c.this, c.arg)), Undef,
          <<TextOf(h)[c.this] \o TextOf(h)[c.arg]>>)
    BY <2>3, ConcatGives
  <2> QED
    BY <2>1, <2>2, <2>4 DEF Agrees, Gives
<1>22. c.op \in {"charAt", "charCodeAt", "codePointAt", "get", "toString", "fromCodePoint",
        "length", "toLowerCase", "toUpperCase", "substring", "slice", "substr", "indexOf",
        "lastIndexOf", "startsWith", "contains", "endsWith", "repeat", "replace", "split", "concat"}
  BY DEF Legal
<1> QED
  BY <1>1, <1>2, <1>3, <1>4, <1>5, <1>6, <1>7, <1>8, <1>9, <1>10, <1>11, <1>12, <1>13, <1>14,
          <1>15, <1>16, <1>17, <1>18, <1>19, <1>20, <1>21, <1>22

-----------------------------------------------------------------------------
(***************************************************************************)
(* The inductive invariant: a good heap within its bound, and an iterator  *)
(* that has given what lies before its position.                           *)
(***************************************************************************)
Iterator == [iterated : Nat, next : Nat, of : Nat, yielded : Seq(Chars), length : {0, Ucs2Length(1)}]

Follows(h, it) ==
  /\ it \in Iterator
  /\ it.of = NoString => it = NoIterator
  /\ it.of # NoString =>
       /\ it.of \in DOMAIN h /\ it.iterated \in {NoString, it.of}
       /\ it.next <= h[it.of].length
       /\ it.yielded = SubSeq(TextOf(h)[it.of], 1, it.next)
       /\ it.iterated = NoString => it.next = h[it.of].length

IInv == Good(heap) /\ Len(heap) <= MaxStrings /\ Follows(heap, iterator)

LEMMA FollowsKept ==
  ASSUME NEW h, NEW g, Good(h), Steps(h, g), NEW it, Follows(h, it)
  PROVE  Follows(g, it)
<1>1. Heap(h) /\ Heap(g) /\ Kept(h, g) /\ Len(h) <= Len(g)
  BY DEF Good, Steps, Kept
<1>2. \A n \in DOMAIN h : n \in DOMAIN g /\ TextOf(g)[n] = TextOf(h)[n] /\ g[n].length = h[n].length
  BY <1>1, KeptDomain DEF Kept
<1> QED
  BY <1>2 DEF Follows

LEMMA StartsFollowing ==
  ASSUME NEW h, Good(h), NEW s \in DOMAIN h
  PROVE  Follows(h, [NoIterator EXCEPT !.iterated = s, !.of = s])
<1> DEFINE it == [NoIterator EXCEPT !.iterated = s, !.of = s]
           t == TextOf(h)[s]
<1>1. s \in Nat /\ s # NoString
  BY HeapIs DEF Good, NoString
<1>2. t \in Seq(Chars) /\ h[s].length \in Nat
  BY TextIs
<1>3. it.iterated = s /\ it.next = 0 /\ it.of = s /\ it.yielded = <<>> /\ it \in Iterator
  <2>1. <<>> \in Seq(Chars) /\ 0 \in Nat
    OBVIOUS
  <2>2. NoIterator \in Iterator /\ NoIterator.next = 0 /\ NoIterator.yielded = <<>>
    BY <2>1 DEF NoIterator, Iterator, NoString
  <2> QED
    BY <1>1, <2>2 DEF Iterator
<1> HIDE DEF it
<1>4. SubSeq(t, 1, 0) = <<>>
  BY <1>2
<1>5. 0 <= h[s].length
  BY <1>2
<1>6. Follows(h, it)
  BY <1>1, <1>3, <1>4, <1>5 DEF Follows
<1> QED
  BY <1>6 DEF it

LEMMA PrefixGrows ==
  ASSUME NEW t \in Seq(Chars), NEW i \in Nat, i < Len(t)
  PROVE  /\ Append(SubSeq(t, 1, i), t[i + 1]) = SubSeq(t, 1, i + 1)
         /\ SubSeq(t, 1, i + 1) \in Seq(Chars)
<1> DEFINE w == Len(t)
           u == SubSeq(t, 0 + 1, 0 + i)
           v == SubSeq(t, 0 + 1, 0 + (i + 1))
           c == t[i + 1]
           a == Append(u, c)
<1>1. w \in Nat /\ i + 1 \in 1..w /\ i + 1 \in Nat /\ 0 + i <= w /\ 0 + (i + 1) <= w
  BY LenProperties
<1>2. c \in Chars
  BY <1>1, ElementOfSeq
<1>3. u \in Seq(Chars) /\ Len(u) = i /\ \A j \in 1..i : u[j] = t[0 + j]
  BY <1>1, SubIs
<1>4. v \in Seq(Chars) /\ Len(v) = i + 1 /\ \A j \in 1..(i + 1) : v[j] = t[0 + j]
  BY <1>1, SubIs
<1> HIDE DEF w, u, v, c
<1>5. /\ a \in Seq(Chars) /\ Len(a) = Len(u) + 1
      /\ \A j \in 1..Len(u) : a[j] = u[j]
      /\ a[Len(u) + 1] = c
  BY <1>2, <1>3, AppendProperties
<1> HIDE DEF a
<1>6. \A j \in 1..(i + 1) : a[j] = v[j]
  <2>1. ASSUME NEW j \in 1..(i + 1) PROVE a[j] = v[j]
    <3>1. CASE j \in 1..i
      BY <1>3, <1>4, <1>5, <3>1
    <3>2. CASE j = i + 1
      <4>1. v[j] = t[i + 1]
        BY <1>4, <3>2
      <4> QED
        BY <1>3, <1>5, <3>2, <4>1 DEF c
    <3> QED
      BY <3>1, <3>2
  <2> QED
    BY <2>1
<1>7. a = v
  <2>1. Len(a) = i + 1
    BY <1>3, <1>5
  <2> QED
    BY <1>4, <1>5, <1>6, <2>1, SeqEqual
<1> QED
  BY <1>4, <1>7 DEF a, u, v, c

LEMMA GoesOnFollowing ==
  ASSUME NEW h, Good(h), NEW it, Follows(h, it), it.iterated # NoString
  PROVE  Follows(h, IF it.next >= h[it.iterated].length
                    THEN [it EXCEPT !.iterated = NoString]
                    ELSE [it EXCEPT !.next = @ + 1,
                            !.length = Ucs2Length(1),
                            !.yielded = Append(@, StringAt(h)[it.iterated][it.next])])
<1> DEFINE t == TextOf(h)[it.of]
           w == h[it.of].length
           i == it.next
<1>1. it.of # NoString
  BY DEF Follows, NoIterator
<1>2. /\ it \in Iterator /\ it.of \in DOMAIN h /\ it.iterated = it.of
      /\ i <= w /\ it.yielded = SubSeq(t, 1, i) /\ i \in Nat
  BY <1>1 DEF Follows, Iterator
<1>3. t \in Seq(Chars) /\ Len(t) = w /\ w \in Nat
  BY <1>2, TextIs
<1>4. CASE i >= w
  <2> DEFINE done == [it EXCEPT !.iterated = NoString]
  <2>1. /\ done \in Iterator /\ done.iterated = NoString /\ done.next = i
        /\ done.of = it.of /\ done.yielded = it.yielded
    BY <1>2 DEF Iterator, NoString
  <2>2. i = w
    BY <1>2, <1>3, <1>4
  <2> HIDE DEF done
  <2>3. Follows(h, done)
    BY <1>1, <1>2, <2>1, <2>2 DEF Follows
  <2> QED
    BY <1>2, <1>4, <2>3 DEF done
<1>5. CASE ~(i >= w)
  <2> DEFINE x == StringAt(h)[it.of][i]
             more == [it EXCEPT !.next = @ + 1, !.length = Ucs2Length(1),
                        !.yielded = Append(@, x)]
  <2>1. i < w /\ i + 1 <= w /\ i >= 0 /\ i \in Int /\ i + 1 \in Nat
    BY <1>2, <1>3, <1>5
  <2>2. x = t[i + 1]
    BY <1>2, <2>1, CharOfText
  <2>3. /\ Append(SubSeq(t, 1, i), t[i + 1]) = SubSeq(t, 1, i + 1)
        /\ SubSeq(t, 1, i + 1) \in Seq(Chars)
    BY <1>2, <1>3, <2>1, PrefixGrows
  <2> HIDE DEF x
  <2>4. Append(it.yielded, x) = SubSeq(t, 1, i + 1)
    BY <1>2, <2>2, <2>3
  <2>5. /\ more.iterated = it.iterated /\ more.next = i + 1
        /\ more.of = it.of /\ more.yielded = Append(it.yielded, x)
        /\ (Append(it.yielded, x) \in Seq(Chars) /\ i + 1 \in Nat => more \in Iterator)
    BY <1>2 DEF Iterator
  <2> HIDE DEF more
  <2>6. Follows(h, more)
    BY <1>1, <1>2, <2>1, <2>3, <2>4, <2>5 DEF Follows
  <2> QED
    BY <1>2, <1>5, <2>6 DEF more, x
<1> QED
  BY <1>4, <1>5

LEMMA InitIInv ==
  Init => IInv
<1> SUFFICES ASSUME Init PROVE IInv
  OBVIOUS
<1> DEFINE L == Len(Literals)
<1>1. L \in Nat /\ L <= MaxStrings /\ \A i \in 1..L : Literals[i] \in Seq(Chars)
  BY StringsAssumption, LenProperties, ElementOfSeq
<1>2. heap = [i \in 1..L |-> FlatString(Literals[i])]
  BY DEF Init
<1> HIDE DEF L
<1>3. \A i \in 1..L : /\ heap[i] \in Node /\ heap[i].type = "flat" /\ ~heap[i].hasHash
                      /\ heap[i].length = Len(heap[i].flat)
  BY <1>1, <1>2, FlatIs
<1>4. heap \in Seq(Node) /\ Len(heap) = L /\ DOMAIN heap = 1..L
  <2>1. heap \in [1..L -> Node] /\ DOMAIN heap = 1..L
    BY <1>2, <1>3
  <2> QED
    BY <1>1, <2>1
<1>5. Good(heap)
  BY <1>3, <1>4 DEF Good, Heap, Sized, BasesRegular, HashesRight
<1>6. Follows(heap, iterator)
  BY DEF Init, Follows, Iterator, NoIterator, NoString
<1> QED
  BY <1>1, <1>4, <1>5, <1>6 DEF IInv

\* What a step does to the heap.
LEMMA HeapSteps ==
  ASSUME AnyBase = FALSE, IInv, [Next]_vars
  PROVE  Steps(heap, heap') /\ Len(heap') <= MaxStrings
<1>1. Good(heap) /\ Len(heap) <= MaxStrings
  BY DEF IInv
<1>2. CASE Method
  <2>1. PICK c \in Calls(heap) : heap' = Do(heap, c).heap /\ Len(heap') <= MaxStrings
    BY <1>2 DEF Method
  <2>2. Agrees(heap, c)
    BY <1>1, CallsAreLegal, CallAgrees
  <2> QED
    BY <2>1, <2>2 DEF Agrees
<1>3. CASE Hash
  <2>1. PICK s \in DOMAIN heap : heap' = PrimHash(heap, s)
    BY <1>3 DEF Hash
  <2>2. /\ Good(PrimHash(heap, s)) /\ Kept(heap, PrimHash(heap, s))
        /\ Len(PrimHash(heap, s)) = Len(heap)
    BY <1>1, HashKeeps
  <2> QED
    BY <1>1, <2>1, <2>2 DEF Steps
<1>4. CASE UNCHANGED heap
  BY <1>1, <1>4, StepsSame
<1> QED
  BY <1>2, <1>3, <1>4 DEF Next, NewIterator, IteratorNext, vars

LEMMA NextIInv ==
  ASSUME AnyBase = FALSE, IInv, [Next]_vars
  PROVE  IInv'
<1>1. Good(heap) /\ Follows(heap, iterator)
  BY DEF IInv
<1>2. Steps(heap, heap') /\ Len(heap') <= MaxStrings
  BY HeapSteps
<1>3. Good(heap')
  BY <1>2 DEF Steps
<1>4. CASE UNCHANGED iterator
  <2>1. Follows(heap', iterator)
    BY <1>1, <1>2, FollowsKept
  <2> QED
    BY <1>2, <1>3, <1>4, <2>1 DEF IInv
<1>5. CASE NewIterator
  <2>1. PICK s \in DOMAIN heap : iterator' = [NoIterator EXCEPT !.iterated = s, !.of = s]
    BY <1>5 DEF NewIterator
  <2>2. Follows(heap, iterator')
    BY <1>1, <2>1, StartsFollowing
  <2>3. heap' = heap
    BY <1>5 DEF NewIterator
  <2> QED
    BY <1>2, <1>3, <2>2, <2>3 DEF IInv
<1>6. CASE IteratorNext
  <2>1. Follows(heap, iterator')
    BY <1>1, <1>6, GoesOnFollowing DEF IteratorNext
  <2>2. heap' = heap
    BY <1>6 DEF IteratorNext
  <2> QED
    BY <1>2, <1>3, <2>1, <2>2 DEF IInv
<1> QED
  BY <1>4, <1>5, <1>6 DEF Next, Method, Hash, vars

LEMMA GoodIsTypeOK ==
  ASSUME Good(heap), Len(heap) <= MaxStrings
  PROVE  TypeOK
<1>1. SUFFICES ASSUME NEW n \in DOMAIN heap
      PROVE  /\ heap[n].type \in {"flat", "rope", "dependent"}
             /\ heap[n].type # "flat" => heap[n].left \in 1..(n - 1)
             /\ heap[n].type = "rope" => heap[n].right \in 1..(n - 1)
             /\ heap[n].type = "dependent" =>
                  heap[n].off \in 0..(heap[heap[n].left].length - heap[n].length)
             /\ heap[n].length = Len(TextOf(heap)[n])
  BY <1>1 DEF TypeOK
<1>2. /\ heap[n] \in Node /\ heap[n].type \in {"flat", "rope", "dependent"}
      /\ heap[n].type # "flat" => heap[n].left \in 1..(n - 1) /\ heap[n].left \in DOMAIN heap
      /\ heap[n].type = "rope" => heap[n].right \in 1..(n - 1)
  BY HeapIs DEF Good
<1>3. Len(TextOf(heap)[n]) = heap[n].length
  BY TextIs
<1>4. ASSUME heap[n].type = "dependent"
      PROVE  heap[n].off \in 0..(heap[heap[n].left].length - heap[n].length)
  <2> DEFINE m == heap[n].left
             a == heap[m].length
             b == heap[n].length
             o == heap[n].off
  <2>1. m \in DOMAIN heap
    BY <1>2, <1>4
  <2>2. a \in Nat /\ b \in Nat
    BY <2>1, TextIs
  <2>3. o \in Nat
    BY <1>2 DEF Node
  <2>4. o + b <= a
    BY <1>4 DEF Good, Sized
  <2> HIDE DEF a, b, o
  <2>5. o \in 0..(a - b)
    BY <2>2, <2>3, <2>4
  <2> QED
    BY <2>5 DEF a, b, o
<1> QED
  BY <1>2, <1>3, <1>4

LEMMA IInvIsStringInv ==
  IInv => StringInv
<1> SUFFICES ASSUME IInv PROVE StringInv
  OBVIOUS
<1>1. Good(heap) /\ Len(heap) <= MaxStrings
  BY DEF IInv
<1>2. TypeOK
  BY <1>1, GoodIsTypeOK
<1>3. HashIsOfText
  <2>1. \A n \in DOMAIN heap : PrimHash(heap, n)[n].hash = TextOf(heap)[n]
    BY <1>1, HashKeeps
  <2> QED
    BY <2>1 DEF HashIsOfText
<1> QED
  BY <1>2, <1>3 DEF StringInv

LEMMA IInvIsFollowing ==
  IInv => IterationReadsText
<1> SUFFICES ASSUME IInv, iterator.of # NoString PROVE IterationReadsText
  BY DEF IterationReadsText
<1>1. /\ Good(heap) /\ iterator.of \in DOMAIN heap
      /\ iterator.yielded = SubSeq(TextOf(heap)[iterator.of], 1, iterator.next)
      /\ iterator.iterated = NoString => iterator.next = heap[iterator.of].length
      /\ iterator.next \in Nat /\ iterator.next <= heap[iterator.of].length
      /\ iterator.length \in {0, Ucs2Length(1)}
  BY DEF IInv, Follows, Iterator
<1> DEFINE t == TextOf(heap)[iterator.of]
           i == iterator.next
<1>2. Len(t) = heap[iterator.of].length /\ heap[iterator.of].length \in Nat
  BY <1>1, TextIs
<1>3. iterator.length \in {0, 0 - 1}
  BY <1>1 DEF Ucs2Length
<1>4. ASSUME i > 0 PROVE iterator.length # Len(CharText(t, i - 1))
  <2>1. i - 1 \in 0..(Len(t) - 1)
    BY <1>1, <1>2, <1>4
  <2>2. CharText(t, i - 1) = <<t[(i - 1) + 1]>>
    BY <2>1 DEF CharText, HasChar
  <2> DEFINE n == Len(CharText(t, i - 1))
  <2>3. n = 1
    BY <2>2
  <2> HIDE DEF n
  <2>4. iterator.length # n
    BY <1>3, <2>3
  <2> QED
    BY <2>4 DEF n
<1> QED
  BY <1>1, <1>2, <1>4 DEF IterationReadsText

LEMMA IInvIsAgreement ==
  ASSUME AnyBase = FALSE, Outside \notin Chars, IInv
  PROVE  AnswersAgree
<1>1. Good(heap)
  BY DEF IInv
<1>2. ASSUME NEW c \in Calls(heap)
      PROVE  Expected(TextOf(heap), c) = AnswerOf(Do(heap, c))
  <2>1. Agrees(heap, c)
    BY <1>1, CallsAreLegal, CallAgrees
  <2> QED
    BY <2>1 DEF Agrees
<1> QED
  BY <1>2 DEF AnswersAgree, AnswerOf

-----------------------------------------------------------------------------
\* When no substring is taken of an irregular base, every node refers to earlier
\* nodes and lies within them, has the length of its text, and hashes as its
\* text, whatever was flattened before.
THEOREM StringsAreWellFormed ==
  ASSUME AnyBase = FALSE
  PROVE  Spec => []StringInv
<1>1. Init => IInv
  BY InitIInv
<1>2. IInv /\ [Next]_vars => IInv'
  BY NextIInv
<1>3. IInv => StringInv
  BY IInvIsStringInv
<1> QED
  BY <1>1, <1>2, <1>3, PTL DEF Spec

\* No method, flattening or hash changes the text of a string that exists.
THEOREM StringsAreImmutable ==
  ASSUME AnyBase = FALSE
  PROVE  Spec => TextsAreKept
<1>1. Init => IInv
  BY InitIInv
<1>2. IInv /\ [Next]_vars => IInv'
  BY NextIInv
<1>3. IInv /\ [Next]_vars =>
        [\A n \in DOMAIN heap : TextOf(heap')[n] = TextOf(heap)[n]]_vars
  <2>1. ASSUME IInv, [Next]_vars
        PROVE  \A n \in DOMAIN heap : TextOf(heap')[n] = TextOf(heap)[n]
    BY <2>1, HeapSteps DEF Steps, Kept
  <2> QED
    BY <2>1
<1> QED
  BY <1>1, <1>2, <1>3, PTL DEF Spec, TextsAreKept

\* An iterator has put exactly the characters before its position, in order,
\* into the strings it handed out, and ends only after the last; none of these
\* strings has the length of its text.
THEOREM IteratorsReadTheText ==
  ASSUME AnyBase = FALSE
  PROVE  Spec => []IterationReadsText
<1>1. Init => IInv
  BY InitIInv
<1>2. IInv /\ [Next]_vars => IInv'
  BY NextIInv
<1>3. IInv => IterationReadsText
  BY IInvIsFollowing
<1> QED
  BY <1>1, <1>2, <1>3, PTL DEF Spec

\* Every method answers as the standard says, on every heap that calls can make.
\* What lies before a buffer, which lastIndexOf reads, must be no character.
THEOREM MethodsAgree ==
  ASSUME AnyBase = FALSE, Outside \notin Chars
  PROVE  Spec => []AnswersAgree
<1>1. Init => IInv
  BY InitIInv
<1>2. IInv /\ [Next]_vars => IInv'
  BY NextIInv
<1>3. IInv => AnswersAgree
  BY IInvIsAgreement
<1> QED
  BY <1>1, <1>2, <1>3, PTL DEF Spec
=============================================================================
