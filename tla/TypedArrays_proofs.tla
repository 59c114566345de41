------------------------- MODULE TypedArrays_proofs --------------------------
(***************************************************************************)
(* Proofs about TypedArrays: a view shows only bytes of a block that       *)
(* exists, whatever slices lie between them and whatever was collected;    *)
(* and what is stored through one view is what the others load.            *)
(***************************************************************************)
EXTENDS TypedArrays, FiniteSetTheorems, WellFoundedInduction, TLAPS

\* A set of naturals that is not empty has a least element.
LEMMA LeastNatural ==
  ASSUME NEW S \in SUBSET Nat, S # {}
  PROVE  \E n \in S : \A m \in S : n <= m
<1>1. PICK n \in S : \A m \in S : ~(<<m, n>> \in OpToRel(<, Nat))
  BY NatLessThanWellFounded, WFMin
<1>2. ASSUME NEW m \in S, m < n PROVE <<m, n>> \in OpToRel(<, Nat)
  BY <1>2, <<m, n>> \in Nat \X Nat, <<m, n>>[1] < <<m, n>>[2] DEF OpToRel
<1>3. ASSUME NEW m \in S PROVE ~(m < n)
  BY <1>1, <1>2, Zenon
<1> QED
  BY <1>3

-----------------------------------------------------------------------------
(***************************************************************************)
(* What is reached from a set R of places in as many rounds as there are   *)
(* places: the marking of the collector, and the parents of a buffer.      *)
(***************************************************************************)
Rounds(up, R, E, n) ==
  /\ up \in [0..n -> SUBSET DOMAIN E]
  /\ \A i \in 0..n :
       up[i] = IF i = 0 THEN R ELSE up[i - 1] \cup UNION {E[c] : c \in up[i - 1]}

LEMMA RoundsExist ==
  ASSUME NEW U, NEW R \in SUBSET U, NEW E \in [U -> SUBSET U], NEW n \in Nat
  PROVE  \E up : Rounds(up, R, E, n)
<1> DEFINE S == {i \in Nat : ~ \E up : Rounds(up, R, E, i)}
<1>1. SUFFICES ASSUME S # {} PROVE FALSE
  OBVIOUS
<1>2. PICK k \in S : \A m \in S : k <= m
  <2>1. S \in SUBSET Nat
    OBVIOUS
  <2> HIDE DEF S
  <2> QED
    BY <1>1, <2>1, LeastNatural
<1>3. k # 0
  <2> DEFINE up == [i \in 0..0 |-> R]
  <2>1. Rounds(up, R, E, 0)
    BY DEF Rounds
  <2> QED
    BY <2>1
<1>4. k \in Nat /\ k - 1 \in Nat /\ ~(k <= k - 1)
  BY <1>2, <1>3
<1>5. PICK up : Rounds(up, R, E, k - 1)
  BY <1>2, <1>4
<1> DEFINE more == up[k - 1] \cup UNION {E[c] : c \in up[k - 1]}
           to == [i \in 0..k |-> IF i = k THEN more ELSE up[i]]
<1>6. up[k - 1] \in SUBSET U /\ more \in SUBSET U
  BY <1>4, <1>5 DEF Rounds
<1>7. to \in [0..k -> SUBSET DOMAIN E]
  <2>1. \A i \in 0..k : i # k => i \in 0..(k - 1)
    BY <1>4
  <2> QED
    BY <1>5, <1>6, <2>1 DEF Rounds
<1>8. ASSUME NEW i \in 0..k
      PROVE  to[i] = IF i = 0 THEN R ELSE to[i - 1] \cup UNION {E[c] : c \in to[i - 1]}
  <2>1. CASE i = k
    <3>1. i # 0 /\ i - 1 \in 0..k /\ i - 1 # k
      BY <1>3, <1>4, <2>1
    <3>2. to[i - 1] = up[k - 1] /\ to[i] = more
      BY <2>1, <3>1
    <3> QED
      BY <3>1, <3>2
  <2>2. CASE i # k
    <3>1. i \in 0..(k - 1) /\ to[i] = up[i]
      BY <1>4, <2>2
    <3>2. i # 0 => to[i - 1] = up[i - 1]
      BY <1>4, <2>2
    <3>3. up[i] = IF i = 0 THEN R ELSE up[i - 1] \cup UNION {E[c] : c \in up[i - 1]}
      BY <1>5, <3>1 DEF Rounds
    <3> QED
      BY <3>1, <3>2, <3>3
  <2> QED
    BY <2>1, <2>2
<1>9. Rounds(to, R, E, k)
  <2> HIDE DEF to
  <2> QED
    BY <1>7, <1>8 DEF Rounds
<1> QED
  BY <1>2, <1>9

\* The rounds stop adding before they are over.
LEMMA RoundsClose ==
  ASSUME NEW U, IsFiniteSet(U), NEW R \in SUBSET U, NEW E \in [U -> SUBSET U],
         NEW up, Rounds(up, R, E, Cardinality(U))
  PROVE  LET top == up[Cardinality(U)]
         IN  R \subseteq top /\ top \subseteq U /\ \A c \in top : E[c] \subseteq top
<1> DEFINE N == Cardinality(U)
           Closed(s) == \A c \in s : E[c] \subseteq s
<1>1. N \in Nat
  BY FS_CardinalityType
<1>2. \A i \in 0..N : up[i] \in SUBSET U
  BY DEF Rounds
<1>3. \A i \in 0..N : i # 0 => up[i] = up[i - 1] \cup UNION {E[c] : c \in up[i - 1]}
  BY DEF Rounds
<1>4. up[0] = R
  BY <1>1 DEF Rounds
<1>5. \A i \in 0..N : R \subseteq up[i]
  <2> DEFINE S == {i \in 0..N : ~(R \subseteq up[i])}
  <2>1. SUFFICES ASSUME S # {} PROVE FALSE
    OBVIOUS
  <2>2. S \in SUBSET Nat
    BY <1>1
  <2>3. PICK i \in S : \A m \in S : i <= m
    <3> HIDE DEF S
    <3> QED
      BY <2>1, <2>2, LeastNatural
  <2>4. i # 0 /\ i - 1 \in 0..N /\ ~(i <= i - 1)
    BY <1>1, <1>4, <2>3
  <2>5. R \subseteq up[i - 1]
    BY <2>3, <2>4
  <2> QED
    BY <1>3, <2>3, <2>4, <2>5
<1>6. ASSUME NEW i \in 0..N, Closed(up[i]) PROVE up[N] = up[i]
  <2> DEFINE S == {j \in 0..N : j >= i /\ up[j] # up[i]}
  <2>1. SUFFICES ASSUME S # {} PROVE FALSE
    BY <1>1
  <2>2. S \in SUBSET Nat
    BY <1>1
  <2>3. PICK j \in S : \A m \in S : j <= m
    <3> HIDE DEF S
    <3> QED
      BY <2>1, <2>2, LeastNatural
  <2>4. j # i /\ j # 0 /\ j - 1 \in 0..N /\ j - 1 >= i /\ ~(j <= j - 1)
    BY <1>1, <2>3
  <2>5. up[j - 1] = up[i]
    BY <2>3, <2>4
  <2>6. up[j] = up[i] \cup UNION {E[c] : c \in up[i]}
    BY <1>3, <2>3, <2>4, <2>5
  <2>7. up[j] = up[i]
    BY <1>6, <2>6
  <2> QED
    BY <2>3, <2>7
<1>7. \E i \in 0..N : Closed(up[i])
  <2> SUFFICES ASSUME \A i \in 0..N : ~Closed(up[i]) PROVE FALSE
    OBVIOUS
  <2> HIDE DEF N
  <2> DEFINE S == {i \in 0..N : ~(Cardinality(up[i]) >= i + 1)}
  <2>1. \A i \in 0..N : IsFiniteSet(up[i]) /\ Cardinality(up[i]) \in Nat /\ Cardinality(up[i]) <= N
    BY <1>2, FS_Subset, FS_CardinalityType DEF N
  <2>2. S = {}
    <3>1. SUFFICES ASSUME S # {} PROVE FALSE
      OBVIOUS
    <3>2. S \in SUBSET Nat
      BY <1>1
    <3>3. PICK i \in S : \A m \in S : i <= m
      <4> HIDE DEF S
      <4> QED
        BY <3>1, <3>2, LeastNatural
    <3>4. i # 0
      <4>1. up[0] # {} /\ 0 \in 0..N
        BY <1>1
      <4>2. Cardinality(up[0]) # 0
        BY <2>1, <4>1, FS_EmptySet
      <4> QED
        BY <2>1, <3>3, <4>1, <4>2
    <3>5. i - 1 \in 0..N /\ ~(i <= i - 1) /\ i \in 0..N
      BY <1>1, <3>3, <3>4
    <3>6. Cardinality(up[i - 1]) >= i
      BY <3>3, <3>5
    <3>7. PICK c \in up[i - 1] : ~(E[c] \subseteq up[i - 1])
      BY <3>5
    <3>8. up[i - 1] \subseteq up[i] /\ up[i - 1] # up[i]
      BY <1>3, <3>4, <3>5, <3>7
    <3>9. Cardinality(up[i - 1]) < Cardinality(up[i])
      <4>1. /\ Cardinality(up[i - 1]) <= Cardinality(up[i])
            /\ Cardinality(up[i - 1]) # Cardinality(up[i])
        BY <2>1, <3>5, <3>8, FS_Subset
      <4> QED
        BY <2>1, <3>5, <4>1
    <3> QED
      BY <2>1, <3>3, <3>5, <3>6, <3>9
  <2>3. Cardinality(up[N]) >= N + 1
    BY <1>1, <2>2
  <2> QED
    BY <1>1, <2>1, <2>3
<1>8. PICK i \in 0..N : Closed(up[i])
  BY <1>7
<1>9. up[N] = up[i]
  BY <1>6, <1>8
<1> QED
  BY <1>1, <1>2, <1>5, <1>8, <1>9

-----------------------------------------------------------------------------
Owners == [kind : {"own"}, size : Int]
Slices == [kind : {"slice"}, buf : Buffers, offset : Int, size : Int]

BufferType == {NONE} \cup Owners \cup Slices

ViewType == [kind : {"typed", "data"}, buffer : Buffers, elem : Sizes,
             byteOffset : Nat, length : Nat]

LEMMA KindsDiffer ==
  /\ NONE.kind = "none"
  /\ \A x \in BufferType :
       /\ x.kind \in {"none", "own", "slice"}
       /\ x.kind = "none" => x = NONE
       /\ x.kind = "own" => x.size \in Int
       /\ x.kind = "slice" => x.buf \in Buffers /\ x.offset \in Int /\ x.size \in Int
  BY DEF BufferType, Owners, Slices, NONE

\* The parents of the slices never lead around in a circle.
Ranked(bs) ==
  \E n \in Nat : \E rank \in [Buffers -> 0..n] :
    \A b \in Buffers : bs[b].kind = "slice" => rank[bs[b].buf] < rank[b]

(***************************************************************************)
(* The walk of _ejs_arraybuffer_get_data, in any heap of buffers.          *)
(***************************************************************************)
Place == [block : Buffers, at : Int]

StepOf(bs, f, c) ==
  IF bs[c].kind = "slice"
    THEN [block |-> f[bs[c].buf].block, at |-> f[bs[c].buf].at + bs[c].offset]
    ELSE [block |-> c, at |-> 0]

Walk(bs) == CHOOSE f : f = [c \in Buffers |-> StepOf(bs, f, c)]

LEMMA StepType ==
  ASSUME NEW bs \in [Buffers -> BufferType], NEW f, NEW c \in Buffers,
         bs[c].kind = "slice" => f[bs[c].buf] \in Place
  PROVE  StepOf(bs, f, c) \in Place
<1>1. CASE bs[c].kind = "slice"
  BY <1>1, KindsDiffer DEF StepOf, Place
<1>2. CASE bs[c].kind # "slice"
  BY <1>2 DEF StepOf, Place
<1> QED
  BY <1>1, <1>2

LEMMA WalkIs ==
  ASSUME NEW bs \in [Buffers -> BufferType], Ranked(bs)
  PROVE  /\ Walk(bs) \in [Buffers -> Place]
         /\ \A c \in Buffers : Walk(bs)[c] = StepOf(bs, Walk(bs), c)
<1>1. PICK n \in Nat : \E rank \in [Buffers -> 0..n] :
        \A b \in Buffers : bs[b].kind = "slice" => rank[bs[b].buf] < rank[b]
  BY DEF Ranked
<1>2. PICK rank \in [Buffers -> 0..n] :
        \A b \in Buffers : bs[b].kind = "slice" => rank[bs[b].buf] < rank[b]
  BY <1>1
<1>3. \A b \in Buffers : rank[b] \in Nat /\ rank[b] < n + 1
  BY <1>2
<1>4. \A b \in Buffers : bs[b].kind = "slice" => bs[b].buf \in Buffers
  BY KindsDiffer
<1> DEFINE Upto(f, k) == \A c \in Buffers : rank[c] < k => f[c] = StepOf(bs, f, c)
           S == {k \in Nat : ~ \E f \in [Buffers -> Place] : Upto(f, k)}
<1>5. S = {}
  <2>1. SUFFICES ASSUME S # {} PROVE FALSE
    OBVIOUS
  <2>2. PICK k \in S : \A m \in S : k <= m
    <3>1. S \in SUBSET Nat
      OBVIOUS
    <3> HIDE DEF S
    <3> QED
      BY <2>1, <3>1, LeastNatural
  <2>3. k # 0
    <3> DEFINE f == [c \in Buffers |-> [block |-> c, at |-> 0]]
    <3>1. f \in [Buffers -> Place]
      BY DEF Place
    <3>2. Upto(f, 0)
      BY <1>3
    <3> HIDE DEF f
    <3> QED
      BY <3>1, <3>2
  <2>4. k \in Nat /\ k - 1 \in Nat /\ ~(k <= k - 1)
    BY <2>2, <2>3
  <2>5. PICK f \in [Buffers -> Place] : Upto(f, k - 1)
    BY <2>2, <2>4
  <2> DEFINE g == [c \in Buffers |-> IF rank[c] = k - 1 THEN StepOf(bs, f, c) ELSE f[c]]
  <2>6. g \in [Buffers -> Place]
    <3>1. \A c \in Buffers : StepOf(bs, f, c) \in Place
      BY <1>4, StepType
    <3> QED
      BY <3>1
  <2>7. ASSUME NEW c \in Buffers, rank[c] < k PROVE g[c] = StepOf(bs, g, c)
    <3>1. rank[c] <= k - 1
      BY <1>3, <2>4, <2>7
    <3>2. g[c] = StepOf(bs, f, c)
      <4>1. CASE rank[c] = k - 1
        BY <4>1
      <4>2. CASE rank[c] # k - 1
        <5>1. rank[c] < k - 1
          BY <1>3, <2>4, <3>1, <4>2
        <5> QED
          BY <2>5, <4>2, <5>1
      <4> QED
        BY <4>1, <4>2
    <3>3. CASE bs[c].kind = "slice"
      <4>1. rank[bs[c].buf] # k - 1 /\ bs[c].buf \in Buffers
        BY <1>2, <1>3, <1>4, <2>4, <3>1, <3>3
      <4>2. g[bs[c].buf] = f[bs[c].buf]
        BY <4>1
      <4> HIDE DEF g
      <4> QED
        BY <3>2, <4>2 DEF StepOf
    <3>4. CASE bs[c].kind # "slice"
      BY <3>2, <3>4 DEF StepOf
    <3> QED
      BY <3>3, <3>4
  <2>8. Upto(g, k)
    BY <2>7
  <2> HIDE DEF g
  <2> QED
    BY <2>2, <2>6, <2>8
<1>6. PICK f \in [Buffers -> Place] : Upto(f, n + 1)
  <2>1. n + 1 \in Nat /\ n + 1 \notin S
    <3> HIDE DEF S
    <3> QED
      BY <1>5
  <2> HIDE DEF Upto
  <2>2. \A k \in Nat : k \notin S => \E f \in [Buffers -> Place] : Upto(f, k)
    BY Zenon
  <2> QED
    BY <2>1, <2>2
<1>7. f = [c \in Buffers |-> StepOf(bs, f, c)]
  <2>1. \A c \in Buffers : f[c] = StepOf(bs, f, c)
    BY <1>3, <1>6
  <2> QED
    BY <1>6, <2>1
<1> DEFINE w == Walk(bs)
<1>8. w = [c \in Buffers |-> StepOf(bs, w, c)]
  BY <1>7 DEF Walk
<1> HIDE DEF w, S
<1>9. \A c \in Buffers : w[c] = StepOf(bs, w, c)
  BY <1>8
<1>10. \A c \in Buffers : w[c] \in Place
  <2> DEFINE T == {k \in Nat : \E c \in Buffers : rank[c] = k /\ w[c] \notin Place}
  <2>1. SUFFICES ASSUME T # {} PROVE FALSE
    BY <1>3
  <2>2. PICK k \in T : \A m \in T : k <= m
    <3>1. T \in SUBSET Nat
      OBVIOUS
    <3> HIDE DEF T
    <3> QED
      BY <2>1, <3>1, LeastNatural
  <2>3. PICK c \in Buffers : rank[c] = k /\ w[c] \notin Place
    BY <2>2
  <2>4. bs[c].kind = "slice" => w[bs[c].buf] \in Place
    <3> SUFFICES ASSUME bs[c].kind = "slice", w[bs[c].buf] \notin Place PROVE FALSE
      OBVIOUS
    <3>1. bs[c].buf \in Buffers /\ rank[bs[c].buf] < k /\ rank[bs[c].buf] \in Nat
      BY <1>2, <1>3, <1>4, <2>3
    <3>2. rank[bs[c].buf] \in T
      BY <3>1
    <3> QED
      BY <2>2, <3>1, <3>2
  <2> QED
    BY <1>9, <2>3, <2>4, StepType
<1>11. w \in [Buffers -> Place]
  BY <1>8, <1>10
<1> QED
  BY <1>9, <1>11 DEF w

LEMMA DataOfWalk == \A b : DataOf(b) = Walk(buffers)[b]
  BY DEF DataOf, Walk, StepOf

(***************************************************************************)
(* What a set of buffers leads to: Marked of the roots, Chain of a buffer. *)
(***************************************************************************)
Spread(R) ==
  LET up[n \in 0..Cardinality(Buffers)] ==
        IF n = 0 THEN R ELSE up[n - 1] \cup UNION {Scan(b) : b \in up[n - 1]}
  IN  up[Cardinality(Buffers)]

LEMMA SpreadIs ==
  ASSUME buffers \in [Buffers -> BufferType], NEW R \in SUBSET Buffers
  PROVE  /\ R \subseteq Spread(R) /\ Spread(R) \subseteq Buffers
         /\ \A c \in Spread(R) : buffers[c].kind = "slice" => buffers[c].buf \in Spread(R)
<1> DEFINE N == Cardinality(Buffers)
           E == [b \in Buffers |-> Scan(b)]
<1>1. IsFiniteSet(Buffers) /\ N \in Nat
  BY PlacesAssumption, FS_CardinalityType
<1>2. \A b \in Buffers : Scan(b) \subseteq Buffers
  BY KindsDiffer DEF Scan
<1>3. E \in [Buffers -> SUBSET Buffers]
  BY <1>2
<1>4. PICK up : Rounds(up, R, E, N)
  BY <1>1, <1>3, RoundsExist
<1> DEFINE Body(f, n) == IF n = 0 THEN R ELSE f[n - 1] \cup UNION {Scan(b) : b \in f[n - 1]}
<1>5. up \in [0..N -> SUBSET Buffers]
  BY <1>4 DEF Rounds
<1>6. \A n \in 0..N : up[n] = Body(up, n)
  <2> TAKE n \in 0..N
  <2>1. n # 0 => n - 1 \in 0..N
    BY <1>1
  <2>2. n # 0 => \A b \in up[n - 1] : E[b] = Scan(b)
    BY <1>5, <2>1
  <2>3. up[n] = IF n = 0 THEN R ELSE up[n - 1] \cup UNION {E[c] : c \in up[n - 1]}
    BY <1>4 DEF Rounds
  <2> HIDE DEF E
  <2> QED
    BY <2>2, <2>3
<1>7. up = [n \in 0..N |-> Body(up, n)]
  BY <1>5, <1>6
<1> DEFINE f == CHOOSE h : h = [n \in 0..N |-> Body(h, n)]
<1>8. f = [n \in 0..N |-> Body(f, n)]
  BY <1>7
<1>9. Spread(R) = f[N]
  BY DEF Spread
<1> HIDE DEF f, N
<1>10. f = up
  <2> DEFINE S == {n \in 0..N : f[n] # up[n]}
  <2>1. S = {}
    <3>1. SUFFICES ASSUME S # {} PROVE FALSE
      OBVIOUS
    <3>2. S \in SUBSET Nat
      BY <1>1
    <3>3. PICK n \in S : \A m \in S : n <= m
      <4> HIDE DEF S
      <4> QED
        BY <3>1, <3>2, LeastNatural
    <3>4. n # 0 => n - 1 \in 0..N /\ n - 1 \notin S
      BY <1>1, <3>3
    <3>5. n # 0 => f[n - 1] = up[n - 1]
      BY <3>4
    <3>6. f[n] = Body(f, n) /\ up[n] = Body(up, n)
      BY <1>6, <1>8, <3>3
    <3> QED
      BY <3>3, <3>5, <3>6
  <2> QED
    BY <1>5, <1>8, <2>1
<1>11. R \subseteq up[N] /\ up[N] \subseteq Buffers /\ \A c \in up[N] : E[c] \subseteq up[N]
  <2> HIDE DEF E
  <2> QED
    BY <1>1, <1>3, <1>4, RoundsClose DEF N
<1>12. \A c \in up[N] : buffers[c].kind = "slice" => buffers[c].buf \in up[N]
  BY <1>11 DEF Scan
<1> QED
  BY <1>9, <1>10, <1>11, <1>12

LEMMA MarkedSpread ==
  Marked = Spread((held \cap Buffers) \cup {views[v].buffer : v \in held \cap Views})
  BY DEF Marked, Spread

LEMMA ChainSpread == \A b : Chain(b) = Spread({b})
  BY DEF Chain, Spread, Scan

-----------------------------------------------------------------------------
(***************************************************************************)
(* The invariant.  What a typed array shows fits the size of its buffer,   *)
(* and the size of a buffer that owns a block fits the block; both only    *)
(* while nothing has wrapped.                                              *)
(***************************************************************************)
Types ==
  /\ buffers \in [Buffers -> BufferType]
  /\ blocks \in [Buffers -> Seq(Byte)]
  /\ views \in [Views -> {NONE} \cup ViewType]
  /\ held \subseteq Buffers \cup Views

\* Nothing that is in use refers to an object that was collected.
Standing ==
  /\ \A b \in Buffers : buffers[b].kind = "slice" => buffers[buffers[b].buf] # NONE
  /\ \A b \in held \cap Buffers : buffers[b] # NONE
  /\ \A v \in Views : views[v] # NONE => buffers[views[v].buffer] # NONE
  /\ \A v \in held \cap Views : views[v] # NONE

Fits(size) == size \in 0..MaxBlock

Backed ==
  \A b \in Buffers :
    buffers[b].kind = "own" /\ Fits(buffers[b].size) => buffers[b].size <= Len(blocks[b])

Shown(w) == w.byteOffset + w.length * w.elem

WindowsFit ==
  \A v \in Views :
    views[v].kind = "typed" /\ Fits(buffers[views[v].buffer].size) /\ Shown(views[v]) < Word =>
      Shown(views[v]) <= buffers[views[v].buffer].size

IInv == Types /\ Ranked(buffers) /\ Standing /\ Backed /\ WindowsFit

LEMMA ViewKinds ==
  \A w \in {NONE} \cup ViewType :
    /\ w = NONE <=> w.kind = "none"
    /\ w # NONE => /\ w \in ViewType /\ w.kind \in {"typed", "data"} /\ w.buffer \in Buffers
                   /\ w.elem \in Sizes /\ w.elem \in Nat \ {0}
                   /\ w.byteOffset \in Nat /\ w.length \in Nat
<1>1. \A k \in Sizes : k \in Nat \ {0}
  BY WordAssumption
<1> QED
  BY <1>1 DEF ViewType, NONE

(***************************************************************************)
(* A regular buffer ends inside the block its walk leads to.               *)
(***************************************************************************)
LEMMA RegularInside ==
  ASSUME IInv, NEW b \in Buffers, buffers[b] # NONE, Regular(b)
  PROVE  /\ Fits(buffers[b].size)
         /\ DataOf(b).at \in Int /\ DataOf(b).block \in Buffers
         /\ DataOf(b).at >= 0
         /\ DataOf(b).at + buffers[b].size <= Len(blocks[DataOf(b).block])
<1> DEFINE up == Spread({b})
           d(c) == Walk(buffers)[c]
           OK(c) == d(c).at >= 0 /\ d(c).at + buffers[c].size <= Len(blocks[d(c).block])
<1>1. /\ b \in up /\ up \subseteq Buffers
      /\ \A c \in up : buffers[c].kind = "slice" => buffers[c].buf \in up
  <2>1. buffers \in [Buffers -> BufferType]
    BY DEF IInv, Types
  <2>2. {b} \subseteq up /\ up \subseteq Buffers
        /\ \A c \in up : buffers[c].kind = "slice" => buffers[c].buf \in up
    BY <2>1, SpreadIs
  <2> QED
    BY <2>2
<1>2. /\ Walk(buffers) \in [Buffers -> Place]
      /\ \A c \in Buffers : d(c) = StepOf(buffers, Walk(buffers), c)
  BY WalkIs DEF IInv, Types
<1>3. \A c \in up : /\ Fits(buffers[c].size)
                    /\ buffers[c].kind = "slice" =>
                         /\ buffers[c].offset >= 0
                         /\ buffers[c].offset + buffers[c].size <= buffers[buffers[c].buf].size
  BY ChainSpread DEF Regular, Fits
<1>4. DataOf(b) = d(b)
  BY DataOfWalk
<1> HIDE DEF up
<1>5. PICK n \in Nat : \E rank \in [Buffers -> 0..n] :
        \A c \in Buffers : buffers[c].kind = "slice" => rank[buffers[c].buf] < rank[c]
  BY DEF IInv, Ranked
<1>6. PICK rank \in [Buffers -> 0..n] :
        \A c \in Buffers : buffers[c].kind = "slice" => rank[buffers[c].buf] < rank[c]
  BY <1>5
<1>7. \A c \in Buffers : d(c) \in Place /\ d(c).at \in Int /\ d(c).block \in Buffers
  BY <1>2 DEF Place
<1>8. ASSUME NEW c \in up, buffers[c] # NONE PROVE OK(c)
  <2> DEFINE S == {rank[x] : x \in {y \in up : buffers[y] # NONE /\ ~OK(y)}}
  <2>1. SUFFICES ASSUME S # {} PROVE FALSE
    BY <1>8
  <2>2. S \in SUBSET Nat
    BY <1>1, <1>6
  <2>3. PICK k \in S : \A m \in S : k <= m
    <3> HIDE DEF S
    <3> QED
      BY <2>1, <2>2, LeastNatural
  <2>4. PICK x \in up : buffers[x] # NONE /\ ~OK(x) /\ rank[x] = k
    BY <2>3
  <2>5. x \in Buffers /\ buffers[x] \in BufferType /\ d(x) = StepOf(buffers, Walk(buffers), x)
    BY <1>1, <1>2, <2>4 DEF IInv, Types
  <2>6. CASE buffers[x].kind = "slice"
    <3> DEFINE p == buffers[x].buf
    <3>1. p \in up /\ p \in Buffers /\ buffers[p] # NONE
      BY <1>1, <2>4, <2>5, <2>6 DEF IInv, Standing
    <3>2. rank[p] < rank[x] /\ rank[p] \in Nat /\ rank[x] \in Nat
      BY <1>6, <2>5, <2>6, <3>1
    <3>3. rank[p] \notin S
      <4> HIDE DEF S, p, OK
      <4> QED
        BY <2>2, <2>3, <2>4, <3>2
    <3>4. OK(p)
      <4> HIDE DEF p, OK
      <4> QED
        BY <3>1, <3>3
    <3>5. d(x).at = d(p).at + buffers[x].offset /\ d(x).block = d(p).block
      BY <2>5, <2>6 DEF StepOf
    <3>6. buffers[x].offset \in Int /\ buffers[x].size \in Int /\ buffers[p].size \in Int
      BY <2>5, <2>6, <3>1, <1>3, KindsDiffer DEF Fits
    <3>7. buffers[x].offset >= 0 /\ buffers[x].offset + buffers[x].size <= buffers[p].size
      BY <1>3, <2>4, <2>6
    <3>8. d(p).at \in Int /\ Len(blocks[d(p).block]) \in Int
      BY <1>7, <3>1 DEF IInv, Types
    <3>9. OK(x)
      <4> DEFINE at == d(p).at
                 end == Len(blocks[d(p).block])
                 size == buffers[x].size
                 room == buffers[p].size
                 skip == buffers[x].offset
      <4>1. at >= 0 /\ at + room <= end
        BY <3>4
      <4>2. d(x).at = at + skip /\ Len(blocks[d(x).block]) = end
        BY <3>5
      <4>3. at \in Int /\ end \in Int /\ size \in Int /\ room \in Int /\ skip \in Int
        BY <3>6, <3>8
      <4>4. skip >= 0 /\ skip + size <= room
        BY <3>7
      <4> HIDE DEF at, end, size, room, skip
      <4>5. at + skip >= 0 /\ at + skip + size <= end
        BY <4>1, <4>3, <4>4
      <4> QED
        BY <4>2, <4>5 DEF size
    <3> QED
      BY <2>4, <3>9
  <2>7. CASE buffers[x].kind # "slice"
    <3>1. buffers[x].kind = "own" /\ d(x) = [block |-> x, at |-> 0]
      BY <2>4, <2>5, <2>7, KindsDiffer DEF StepOf
    <3>2. Fits(buffers[x].size) /\ buffers[x].size \in Int
      BY <1>3, <2>4 DEF Fits
    <3>3. buffers[x].size <= Len(blocks[x])
      BY <2>5, <3>1, <3>2 DEF IInv, Backed
    <3> QED
      BY <2>4, <3>1, <3>2, <3>3
  <2> QED
    BY <2>6, <2>7
<1> QED
  BY <1>1, <1>3, <1>4, <1>7, <1>8

(***************************************************************************)
(* No typed array shows a byte that is not there.                          *)
(***************************************************************************)
LEMMA IInvImplies == IInv => WindowsInside
<1> SUFFICES ASSUME IInv, NEW v \in Views, views[v].kind = "typed",
                    Regular(views[v].buffer), Shown(views[v]) < Word
             PROVE  LET e == DataOf(views[v].buffer)
                    IN  e.at >= 0 /\ e.at + Shown(views[v]) <= Len(blocks[e.block])
  BY DEF WindowsInside, Shown
<1> DEFINE b == views[v].buffer
<1>1. views[v] \in ViewType /\ views[v] # NONE /\ b \in Buffers
  BY ViewKinds DEF IInv, Types
<1>2. buffers[b] # NONE
  BY <1>1 DEF IInv, Standing
<1>3. /\ Fits(buffers[b].size)
      /\ DataOf(b).at \in Int /\ DataOf(b).block \in Buffers /\ DataOf(b).at >= 0
      /\ DataOf(b).at + buffers[b].size <= Len(blocks[DataOf(b).block])
  BY <1>1, <1>2, RegularInside
<1>4. Shown(views[v]) <= buffers[b].size
  BY <1>3 DEF IInv, WindowsFit
<1>5. Shown(views[v]) \in Int
  BY <1>1, ViewKinds DEF Shown
<1>6. Len(blocks[DataOf(b).block]) \in Int
  BY <1>3 DEF IInv, Types
<1> HIDE DEF b
<1>7. buffers[b].size \in Int
  BY <1>3 DEF Fits
<1> QED
  BY <1>3, <1>4, <1>5, <1>6, <1>7 DEF b

-----------------------------------------------------------------------------
(***************************************************************************)
(* What is added: a buffer in a free place, a view in a free place.        *)
(***************************************************************************)
LEMMA Words ==
  /\ \A n \in Int : Unsigned(n) \in 0..(Word - 1) /\ Signed(n) \in Int
  /\ \A n \in 0..(Word - 1) : Unsigned(n) = n /\ Signed(n) <= n
  /\ \A n \in Nat : Signed(n) <= n /\ (Signed(n) >= 0 /\ n < Word => Signed(n) = n)
<1>1. Word \in Nat /\ Word > 0
  BY WordAssumption
<1>2. \A n \in Int : Unsigned(n) \in 0..(Word - 1)
  BY <1>1 DEF Unsigned
<1>3. \A n \in 0..(Word - 1) : Unsigned(n) = n
  BY <1>1 DEF Unsigned
<1>4. \A n \in Nat : Unsigned(n) <= n
  BY <1>1 DEF Unsigned
<1>5. \A n \in Int : Signed(n) \in Int /\ Signed(n) \in {Unsigned(n), Unsigned(n) - Word}
  BY <1>1, <1>2 DEF Signed
<1>6. \A n \in Nat : Signed(n) <= n
  BY <1>1, <1>2, <1>4, <1>5
<1>7. \A n \in 0..(Word - 1) : Signed(n) >= 0 => Signed(n) = n
  BY <1>1, <1>3, <1>5
<1> QED
  BY <1>1, <1>2, <1>3, <1>5, <1>6, <1>7

LEMMA RankedMore ==
  ASSUME NEW bs \in [Buffers -> BufferType], Ranked(bs), NEW b \in Buffers, NEW x \in BufferType,
         x.kind = "slice" => x.buf # b,
         \A c \in Buffers : bs[c].kind = "slice" => bs[c].buf # b
  PROVE  Ranked([bs EXCEPT ![b] = x])
<1> DEFINE to == [bs EXCEPT ![b] = x]
<1>1. PICK n \in Nat : \E rank \in [Buffers -> 0..n] :
        \A c \in Buffers : bs[c].kind = "slice" => rank[bs[c].buf] < rank[c]
  BY DEF Ranked
<1>2. PICK rank \in [Buffers -> 0..n] :
        \A c \in Buffers : bs[c].kind = "slice" => rank[bs[c].buf] < rank[c]
  BY <1>1
<1> DEFINE above == IF x.kind = "slice" THEN rank[x.buf] + 1 ELSE 0
           higher == [c \in Buffers |-> IF c = b THEN above ELSE rank[c]]
<1>3. above \in 0..(n + 1)
  BY <1>2, KindsDiffer
<1>4. higher \in [Buffers -> 0..(n + 1)]
  BY <1>2, <1>3
<1>5. ASSUME NEW c \in Buffers, to[c].kind = "slice" PROVE higher[to[c].buf] < higher[c]
  <2>1. CASE c = b
    <3>1. to[c] = x /\ x.buf \in Buffers /\ x.buf # b
      BY <1>5, <2>1, KindsDiffer
    <3>2. higher[x.buf] = rank[x.buf] /\ higher[c] = rank[x.buf] + 1
      BY <1>5, <2>1, <3>1
    <3>3. rank[x.buf] \in Nat
      BY <1>2, <3>1
    <3> QED
      BY <3>1, <3>2, <3>3
  <2>2. CASE c # b
    <3>1. to[c] = bs[c] /\ bs[c].buf \in Buffers /\ bs[c].buf # b
      BY <1>5, <2>2, KindsDiffer
    <3>2. higher[bs[c].buf] = rank[bs[c].buf] /\ higher[c] = rank[c]
      BY <2>2, <3>1
    <3> QED
      BY <1>2, <1>5, <3>1, <3>2
  <2> QED
    BY <2>1, <2>2
<1>6. n + 1 \in Nat
  OBVIOUS
<1> HIDE DEF to, higher
<1>7. Ranked(to)
  BY <1>4, <1>5, <1>6 DEF Ranked
<1> QED
  BY <1>7 DEF to

\* The part of the invariant that is about buffers, and what becomes of those
\* that are there.
BuffersOK ==
  /\ buffers \in [Buffers -> BufferType] /\ blocks \in [Buffers -> Seq(Byte)]
  /\ Ranked(buffers)
  /\ \A b \in Buffers : buffers[b].kind = "slice" => buffers[buffers[b].buf] # NONE
  /\ Backed

Stay == \A b \in Buffers : buffers[b] # NONE => buffers'[b] = buffers[b]

LEMMA BufferAdded ==
  ASSUME IInv, NEW b \in Buffers, buffers[b] = NONE, NEW x \in Owners \cup Slices,
         x.kind = "slice" => buffers[x.buf] # NONE,
         buffers' = [buffers EXCEPT ![b] = x],
         NEW s \in Seq(Byte), blocks' = [blocks EXCEPT ![b] = s],
         x.kind = "own" /\ Fits(x.size) => x.size <= Len(s)
  PROVE  BuffersOK' /\ Stay /\ buffers'[b] = x /\ x # NONE
<1>1. x \in BufferType /\ x # NONE /\ x.kind \in {"own", "slice"}
  BY DEF BufferType, Owners, Slices, NONE
<1>2. buffers \in [Buffers -> BufferType] /\ blocks \in [Buffers -> Seq(Byte)]
  BY DEF IInv, Types
<1>3. \A c \in Buffers : buffers[c].kind = "slice" => buffers[c].buf # b /\ buffers[c].buf \in Buffers
  BY <1>2, KindsDiffer DEF IInv, Standing
<1>4. x.kind = "slice" => x.buf # b /\ x.buf \in Buffers
  BY <1>1, KindsDiffer
<1>5. Ranked(buffers')
  BY <1>1, <1>2, <1>3, <1>4, RankedMore DEF IInv
<1>6. buffers' \in [Buffers -> BufferType] /\ blocks' \in [Buffers -> Seq(Byte)]
  BY <1>1, <1>2
<1>7. /\ buffers'[b] = x /\ blocks'[b] = s
      /\ \A c \in Buffers : c # b => buffers'[c] = buffers[c] /\ blocks'[c] = blocks[c]
  BY <1>2
<1>8. Stay
  BY <1>7 DEF Stay
<1>9. ASSUME NEW c \in Buffers, buffers'[c].kind = "slice" PROVE buffers'[buffers'[c].buf] # NONE
  <2>1. CASE c = b
    BY <1>4, <1>7, <1>9, <2>1
  <2>2. CASE c # b
    BY <1>3, <1>7, <1>9, <2>2 DEF IInv, Standing
  <2> QED
    BY <2>1, <2>2
<1>10. Backed'
  <2> SUFFICES ASSUME NEW c \in Buffers, buffers'[c].kind = "own", Fits(buffers'[c].size)
               PROVE  buffers'[c].size <= Len(blocks'[c])
    BY DEF Backed, Fits
  <2>1. CASE c = b
    BY <1>7, <2>1
  <2>2. CASE c # b
    BY <1>7, <2>2 DEF IInv, Backed
  <2> QED
    BY <2>1, <2>2
<1> QED
  BY <1>1, <1>5, <1>6, <1>7, <1>8, <1>9, <1>10 DEF BuffersOK

LEMMA BuffersUnchanged ==
  ASSUME IInv, UNCHANGED <<buffers, blocks>>
  PROVE  BuffersOK' /\ Stay
<1>1. BuffersOK
  BY DEF IInv, Types, Standing, BuffersOK
<1>2. BuffersOK'
  BY <1>1 DEF BuffersOK, Backed, Ranked
<1> QED
  BY <1>2 DEF Stay

\* The same of the views.
ViewsOK ==
  /\ views \in [Views -> {NONE} \cup ViewType]
  /\ \A v \in Views : views[v] # NONE => buffers[views[v].buffer] # NONE
  /\ WindowsFit

FitsIn(w, buf) ==
  w.kind = "typed" /\ Fits(buf.size) /\ Shown(w) < Word => Shown(w) <= buf.size

LEMMA ViewAdded ==
  ASSUME IInv, Stay, NEW v \in Views, views[v] = NONE, NEW w \in ViewType,
         views' = [views EXCEPT ![v] = w],
         buffers'[w.buffer] # NONE, FitsIn(w, buffers'[w.buffer])
  PROVE  ViewsOK' /\ (\A u \in Views : views[u] # NONE => views'[u] # NONE) /\ views'[v] # NONE
<1>1. w # NONE /\ w.buffer \in Buffers
  BY DEF ViewType, NONE
<1>2. views \in [Views -> {NONE} \cup ViewType]
  BY DEF IInv, Types
<1>3. views' \in [Views -> {NONE} \cup ViewType]
  BY <1>2
<1>4. views'[v] = w /\ \A u \in Views : u # v => views'[u] = views[u]
  BY <1>2
<1>5. \A u \in Views : views[u] # NONE =>
        /\ views[u].buffer \in Buffers /\ buffers[views[u].buffer] # NONE
        /\ buffers'[views[u].buffer] = buffers[views[u].buffer]
  BY <1>2, ViewKinds DEF IInv, Standing, Stay
<1>6. ASSUME NEW u \in Views, views'[u] # NONE PROVE buffers'[views'[u].buffer] # NONE
  BY <1>1, <1>4, <1>5, <1>6
<1>7. ASSUME NEW u \in Views, views'[u].kind = "typed", Fits(buffers'[views'[u].buffer].size),
             Shown(views'[u]) < Word
      PROVE  Shown(views'[u]) <= buffers'[views'[u].buffer].size
  <2>1. CASE u = v
    BY <1>4, <1>7, <2>1 DEF FitsIn
  <2>2. CASE u # v
    <3>1. views'[u] = views[u] /\ views[u] # NONE
      BY <1>2, <1>4, <1>7, <2>2, ViewKinds
    <3> QED
      BY <1>5, <1>7, <3>1 DEF IInv, WindowsFit
  <2> QED
    BY <2>1, <2>2
<1>8. WindowsFit'
  BY <1>7 DEF WindowsFit, Fits, Shown
<1> QED
  BY <1>1, <1>3, <1>4, <1>6, <1>8 DEF ViewsOK

LEMMA ViewsUnchanged ==
  ASSUME IInv, Stay, UNCHANGED views
  PROVE  ViewsOK'
<1>1. views \in [Views -> {NONE} \cup ViewType]
  BY DEF IInv, Types
<1>2. \A u \in Views : views[u] # NONE =>
        /\ views[u].buffer \in Buffers /\ buffers[views[u].buffer] # NONE
        /\ buffers'[views[u].buffer] = buffers[views[u].buffer]
  BY <1>1, ViewKinds DEF IInv, Standing, Stay
<1>3. ASSUME NEW u \in Views, views[u].kind = "typed", Fits(buffers'[views[u].buffer].size),
             Shown(views[u]) < Word
      PROVE  Shown(views[u]) <= buffers'[views[u].buffer].size
  BY <1>1, <1>2, <1>3, ViewKinds DEF IInv, WindowsFit
<1>4. WindowsFit'
  BY <1>3 DEF WindowsFit, Fits, Shown
<1> QED
  BY <1>1, <1>2, <1>4 DEF ViewsOK

\* And of what is held.
HeldOK ==
  /\ held \subseteq Buffers \cup Views
  /\ \A b \in held \cap Buffers : buffers[b] # NONE
  /\ \A v \in held \cap Views : views[v] # NONE

LEMMA Together ==
  ASSUME BuffersOK', ViewsOK', HeldOK'
  PROVE  IInv'
  BY DEF BuffersOK, ViewsOK, HeldOK, IInv, Types, Standing

-----------------------------------------------------------------------------
(***************************************************************************)
(* The steps.                                                              *)
(***************************************************************************)
LEMMA InitIInv == Init => IInv
<1> SUFFICES ASSUME Init PROVE IInv
  OBVIOUS
<1>1. \A b \in Buffers : buffers[b] = NONE /\ buffers[b].kind = "none" /\ blocks[b] = <<>>
  BY KindsDiffer DEF Init
<1>2. \A v \in Views : views[v] = NONE /\ views[v].kind = "none"
  BY KindsDiffer DEF Init
<1>3. Types
  BY DEF Init, Types, BufferType
<1>4. Ranked(buffers)
  <2> DEFINE rank == [b \in Buffers |-> 0]
  <2>1. rank \in [Buffers -> 0..0]
    OBVIOUS
  <2>2. \A b \in Buffers : buffers[b].kind = "slice" => rank[buffers[b].buf] < rank[b]
    BY <1>1
  <2> HIDE DEF rank
  <2> QED
    BY <2>1, <2>2 DEF Ranked
<1>5. Standing
  BY <1>1, <1>2 DEF Init, Standing
<1> QED
  BY <1>1, <1>2, <1>3, <1>4, <1>5 DEF IInv, Backed, WindowsFit

\* A block of zeros for a size that calloc accepts.
LEMMA NewBlockIs ==
  ASSUME NEW size \in 0..(Word - 1)
  PROVE  /\ NewBlock(size) \in Seq(Byte)
         /\ Owner(size) \in Owners /\ Owner(size).kind = "own"
         /\ Fits(Owner(size).size) => Owner(size).size = size
         /\ Fits(Owner(size).size) => Owner(size).size <= Len(NewBlock(size))
<1>1. /\ Word \in Nat /\ MaxBlock \in Nat /\ 2 * MaxBlock < Word /\ 0 \in Byte
      /\ Unsigned(size) = size
  BY WordAssumption, Words
<1>2. Owner(size) = [kind |-> "own", size |-> Signed(size)] /\ Signed(size) \in Int
  BY <1>1, Words DEF Owner
<1>3. Fits(Signed(size)) => Signed(size) = size
  BY <1>1 DEF Signed, Fits
<1>4. size \in 1..MaxBlock => NewBlock(size) = Zeros(size) /\ Zeros(size) \in Seq(Byte)
                              /\ Len(Zeros(size)) = size
  BY <1>1 DEF NewBlock, Zeros
<1>5. size \notin 1..MaxBlock => NewBlock(size) = <<>>
  BY DEF NewBlock
<1>6. NewBlock(size) \in Seq(Byte)
  <2>1. <<>> \in Seq(Byte)
    OBVIOUS
  <2> QED
    BY <1>4, <1>5, <2>1, Zenon
<1>7. Fits(size) => size <= Len(NewBlock(size))
  BY <1>4, <1>5 DEF Fits
<1> QED
  BY <1>2, <1>3, <1>6, <1>7 DEF Owners

LEMMA FreePlaces ==
  /\ \A b \in Free : b \in Buffers /\ buffers[b] = NONE
  /\ \A v \in FreeViews : v \in Views /\ views[v] = NONE
  BY DEF Free, FreeViews

LEMMA HeldSplit ==
  ASSUME IInv, Stay, \A u \in Views : views[u] # NONE => views'[u] # NONE,
         NEW o, held' = held \cup {o},
         \/ o \in Buffers /\ buffers'[o] # NONE
         \/ o \in Views /\ views'[o] # NONE
  PROVE  HeldOK'
<1>1. held' \subseteq Buffers \cup Views
  BY DEF IInv, Types
<1>2. ASSUME NEW b \in held' \cap Buffers PROVE buffers'[b] # NONE
  BY PlacesAssumption DEF IInv, Standing, Stay
<1>3. ASSUME NEW v \in held' \cap Views PROVE views'[v] # NONE
  BY PlacesAssumption DEF IInv, Standing
<1> QED
  BY <1>1, <1>2, <1>3 DEF HeldOK

LEMMA ArrayBufferKeeps ==
  ASSUME IInv, NEW b \in Free, NEW n \in Counts, ArrayBuffer(b, n)
  PROVE  IInv'
<1>1. n \in 0..(Word - 1) /\ b \in Buffers /\ buffers[b] = NONE
  BY WordAssumption, FreePlaces
<1>2. /\ buffers' = [buffers EXCEPT ![b] = Owner(n)]
      /\ blocks' = [blocks EXCEPT ![b] = NewBlock(n)]
      /\ held' = held \cup {b} /\ UNCHANGED views
  BY DEF ArrayBuffer, NewBuffer
<1>3. /\ Owner(n) \in Owners \cup Slices /\ Owner(n).kind = "own" /\ NewBlock(n) \in Seq(Byte)
      /\ Fits(Owner(n).size) => Owner(n).size <= Len(NewBlock(n))
  BY <1>1, NewBlockIs
<1>4. BuffersOK' /\ Stay /\ buffers'[b] # NONE
  BY <1>1, <1>2, <1>3, BufferAdded
<1>5. ViewsOK'
  BY <1>2, <1>4, ViewsUnchanged
<1>6. HeldOK'
  BY <1>1, <1>2, <1>4, HeldSplit
<1> QED
  BY <1>4, <1>5, <1>6, Together

\* A pair of arguments, either of which may be missing.
LEMMA ArgsAre ==
  ASSUME NEW args \in Args
  PROVE  /\ Len(args) \in 0..2 /\ (args = <<>> <=> Len(args) = 0)
         /\ args # <<>> => args[1] \in 0..(Word - 1)
         /\ ~(Len(args) < 2) => args[2] \in 0..(Word - 1)
<1>1. PICK n \in 0..2 : args \in [1..n -> Offsets]
  BY DEF Args
<1>2. args \in Seq(Offsets) /\ Len(args) = n
  BY <1>1
<1>3. Offsets \subseteq 0..(Word - 1)
  BY WordAssumption
<1>4. args = <<>> <=> n = 0
  BY <1>2
<1>5. n # 0 => args[1] \in Offsets
  BY <1>1
<1>6. n = 2 => args[2] \in Offsets
  BY <1>1
<1>7. ~(Len(args) < 2) => n = 2
  BY <1>2
<1> QED
  BY <1>2, <1>3, <1>4, <1>5, <1>6, <1>7

LEMMA MinOfTwo ==
  ASSUME NEW x \in Int, NEW y \in Int
  PROVE  Min({x, y}) \in {x, y} /\ Min({x, y}) <= x /\ Min({x, y}) <= y
  BY DEF Min

LEMMA SliceKeeps ==
  ASSUME IInv, NEW b \in Free, NEW p \in Buffers, NEW args \in Args, Slice(b, p, args)
  PROVE  IInv'
<1> DEFINE offset == IF Len(args) < 2 THEN 0 ELSE Signed(args[2])
           size   == IF args = <<>> THEN buffers[p].size ELSE Signed(args[1])
           x      == SliceOf(p, offset, size)
<1>1. b \in Buffers /\ buffers[b] = NONE /\ buffers[p] # NONE
  BY FreePlaces DEF Slice, IInv, Standing
<1>2. buffers[p].size \in Int
  BY <1>1, KindsDiffer DEF IInv, Types
<1>3. offset \in Int /\ size \in Int
  <2>1. \A m \in 0..(Word - 1) : Signed(m) \in Int
    BY Words
  <2> QED
    BY <1>2, <2>1, ArgsAre
<1>4. /\ buffers' = [buffers EXCEPT ![b] = x]
      /\ held' = held \cup {b} /\ UNCHANGED <<views, blocks>>
  BY DEF Slice
<1> HIDE DEF offset, size
<1>5. x \in Slices /\ x.kind = "slice" /\ x.buf = p
  <2>1. Min({buffers[p].size, offset}) \in Int
    BY <1>2, <1>3, MinOfTwo
  <2> QED
    BY <1>2, <1>3, <2>1 DEF SliceOf, Slices
<1>6. blocks[b] \in Seq(Byte) /\ blocks' = [blocks EXCEPT ![b] = blocks[b]]
  BY <1>1, <1>4 DEF IInv, Types
<1> HIDE DEF x
<1>7. BuffersOK' /\ Stay /\ buffers'[b] # NONE
  BY <1>1, <1>4, <1>5, <1>6, BufferAdded
<1>8. ViewsOK'
  BY <1>4, <1>7, ViewsUnchanged
<1>9. HeldOK'
  BY <1>1, <1>4, <1>7, HeldSplit
<1> QED
  BY <1>7, <1>8, <1>9, Together

LEMMA TypedArrayType ==
  ASSUME NEW b \in Buffers, NEW k \in Sizes, NEW at \in Nat, NEW n \in Nat
  PROVE  /\ TypedArray(b, k, at, n) \in ViewType
         /\ TypedArray(b, k, at, n).buffer = b
         /\ Shown(TypedArray(b, k, at, n)) = at + n * k
  BY WordAssumption DEF TypedArray, ViewType, Shown

LEMMA OfLengthKeeps ==
  ASSUME IInv, NEW v \in FreeViews, NEW b \in Free, NEW k \in Sizes, NEW n \in Counts,
         TypedArrayOfLength(v, b, k, n)
  PROVE  IInv'
<1> DEFINE size == Unsigned(n * k)
           w    == TypedArray(b, k, 0, n)
<1>1. /\ b \in Buffers /\ buffers[b] = NONE /\ v \in Views /\ views[v] = NONE
      /\ n \in Nat /\ k \in Nat /\ n * k \in Nat /\ Word \in Nat
  BY WordAssumption, FreePlaces
<1>2. size \in 0..(Word - 1) /\ (n * k < Word => size = n * k)
  <2>1. n * k \in Int
    BY <1>1
  <2>2. n * k < Word => n * k \in 0..(Word - 1)
    BY <1>1
  <2> QED
    BY <2>1, <2>2, Words
<1>3. /\ buffers' = [buffers EXCEPT ![b] = Owner(size)]
      /\ blocks' = [blocks EXCEPT ![b] = NewBlock(size)]
      /\ views' = [views EXCEPT ![v] = w]
      /\ held' = held \cup {v}
  BY DEF TypedArrayOfLength, NewBuffer
<1>4. w \in ViewType /\ w.buffer = b /\ Shown(w) = 0 + n * k
  BY <1>1, TypedArrayType
<1> HIDE DEF size, w
<1>5. /\ Owner(size) \in Owners \cup Slices /\ Owner(size).kind = "own"
      /\ NewBlock(size) \in Seq(Byte)
      /\ Fits(Owner(size).size) => Owner(size).size <= Len(NewBlock(size))
  BY <1>2, NewBlockIs
<1>6. BuffersOK' /\ Stay /\ buffers'[b] # NONE /\ buffers'[b] = Owner(size)
  BY <1>1, <1>3, <1>5, BufferAdded
<1>7. FitsIn(w, buffers'[w.buffer])
  <2>1. Fits(Owner(size).size) => Owner(size).size = size
    BY <1>2, NewBlockIs
  <2>2. Shown(w) = n * k
    BY <1>1, <1>4
  <2> QED
    BY <1>1, <1>2, <1>4, <1>6, <2>1, <2>2 DEF FitsIn
<1>8. ViewsOK' /\ (\A u \in Views : views[u] # NONE => views'[u] # NONE) /\ views'[v] # NONE
  BY <1>1, <1>3, <1>4, <1>6, <1>7, ViewAdded
<1>9. HeldOK'
  BY <1>1, <1>3, <1>6, <1>8, HeldSplit
<1> QED
  BY <1>6, <1>8, <1>9, Together

\* The bytes of an array of at most two numbers.
LEMMA FlattenIs ==
  ASSUME NEW elements \in Arrays, NEW k \in Sizes
  PROVE  LET bytes == FlattenSeq([i \in DOMAIN elements |-> Cast(elements[i], k)])
         IN  /\ Len(elements) \in Nat
             /\ bytes \in Seq(Byte) /\ Len(bytes) = Len(elements) * k
<1> DEFINE s == [i \in DOMAIN elements |-> Cast(elements[i], k)]
<1>1. PICK n \in 0..2 : elements \in [1..n -> Values]
  BY DEF Arrays
<1>2. Len(elements) = n /\ DOMAIN elements = 1..n
  BY <1>1
<1>3. k \in Nat \ {0} /\ \A i \in 1..n : Cast(elements[i], k) \in Seq(Byte)
                                         /\ Len(Cast(elements[i], k)) = k
  <2>1. k \in Nat \ {0}
    BY WordAssumption
  <2>2. ASSUME NEW i \in 1..n PROVE Cast(elements[i], k) \in Seq(Byte) /\ Len(Cast(elements[i], k)) = k
    <3>1. elements[i] \in Seq(Byte) /\ k <= Len(elements[i])
      BY <1>1, WordAssumption
    <3> QED
      BY <2>1, <3>1 DEF Cast
  <2> QED
    BY <2>1, <2>2
<1>4. s = [i \in 1..n |-> Cast(elements[i], k)] /\ Len(s) = n
  BY <1>1, <1>2
<1>5. \A i \in 1..n : s[i] \in Seq(Byte) /\ Len(s[i]) = k
  BY <1>3, <1>4
<1> HIDE DEF s
<1> DEFINE Goal == FlattenSeq(s) \in Seq(Byte) /\ Len(FlattenSeq(s)) = Len(elements) * k
<1>6. ASSUME n = 0 PROVE Goal
  <2>1. FlattenSeq(s) = s /\ s = <<>>
    BY <1>4, <1>6 DEF FlattenSeq
  <2>2. <<>> \in Seq(Byte) /\ Len(<<>>) = 0
    OBVIOUS
  <2>3. Len(elements) * k = 0
    BY <1>2, <1>3, <1>6
  <2> QED
    BY <2>1, <2>2, <2>3
<1>7. ASSUME n # 0 PROVE Goal
  <2> DEFINE Body(f, i) == IF i = 1 THEN s[i] ELSE f[i - 1] \o s[i]
             g == [i \in 1..n |-> IF i = 1 THEN s[1] ELSE s[1] \o s[2]]
             h == CHOOSE f : f = [i \in 1..n |-> Body(f, i)]
  <2>1. n \in 1..2
    BY <1>7
  <2>2. \A i \in 1..n : g[i] = Body(g, i)
    <3> TAKE i \in 1..n
    <3>1. CASE i = 1
      BY <2>1, <3>1
    <3>2. CASE i # 1
      <4>1. i = 2 /\ n = 2 /\ i - 1 = 1
        BY <2>1, <3>2
      <4>2. 1 \in 1..n /\ 2 \in 1..n
        BY <4>1
      <4>3. g[1] = s[1]
        BY <4>2
      <4>4. g[2] = s[1] \o s[2]
        <5>1. 2 # 1
          OBVIOUS
        <5>2. g[2] = IF 2 = 1 THEN s[1] ELSE s[1] \o s[2]
          BY <4>2, Zenon
        <5> QED
          BY <5>1, <5>2, Zenon
      <4> HIDE DEF g
      <4> QED
        BY <4>1, <4>3, <4>4
    <3> QED
      BY <3>1, <3>2
  <2>3. g = [i \in 1..n |-> Body(g, i)]
    BY <2>2
  <2>4. h = [i \in 1..n |-> Body(h, i)]
    BY <2>3
  <2>5. FlattenSeq(s) = h[n]
    BY <1>4, <1>7 DEF FlattenSeq
  <2> HIDE DEF h
  <2>6. CASE n = 1
    <3>1. h[1] = s[1]
      BY <2>4, <2>6
    <3>2. Len(elements) * k = k
      BY <1>2, <1>3, <2>6
    <3>3. s[1] \in Seq(Byte) /\ Len(s[1]) = k
      BY <1>5, <2>6
    <3> QED
      BY <2>5, <2>6, <3>1, <3>2, <3>3
  <2>7. CASE n = 2
    <3>1. h[1] = s[1] /\ h[2] = h[1] \o s[2]
      <4>1. 1 \in 1..n /\ 2 \in 1..n /\ 2 - 1 = 1
        BY <2>7
      <4>2. h[1] = s[1]
        BY <2>4, <4>1
      <4>3. h[2] = Body(h, 2)
        <5> HIDE DEF Body
        <5> QED
          BY <2>4, <4>1, Zenon
      <4>4. 2 # 1
        OBVIOUS
      <4>5. h[2] = h[2 - 1] \o s[2]
        BY <4>3, <4>4, Zenon
      <4> QED
        BY <4>1, <4>2, <4>5, Zenon
    <3>2. s[1] \in Seq(Byte) /\ s[2] \in Seq(Byte) /\ Len(s[1]) = k /\ Len(s[2]) = k
      BY <1>5, <2>7
    <3>3. \A x, y \in Seq(Byte) : x \o y \in Seq(Byte) /\ Len(x \o y) = Len(x) + Len(y)
      OBVIOUS
    <3>4. s[1] \o s[2] \in Seq(Byte) /\ Len(s[1] \o s[2]) = Len(s[1]) + Len(s[2])
      BY <3>2, <3>3, Zenon
    <3>5. h[2] \in Seq(Byte) /\ Len(h[2]) = k + k
      BY <3>1, <3>2, <3>4, Zenon
    <3>6. Len(elements) * k = k + k
      BY <1>2, <1>3, <2>7
    <3> QED
      BY <2>5, <2>7, <3>5, <3>6
  <2> QED
    BY <2>1, <2>6, <2>7
<1>8. Goal
  BY <1>6, <1>7
<1> QED
  BY <1>1, <1>2, <1>8 DEF s

LEMMA FromArrayKeeps ==
  ASSUME IInv, NEW v \in FreeViews, NEW b \in Free, NEW k \in Sizes, NEW elements \in Arrays,
         TypedArrayFromArray(v, b, k, elements)
  PROVE  IInv'
<1> DEFINE bytes == FlattenSeq([i \in DOMAIN elements |-> Cast(elements[i], k)])
           x == Owner(Len(bytes))
           w == TypedArray(b, k, 0, Len(elements))
<1>1. b \in Buffers /\ buffers[b] = NONE /\ v \in Views /\ views[v] = NONE
  BY FreePlaces
<1>2. /\ buffers' = [buffers EXCEPT ![b] = x] /\ blocks' = [blocks EXCEPT ![b] = bytes]
      /\ views' = [views EXCEPT ![v] = w] /\ held' = held \cup {v}
  BY DEF TypedArrayFromArray
<1>3. bytes \in Seq(Byte) /\ Len(elements) \in Nat /\ Len(bytes) = Len(elements) * k
  BY FlattenIs
<1> HIDE DEF bytes
<1>4. Len(bytes) \in Nat /\ Word \in Nat
  BY <1>3, WordAssumption
<1>5. /\ x.kind = "own" /\ x \in Owners \cup Slices /\ x.size \in Int
      /\ x.size <= Len(bytes)
      /\ Fits(x.size) /\ Len(bytes) < Word => x.size = Len(bytes)
  <2>1. Signed(Len(bytes)) \in Int /\ Signed(Len(bytes)) <= Len(bytes)
    BY <1>4, Words
  <2>2. Signed(Len(bytes)) >= 0 /\ Len(bytes) < Word => Signed(Len(bytes)) = Len(bytes)
    BY <1>4, Words
  <2> QED
    BY <2>1, <2>2 DEF Owner, Owners, Fits
<1>6. w \in ViewType /\ w.buffer = b /\ Shown(w) = Len(bytes)
  <2>1. Shown(w) = 0 + Len(elements) * k
    BY <1>1, <1>3, TypedArrayType
  <2>2. w \in ViewType /\ w.buffer = b
    BY <1>1, <1>3, TypedArrayType
  <2> HIDE DEF w
  <2> QED
    BY <1>3, <1>4, <2>1, <2>2
<1> HIDE DEF x, w
<1>7. BuffersOK' /\ Stay /\ buffers'[b] # NONE /\ buffers'[b] = x
  BY <1>1, <1>2, <1>3, <1>5, BufferAdded
<1>8. FitsIn(w, buffers'[w.buffer])
  BY <1>4, <1>5, <1>6, <1>7 DEF FitsIn
<1>9. ViewsOK' /\ (\A u \in Views : views[u] # NONE => views'[u] # NONE) /\ views'[v] # NONE
  BY <1>1, <1>2, <1>6, <1>7, <1>8, ViewAdded
<1>10. HeldOK'
  BY <1>1, <1>2, <1>7, <1>9, HeldSplit
<1> QED
  BY <1>7, <1>9, <1>10, Together

\* A multiple of k, in elements of k bytes.
LEMMA WholeElements ==
  ASSUME NEW n \in Nat, NEW k \in Nat \ {0}, n % k = 0
  PROVE  n \div k \in Nat /\ (n \div k) * k = n
  OBVIOUS

LEMMA OnBufferKeeps ==
  ASSUME IInv, NEW v \in FreeViews, NEW b \in Buffers, NEW args \in Args, NEW k \in Sizes,
         TypedArrayOn(v, b, k, args)
  PROVE  IInv'
<1> DEFINE win == Window(b, k, args)
           size == Unsigned(buffers[b].size)
           at == IF args = <<>> THEN 0 ELSE Min({size, args[1]})
           asked == IF Len(args) < 2 THEN size ELSE Unsigned(args[2] * k)
           exceeds == Unsigned(at + asked) > size
           bytes == IF exceeds THEN size - at ELSE asked
           w == TypedArray(b, k, at, bytes \div k)
<1>1. /\ v \in Views /\ views[v] = NONE /\ buffers[b] # NONE
      /\ k \in Nat \ {0} /\ Word \in Nat
  BY FreePlaces, WordAssumption DEF TypedArrayOn, IInv, Standing
<1>2. buffers[b].size \in Int
  BY <1>1, KindsDiffer DEF IInv, Types
<1>3. size \in 0..(Word - 1) /\ (Fits(buffers[b].size) => size = buffers[b].size)
  <2>1. Fits(buffers[b].size) => buffers[b].size \in 0..(Word - 1)
    BY WordAssumption DEF Fits
  <2> QED
    BY <1>2, <2>1, Words
<1> HIDE DEF size
<1>4. at \in Nat /\ at <= size
  <2>1. size \in Int /\ size >= 0
    BY <1>1, <1>3
  <2>2. CASE args = <<>>
    BY <2>1, <2>2
  <2>3. CASE args # <<>>
    <3>1. args[1] \in Int /\ args[1] >= 0
      BY <1>1, <2>3, ArgsAre
    <3>2. Min({size, args[1]}) \in {size, args[1]} /\ Min({size, args[1]}) <= size
      BY <2>1, <3>1, MinOfTwo
    <3> QED
      BY <2>1, <2>3, <3>1, <3>2
  <2> QED
    BY <2>2, <2>3
<1>5. asked \in 0..(Word - 1)
  <2>1. ~(Len(args) < 2) => args[2] \in 0..(Word - 1)
    BY ArgsAre
  <2>2. ~(Len(args) < 2) => args[2] * k \in Int
    BY <1>1, <2>1
  <2> QED
    BY <1>3, <2>2, Words
<1> HIDE DEF at, asked
<1>6. bytes \in Nat /\ (at + bytes < Word => at + bytes <= size)
  <2>1. CASE exceeds
    BY <1>3, <1>4, <2>1
  <2>2. CASE ~exceeds
    <3>1. at + asked < Word => Unsigned(at + asked) = at + asked
      <4>1. at + asked < Word => at + asked \in 0..(Word - 1)
        BY <1>1, <1>4, <1>5
      <4> QED
        BY <4>1, Words
    <3>2. ~(Unsigned(at + asked) > size) /\ bytes = asked /\ Unsigned(at + asked) \in Int
      <4>1. at + asked \in Int
        BY <1>4, <1>5
      <4> QED
        BY <2>2, <4>1, <1>1, Words
    <3> HIDE DEF bytes, exceeds
    <3> QED
      BY <1>3, <1>4, <1>5, <3>1, <3>2
  <2> QED
    BY <2>1, <2>2
<1>7. win = [at |-> at, bytes |-> bytes,
             stops |-> (Len(args) = 2 /\ exceeds) \/ at % k # 0 \/ bytes % k # 0]
  BY DEF Window, at, asked, size
<1> HIDE DEF bytes, exceeds
<1>8. CASE win.stops
  <2>1. UNCHANGED <<buffers, blocks, views, held>>
    BY <1>8 DEF TypedArrayOn
  <2>2. BuffersOK' /\ Stay
    BY <2>1, BuffersUnchanged
  <2>3. ViewsOK'
    BY <2>1, <2>2, ViewsUnchanged
  <2>4. HeldOK'
    BY <2>1 DEF HeldOK, IInv, Types, Standing
  <2> QED
    BY <2>2, <2>3, <2>4, Together
<1>9. CASE ~win.stops
  <2>1. /\ views' = [views EXCEPT ![v] = w] /\ held' = held \cup {v}
        /\ UNCHANGED <<buffers, blocks>>
    BY <1>7, <1>9 DEF TypedArrayOn
  <2>2. bytes % k = 0
    <3>1. win.stops = ((Len(args) = 2 /\ exceeds) \/ at % k # 0 \/ bytes % k # 0)
      <4> HIDE DEF win
      <4> QED
        BY <1>7
    <3> HIDE DEF win
    <3> QED
      BY <1>9, <3>1
  <2>3. bytes \div k \in Nat /\ (bytes \div k) * k = bytes
    BY <1>1, <1>6, <2>2, WholeElements
  <2>4. w \in ViewType /\ w.buffer = b /\ Shown(w) = at + (bytes \div k) * k
    BY <1>4, <2>3, TypedArrayType
  <2> HIDE DEF w
  <2>5. BuffersOK' /\ Stay /\ buffers' = buffers
    BY <2>1, BuffersUnchanged
  <2>6. FitsIn(w, buffers'[w.buffer])
    BY <1>3, <1>6, <2>3, <2>4, <2>5 DEF FitsIn
  <2>7. buffers'[w.buffer] # NONE
    BY <1>1, <2>4, <2>5
  <2>8. ViewsOK' /\ (\A u \in Views : views[u] # NONE => views'[u] # NONE) /\ views'[v] # NONE
    BY <1>1, <2>1, <2>4, <2>5, <2>6, <2>7, ViewAdded
  <2>9. HeldOK'
    BY <1>1, <2>1, <2>5, <2>8, HeldSplit
  <2> QED
    BY <2>5, <2>8, <2>9, Together
<1> QED
  BY <1>8, <1>9

LEMMA DataViewKeeps ==
  ASSUME IInv, NEW v \in FreeViews, NEW b \in Buffers, NEW args \in Args, DataView(v, b, args)
  PROVE  IInv'
<1> DEFINE at == IF args = <<>> THEN 0 ELSE args[1]
           bytes == IF Len(args) < 2 THEN Unsigned(buffers[b].size - at) ELSE args[2]
           w == [kind |-> "data", buffer |-> b, elem |-> 1, byteOffset |-> at, length |-> bytes]
<1>1. /\ v \in Views /\ views[v] = NONE /\ buffers[b] # NONE /\ Word \in Nat
  BY FreePlaces, WordAssumption DEF DataView, IInv, Standing
<1>2. buffers[b].size \in Int
  BY <1>1, KindsDiffer DEF IInv, Types
<1>3. at \in Nat
  BY <1>1, ArgsAre
<1> HIDE DEF at
<1>4. bytes \in Nat
  <2>1. buffers[b].size - at \in Int
    BY <1>2, <1>3
  <2>2. Unsigned(buffers[b].size - at) \in Nat
    BY <1>1, <2>1, Words
  <2> QED
    BY <1>1, <2>2, ArgsAre
<1>5. /\ views' = [views EXCEPT ![v] = w] /\ held' = held \cup {v}
      /\ UNCHANGED <<buffers, blocks>>
  BY DEF DataView, at
<1> HIDE DEF bytes
<1>6. w \in ViewType /\ w.buffer = b /\ w.kind = "data"
  BY <1>3, <1>4, WordAssumption DEF ViewType
<1> HIDE DEF w
<1>7. BuffersOK' /\ Stay /\ buffers' = buffers
  BY <1>5, BuffersUnchanged
<1>8. FitsIn(w, buffers'[w.buffer]) /\ buffers'[w.buffer] # NONE
  BY <1>1, <1>6, <1>7 DEF FitsIn
<1>9. ViewsOK' /\ (\A u \in Views : views[u] # NONE => views'[u] # NONE) /\ views'[v] # NONE
  BY <1>1, <1>5, <1>6, <1>7, <1>8, ViewAdded
<1>10. HeldOK'
  BY <1>1, <1>5, <1>7, <1>9, HeldSplit
<1> QED
  BY <1>7, <1>9, <1>10, Together

(***************************************************************************)
(* A store changes bytes and no length.                                    *)
(***************************************************************************)
LEMMA BytesKeep ==
  ASSUME IInv, UNCHANGED <<buffers, views, held>>, blocks' \in [Buffers -> Seq(Byte)],
         \A b \in Buffers : Len(blocks'[b]) = Len(blocks[b])
  PROVE  IInv'
<1>1. BuffersOK
  BY DEF IInv, Types, Standing, BuffersOK
<1>2. BuffersOK'
  BY <1>1 DEF BuffersOK, Backed, Ranked, Fits
<1>3. ViewsOK'
  BY ViewsUnchanged DEF Stay
<1>4. HeldOK'
  BY DEF HeldOK, IInv, Types, Standing
<1> QED
  BY <1>2, <1>3, <1>4, Together

LEMMA PutKeeps ==
  ASSUME IInv, NEW v, NEW at, NEW x \in Seq(Byte), NEW little \in BOOLEAN, Put(v, at, x, little)
  PROVE  IInv'
<1> DEFINE a == Address(v, at)
           bytes == IF little THEN x ELSE Reverse(x)
           k == Len(bytes)
           new(s) == [j \in DOMAIN s |-> IF j - a.at \in 1..k THEN bytes[j - a.at] ELSE s[j]]
<1>1. bytes \in Seq(Byte) /\ k \in Nat
  <2>1. Reverse(x) \in Seq(Byte)
    BY DEF Reverse
  <2> QED
    BY <2>1
<1> HIDE DEF bytes
<1>2. \A i \in 1..k : bytes[i] \in Byte
  BY <1>1
<1> HIDE DEF k, a
<1>3. ASSUME NEW s \in Seq(Byte) PROVE new(s) \in Seq(Byte) /\ Len(new(s)) = Len(s)
  <2>1. DOMAIN s = 1..Len(s) /\ Len(s) \in Nat /\ \A j \in 1..Len(s) : s[j] \in Byte
    BY <1>3
  <2>2. new(s) \in [1..Len(s) -> Byte]
    BY <1>2, <2>1
  <2> QED
    BY <2>1, <2>2
<1>4. blocks \in [Buffers -> Seq(Byte)]
  BY DEF IInv, Types
<1>5. UNCHANGED <<buffers, views, held>>
  BY DEF Put
<1>6. \/ UNCHANGED blocks
      \/ blocks' = [blocks EXCEPT ![a.block] = new(@)]
  BY DEF Put, a, k, bytes
<1>7. blocks' \in [Buffers -> Seq(Byte)] /\ \A b \in Buffers : Len(blocks'[b]) = Len(blocks[b])
  <2>1. CASE UNCHANGED blocks
    BY <1>4, <2>1
  <2>2. CASE blocks' = [blocks EXCEPT ![a.block] = new(@)]
    <3> HIDE DEF new
    <3>1. \A b \in Buffers : blocks'[b] = IF b = a.block THEN new(blocks[b]) ELSE blocks[b]
      BY <1>4, <2>2
    <3>2. blocks' = [b \in Buffers |-> blocks'[b]]
      BY <1>4, <2>2
    <3>3. \A b \in Buffers : blocks[b] \in Seq(Byte)
      BY <1>4
    <3>4. \A b \in Buffers : blocks'[b] \in Seq(Byte) /\ Len(blocks'[b]) = Len(blocks[b])
      BY <1>3, <3>1, <3>3
    <3> QED
      BY <3>2, <3>4
  <2> QED
    BY <1>6, <2>1, <2>2
<1> QED
  BY <1>5, <1>7, BytesKeep

\* The bytes of a number.
LEMMA CastType ==
  ASSUME NEW y \in Values, NEW k \in Sizes
  PROVE  Cast(y, k) \in Seq(Byte) /\ Len(Cast(y, k)) = k
<1>1. y \in Seq(Byte) /\ k <= Len(y) /\ k \in Nat \ {0}
  BY WordAssumption
<1> QED
  BY <1>1 DEF Cast

LEMMA OnlyLastChanges ==
  ASSUME IInv, UNCHANGED <<buffers, blocks, views, held>>
  PROVE  IInv'
<1>1. BuffersOK' /\ Stay
  BY BuffersUnchanged
<1>2. ViewsOK'
  BY <1>1, ViewsUnchanged
<1>3. HeldOK'
  BY DEF HeldOK, IInv, Types, Standing
<1> QED
  BY <1>1, <1>2, <1>3, Together

\* A view that is held has elements.
LEMMA HeldView ==
  ASSUME IInv, NEW v, IsView(v)
  PROVE  v \in Views /\ views[v] # NONE /\ views[v].elem \in Sizes
<1>1. v \in Views /\ views[v] # NONE
  BY DEF IsView, IInv, Standing
<1> QED
  BY <1>1, ViewKinds DEF IInv, Types

LEMMA UseKeeps ==
  ASSUME IInv, Use
  PROVE  IInv'
<1>1. PICK v \in Views, i \in Indices :
        \/ GetElement(v, i)
        \/ \E x \in Values :
             \/ SetElement(v, i, x)
             \/ \E k \in Sizes, e \in BOOLEAN : DataSet(v, i, x, k, e)
        \/ \E k \in Sizes, e \in BOOLEAN : DataGet(v, i, k, e)
  BY DEF Use
<1>2. CASE GetElement(v, i)
  <2>1. UNCHANGED <<buffers, blocks, views, held>>
    BY <1>2 DEF GetElement, Fetch
  <2> QED
    BY <2>1, OnlyLastChanges
<1>3. ASSUME NEW x \in Values, SetElement(v, i, x) PROVE IInv'
  <2>1. views[v].elem \in Sizes
    BY <1>3, HeldView DEF SetElement
  <2>2. Cast(x, views[v].elem) \in Seq(Byte)
    BY <2>1, CastType
  <2>3. Put(v, i * views[v].elem, Cast(x, views[v].elem), TRUE)
    BY <1>3 DEF SetElement
  <2> QED
    BY <2>2, <2>3, PutKeeps
<1>4. ASSUME NEW x \in Values, NEW k \in Sizes, NEW e \in BOOLEAN, DataSet(v, i, x, k, e)
      PROVE  IInv'
  <2>1. Cast(x, k) \in Seq(Byte)
    BY CastType
  <2>2. Put(v, i, Cast(x, k), e)
    BY <1>4 DEF DataSet
  <2> QED
    BY <2>1, <2>2, PutKeeps
<1>5. ASSUME NEW k \in Sizes, NEW e \in BOOLEAN, DataGet(v, i, k, e) PROVE IInv'
  <2>1. UNCHANGED <<buffers, blocks, views, held>>
    BY <1>5 DEF DataGet, Fetch
  <2> QED
    BY <2>1, OnlyLastChanges
<1> QED
  BY <1>1, <1>2, <1>3, <1>4, <1>5

-----------------------------------------------------------------------------
LEMMA ReleaseKeeps ==
  ASSUME IInv, NEW o \in Buffers \cup Views, Release(o)
  PROVE  IInv'
<1>1. UNCHANGED <<buffers, blocks, views>> /\ held' = held \ {o}
  BY DEF Release
<1>2. BuffersOK' /\ Stay
  BY <1>1, BuffersUnchanged
<1>3. ViewsOK'
  BY <1>1, <1>2, ViewsUnchanged
<1>4. HeldOK'
  BY <1>1 DEF HeldOK, IInv, Types, Standing
<1> QED
  BY <1>2, <1>3, <1>4, Together

LEMMA BufferOfKeeps ==
  ASSUME IInv, NEW v \in Views, BufferOf(v)
  PROVE  IInv'
<1> DEFINE b == views[v].buffer
<1>1. UNCHANGED <<buffers, blocks, views>> /\ held' = held \cup {b}
  BY DEF BufferOf
<1>2. BuffersOK' /\ Stay
  BY <1>1, BuffersUnchanged
<1>3. ViewsOK'
  BY <1>1, <1>2, ViewsUnchanged
<1>4. views[v] # NONE
  BY DEF BufferOf, IInv, Standing
<1>5. b \in Buffers /\ buffers[b] # NONE
  <2>1. b \in Buffers
    BY <1>4, ViewKinds DEF IInv, Types
  <2> QED
    BY <1>4, <2>1 DEF IInv, Standing
<1> HIDE DEF b
<1>6. HeldOK'
  BY <1>1, <1>2, <1>5, HeldSplit
<1> QED
  BY <1>2, <1>3, <1>6, Together

(***************************************************************************)
(* A collection.  What is marked holds the parents of its slices and the   *)
(* buffers of the views that stay, so that nothing that stays leads to a   *)
(* place that is cleared.                                                  *)
(***************************************************************************)
Roots == (held \cap Buffers) \cup {views[v].buffer : v \in held \cap Views}

LEMMA MarkedIs ==
  ASSUME IInv
  PROVE  /\ Marked \subseteq Buffers /\ held \cap Buffers \subseteq Marked
         /\ \A v \in held \cap Views : views[v].buffer \in Marked
         /\ \A c \in Marked : buffers[c].kind = "slice" => buffers[c].buf \in Marked
<1>1. \A v \in held \cap Views : views[v].buffer \in Buffers
  BY ViewKinds DEF IInv, Types, Standing
<1>2. Roots \in SUBSET Buffers
  BY <1>1 DEF Roots
<1>3. Marked = Spread(Roots)
  BY MarkedSpread DEF Roots
<1>4. buffers \in [Buffers -> BufferType]
  BY DEF IInv, Types
<1>5. /\ Roots \subseteq Spread(Roots) /\ Spread(Roots) \subseteq Buffers
      /\ \A c \in Spread(Roots) : buffers[c].kind = "slice" => buffers[c].buf \in Spread(Roots)
  BY <1>2, <1>4, SpreadIs
<1> QED
  BY <1>3, <1>5 DEF Roots

LEMMA CollectKeeps ==
  ASSUME IInv, Collect
  PROVE  IInv'
<1> DEFINE M == Marked
<1>1. /\ M \subseteq Buffers /\ held \cap Buffers \subseteq M
      /\ \A v \in held \cap Views : views[v].buffer \in M
      /\ \A c \in M : buffers[c].kind = "slice" => buffers[c].buf \in M
  BY MarkedIs
<1>2. /\ buffers' = [b \in Buffers |-> IF b \in M THEN buffers[b] ELSE NONE]
      /\ blocks' = [b \in Buffers |-> IF b \in M THEN blocks[b] ELSE <<>>]
      /\ views' = [v \in Views |-> IF v \in held THEN views[v] ELSE NONE]
      /\ held' = held
  BY DEF Collect
<1> HIDE DEF M
<1>3. /\ buffers \in [Buffers -> BufferType] /\ blocks \in [Buffers -> Seq(Byte)]
      /\ views \in [Views -> {NONE} \cup ViewType] /\ held \subseteq Buffers \cup Views
  BY DEF IInv, Types
<1>4. NONE \in BufferType /\ NONE.kind = "none"
  BY KindsDiffer DEF BufferType
<1>5. Types'
  <2>1. buffers' \in [Buffers -> BufferType]
    BY <1>2, <1>3, <1>4
  <2>2. blocks' \in [Buffers -> Seq(Byte)]
    <3>1. <<>> \in Seq(Byte)
      OBVIOUS
    <3> QED
      BY <1>2, <1>3, <3>1
  <2>3. views' \in [Views -> {NONE} \cup ViewType]
    BY <1>2, <1>3
  <2> QED
    BY <1>2, <1>3, <2>1, <2>2, <2>3 DEF Types
<1>6. \A b \in Buffers : buffers'[b].kind = "slice" =>
        /\ b \in M /\ buffers'[b] = buffers[b] /\ buffers[b].buf \in M
        /\ buffers'[buffers[b].buf] = buffers[buffers[b].buf]
  BY <1>1, <1>2, <1>4
<1>7. Ranked(buffers')
  <2>1. PICK n \in Nat : \E rank \in [Buffers -> 0..n] :
          \A b \in Buffers : buffers[b].kind = "slice" => rank[buffers[b].buf] < rank[b]
    BY DEF IInv, Ranked
  <2>2. PICK rank \in [Buffers -> 0..n] :
          \A b \in Buffers : buffers[b].kind = "slice" => rank[buffers[b].buf] < rank[b]
    BY <2>1
  <2>3. \A b \in Buffers : buffers'[b].kind = "slice" => rank[buffers'[b].buf] < rank[b]
    BY <1>6, <2>2
  <2> QED
    BY <2>2, <2>3 DEF Ranked
<1>8. \A v \in Views : views'[v] # NONE =>
        /\ views'[v] = views[v] /\ v \in held
        /\ views[v].buffer \in M /\ views[v].buffer \in Buffers
        /\ buffers'[views[v].buffer] = buffers[views[v].buffer]
  BY <1>1, <1>2
<1>9. Standing'
  <2>1. \A b \in Buffers : buffers'[b].kind = "slice" => buffers'[buffers'[b].buf] # NONE
    BY <1>6 DEF IInv, Standing
  <2>2. \A v \in Views : views'[v] # NONE => buffers'[views'[v].buffer] # NONE
    BY <1>8 DEF IInv, Standing
  <2>3. \A b \in held' \cap Buffers : buffers'[b] # NONE
    BY <1>1, <1>2 DEF IInv, Standing
  <2>4. \A v \in held' \cap Views : views'[v] # NONE
    BY <1>2 DEF IInv, Standing
  <2> QED
    BY <2>1, <2>2, <2>3, <2>4 DEF Standing
<1>10. Backed'
  BY <1>2, <1>4 DEF IInv, Backed, Fits
<1>11. WindowsFit'
  <2>1. \A v \in Views : views'[v].kind = "typed" => views'[v] # NONE
    BY DEF NONE
  <2> QED
    BY <1>8, <2>1 DEF IInv, WindowsFit, FitsIn, Fits
<1> QED
  BY <1>5, <1>7, <1>9, <1>10, <1>11 DEF IInv

-----------------------------------------------------------------------------
LEMMA StepIInv == IInv /\ [Next]_vars => IInv'
<1> SUFFICES ASSUME IInv, [Next]_vars PROVE IInv'
  OBVIOUS
<1>1. CASE Create
  <2>1. CASE \E b \in Free : \E n \in Counts : ArrayBuffer(b, n)
    BY <2>1, ArrayBufferKeeps
  <2>2. CASE \E b \in Free : \E p \in Buffers, args \in Args : Slice(b, p, args)
    BY <2>2, SliceKeeps
  <2>3. CASE \E b \in Free : \E v \in FreeViews, k \in Sizes : \E n \in Counts :
               TypedArrayOfLength(v, b, k, n)
    BY <2>3, OfLengthKeeps
  <2>4. CASE \E b \in Free : \E v \in FreeViews, k \in Sizes : \E a \in Arrays :
               TypedArrayFromArray(v, b, k, a)
    BY <2>4, FromArrayKeeps
  <2>5. CASE \E v \in FreeViews, b \in Buffers, args \in Args : \E k \in Sizes :
               TypedArrayOn(v, b, k, args)
    BY <2>5, OnBufferKeeps
  <2>6. CASE \E v \in FreeViews, b \in Buffers, args \in Args : DataView(v, b, args)
    BY <2>6, DataViewKeeps
  <2> QED
    BY <1>1, <2>1, <2>2, <2>3, <2>4, <2>5, <2>6 DEF Create
<1>2. CASE Use
  BY <1>2, UseKeeps
<1>3. CASE Lifetime
  <2>1. CASE \E o \in Buffers \cup Views : Release(o)
    BY <2>1, ReleaseKeeps
  <2>2. CASE \E v \in Views : BufferOf(v)
    BY <2>2, BufferOfKeeps
  <2>3. CASE Collect
    BY <2>3, CollectKeeps
  <2> QED
    BY <1>3, <2>1, <2>2, <2>3 DEF Lifetime
<1>4. CASE UNCHANGED vars
  BY <1>4, OnlyLastChanges DEF vars
<1> QED
  BY <1>1, <1>2, <1>3, <1>4 DEF Next

LEMMA Invariance == Spec => []IInv
<1> QED
  BY InitIInv, StepIInv, PTL DEF Spec

(***************************************************************************)
(* A typed array shows nothing but bytes of a block that exists, in every  *)
(* number of buffers and views, sizes of elements and widths of a word.    *)
(***************************************************************************)
THEOREM ViewsShowWhatExists == Spec => []WindowsInside
<1> QED
  BY Invariance, IInvImplies, PTL

-----------------------------------------------------------------------------
(***************************************************************************)
(* The implementation of Bytes.  Addresses are cut to words at every slice *)
(* there, and once, after the whole walk, here; it comes to the same.      *)
(***************************************************************************)
LEMMA DivMod ==
  ASSUME NEW x \in Int, NEW w \in Nat \ {0}
  PROVE  x \div w \in Int /\ x % w \in 0..(w - 1) /\ x = w * (x \div w) + (x % w)
  OBVIOUS

LEMMA SameRest ==
  ASSUME NEW w \in Nat \ {0}, NEW a \in 0..(w - 1), NEW b \in 0..(w - 1), NEW q \in Int,
         a = b + w * q
  PROVE  a = b
<1>1. CASE q >= 1
  <2>1. w * q >= w
    BY <1>1
  <2> QED
    BY <2>1
<1>2. CASE q <= -1
  <2>1. w * q <= -w
    BY <1>2
  <2> QED
    BY <2>1
<1> QED
  BY <1>1, <1>2

LEMMA Wraps ==
  ASSUME NEW x \in Int, NEW y \in Int, NEW w \in Nat \ {0}
  PROVE  ((x % w) + y) % w = (x + y) % w
<1> DEFINE p == x \div w
           r == x % w
           s == (r + y) \div w
           a == (r + y) % w
           t == (x + y) \div w
           b == (x + y) % w
<1>1. p \in Int /\ r \in 0..(w - 1) /\ x = w * p + r
  BY DivMod
<1>2. r + y \in Int /\ x + y \in Int
  BY <1>1
<1>3. s \in Int /\ a \in 0..(w - 1) /\ r + y = w * s + a
  BY <1>2, DivMod
<1>4. t \in Int /\ b \in 0..(w - 1) /\ x + y = w * t + b
  BY <1>2, DivMod
<1> HIDE DEF p, r, s, a, t, b
<1> DEFINE q == (t - p) - s
<1>5. q \in Int
  BY <1>1, <1>3, <1>4
<1>6. a = b + w * q
  <2>1. w * q = w * t - w * p - w * s
    BY <1>1, <1>3, <1>4
  <2> DEFINE wp == w * p
             ws == w * s
             wt == w * t
  <2>2. wp \in Int /\ ws \in Int /\ wt \in Int
    BY <1>1, <1>3, <1>4
  <2>3. x = wp + r /\ r + y = ws + a /\ x + y = wt + b /\ w * q = wt - wp - ws
    BY <1>1, <1>3, <1>4, <2>1
  <2> HIDE DEF wp, ws, wt, q
  <2> DEFINE wq == w * q
  <2>4. wq = wt - wp - ws
    BY <2>3
  <2> HIDE DEF wq
  <2>5. a = b + wq
    BY <1>1, <1>3, <1>4, <2>2, <2>3, <2>4
  <2> QED
    BY <2>5 DEF wq
<1> HIDE DEF q
<1>7. a = b
  BY <1>3, <1>4, <1>5, <1>6, SameRest
<1> QED
  BY <1>7 DEF a, b, r

\* Cutting an address to a word early makes no difference.
LEMMA CutEarly ==
  ASSUME NEW x \in Int, NEW y \in Int
  PROVE  Unsigned(Unsigned(x) + y) = Unsigned(x + y)
<1>1. Word \in Nat \ {0}
  BY WordAssumption
<1> QED
  BY <1>1, Wraps DEF Unsigned

PlaceStep(bs, f, c) ==
  IF bs[c].kind # "slice" THEN [block |-> c, first |-> 0]
  ELSE [f[bs[c].buf] EXCEPT !.first = Unsigned(@ + bs[c].offset)]

Placed(bs) == CHOOSE f : f = [c \in Buffers |-> PlaceStep(bs, f, c)]

\* Where the walk ends, as a word.
At(bs, c) == [block |-> Walk(bs)[c].block, first |-> Unsigned(Walk(bs)[c].at)]

LEMMA PlacedIs ==
  ASSUME NEW bs \in [Buffers -> BufferType], Ranked(bs)
  PROVE  \A c \in Buffers : Placed(bs)[c] = At(bs, c)
<1>1. /\ Walk(bs) \in [Buffers -> Place]
      /\ \A c \in Buffers : Walk(bs)[c] = StepOf(bs, Walk(bs), c)
  BY WalkIs
<1>2. \A c \in Buffers : Walk(bs)[c].at \in Int
  BY <1>1 DEF Place
<1>3. \A c \in Buffers : bs[c].kind = "slice" => bs[c].buf \in Buffers /\ bs[c].offset \in Int
  BY KindsDiffer
<1> DEFINE g == [c \in Buffers |-> At(bs, c)]
<1>4. ASSUME NEW c \in Buffers PROVE At(bs, c) = PlaceStep(bs, g, c)
  <2>1. CASE bs[c].kind = "slice"
    <3> DEFINE p == bs[c].buf
    <3>1. p \in Buffers /\ Walk(bs)[p].at \in Int /\ bs[c].offset \in Int
      BY <1>2, <1>3, <2>1
    <3>2. Walk(bs)[c] = [block |-> Walk(bs)[p].block, at |-> Walk(bs)[p].at + bs[c].offset]
      BY <1>1, <2>1 DEF StepOf
    <3>3. Unsigned(Unsigned(Walk(bs)[p].at) + bs[c].offset) = Unsigned(Walk(bs)[p].at + bs[c].offset)
      BY <3>1, CutEarly
    <3>4. g[p] = [block |-> Walk(bs)[p].block, first |-> Unsigned(Walk(bs)[p].at)]
      BY <3>1 DEF At
    <3>5. PlaceStep(bs, g, c) = [g[p] EXCEPT !.first = Unsigned(@ + bs[c].offset)]
      BY <2>1 DEF PlaceStep
    <3> HIDE DEF g, p
    <3>6. PlaceStep(bs, g, c) = [block |-> Walk(bs)[p].block, first |-> Unsigned(Unsigned(Walk(bs)[p].at) + bs[c].offset)]
      BY <3>4, <3>5
    <3>7. At(bs, c) = [block |-> Walk(bs)[p].block, first |-> Unsigned(Walk(bs)[p].at + bs[c].offset)]
      BY <3>2 DEF At
    <3> QED
      BY <3>3, <3>6, <3>7
  <2>2. CASE bs[c].kind # "slice"
    <3>1. Walk(bs)[c] = [block |-> c, at |-> 0]
      BY <1>1, <2>2 DEF StepOf
    <3>2. Unsigned(0) = 0
      BY WordAssumption, Words
    <3>3. PlaceStep(bs, g, c) = [block |-> c, first |-> 0]
      BY <2>2 DEF PlaceStep
    <3> QED
      BY <3>1, <3>2, <3>3 DEF At
  <2> QED
    BY <2>1, <2>2
<1>5. g = [c \in Buffers |-> PlaceStep(bs, g, c)]
  <2>1. \A c \in Buffers : g[c] = PlaceStep(bs, g, c)
    BY <1>4
  <2> QED
    BY <2>1
<1> DEFINE w == Placed(bs)
<1>6. w = [c \in Buffers |-> PlaceStep(bs, w, c)]
  BY <1>5 DEF Placed
<1> HIDE DEF w
<1>7. \A c \in Buffers : w[c] = PlaceStep(bs, w, c)
  BY <1>6
<1>8. PICK n \in Nat : \E rank \in [Buffers -> 0..n] :
        \A b \in Buffers : bs[b].kind = "slice" => rank[bs[b].buf] < rank[b]
  BY DEF Ranked
<1>9. PICK rank \in [Buffers -> 0..n] :
        \A b \in Buffers : bs[b].kind = "slice" => rank[bs[b].buf] < rank[b]
  BY <1>8
<1> DEFINE S == {k \in Nat : \E c \in Buffers : rank[c] = k /\ w[c] # At(bs, c)}
<1>10. S = {}
  <2>1. SUFFICES ASSUME S # {} PROVE FALSE
    OBVIOUS
  <2>2. PICK k \in S : \A m \in S : k <= m
    <3>1. S \in SUBSET Nat
      OBVIOUS
    <3> HIDE DEF S
    <3> QED
      BY <2>1, <3>1, LeastNatural
  <2>3. PICK c \in Buffers : rank[c] = k /\ w[c] # At(bs, c)
    BY <2>2
  <2>4. CASE bs[c].kind = "slice"
    <3>1. bs[c].buf \in Buffers /\ rank[bs[c].buf] < k /\ rank[bs[c].buf] \in Nat /\ k \in Nat
      BY <1>3, <1>9, <2>3, <2>4
    <3>2. rank[bs[c].buf] \notin S
      BY <2>2, <3>1
    <3>3. w[bs[c].buf] = At(bs, bs[c].buf)
      BY <3>1, <3>2
    <3>4. w[bs[c].buf] = g[bs[c].buf]
      BY <3>1, <3>3
    <3> HIDE DEF g, S
    <3>5. PlaceStep(bs, w, c) = PlaceStep(bs, g, c)
      BY <3>4 DEF PlaceStep
    <3> QED
      BY <1>4, <1>7, <2>3, <3>5
  <2>5. CASE bs[c].kind # "slice"
    <3> HIDE DEF g, S
    <3>1. PlaceStep(bs, w, c) = PlaceStep(bs, g, c)
      BY <2>5 DEF PlaceStep
    <3> QED
      BY <1>4, <1>7, <2>3, <3>1
  <2> QED
    BY <2>4, <2>5
<1>11. \A c \in Buffers : w[c] = At(bs, c)
  BY <1>9, <1>10
<1> QED
  BY <1>11 DEF w

\* What the abstract specification has for buffers bs and views vs.
OriginBy(bs) == [b \in Buffers |-> IF bs[b] = NONE THEN [block |-> 0] ELSE At(bs, b)]

WindowBy(bs, w) ==
  [block |-> At(bs, w.buffer).block, first |-> Unsigned(At(bs, w.buffer).first + w.byteOffset),
   size |-> w.elem, count |-> w.length, raw |-> w.kind = "data"]

WindowsBy(bs, vs) ==
  [v \in Views |-> IF vs[v] = NONE THEN [block |-> 0] ELSE WindowBy(bs, vs[v])]

LEMMA MappedIs ==
  ASSUME buffers \in [Buffers -> BufferType], Ranked(buffers), views \in [Views -> {NONE} \cup ViewType]
  PROVE  Origin = OriginBy(buffers) /\ Windows = WindowsBy(buffers, views)
<1>1. \A b : PlaceOf(b) = Placed(buffers)[b]
  BY DEF PlaceOf, Placed, PlaceStep
<1>2. \A b \in Buffers : PlaceOf(b) = At(buffers, b)
  BY <1>1, PlacedIs
<1>3. \A v \in Views : views[v] # NONE => views[v].buffer \in Buffers
  BY ViewKinds
<1>4. Origin = OriginBy(buffers)
  BY <1>2 DEF Origin, OriginBy
<1>5. \A v \in Views : views[v] # NONE => PlaceOfView(v) = WindowBy(buffers, views[v])
  BY <1>2, <1>3 DEF PlaceOfView, WindowBy
<1> QED
  BY <1>4, <1>5 DEF Windows, WindowsBy

LEMMA MappedNext ==
  ASSUME buffers' \in [Buffers -> BufferType], Ranked(buffers'),
         views' \in [Views -> {NONE} \cup ViewType]
  PROVE  Origin' = OriginBy(buffers') /\ Windows' = WindowsBy(buffers', views')
<1>1. \A b : PlaceOf(b)' = Placed(buffers')[b]
  BY DEF PlaceOf, Placed, PlaceStep
<1>2. \A b \in Buffers : PlaceOf(b)' = At(buffers', b)
  BY <1>1, PlacedIs
<1>3. \A v \in Views : views'[v] # NONE => views'[v].buffer \in Buffers
  BY ViewKinds
<1>4. Origin' = OriginBy(buffers')
  BY <1>2 DEF Origin, OriginBy
<1>5. \A v \in Views : views'[v] # NONE => PlaceOfView(v)' = WindowBy(buffers', views'[v])
  BY <1>2, <1>3 DEF PlaceOfView, WindowBy
<1> QED
  BY <1>4, <1>5 DEF Windows, WindowsBy

-----------------------------------------------------------------------------
(***************************************************************************)
(* Buffers that keep their parents keep their places, and begin in a block *)
(* of one of them.                                                         *)
(***************************************************************************)
LEMMA WalkStays ==
  ASSUME NEW bs \in [Buffers -> BufferType], NEW cs \in [Buffers -> BufferType],
         Ranked(bs), Ranked(cs), NEW D \in SUBSET Buffers,
         \A c \in D : cs[c] = bs[c] /\ (bs[c].kind = "slice" => bs[c].buf \in D)
  PROVE  \A c \in D : Walk(cs)[c] = Walk(bs)[c] /\ Walk(bs)[c].block \in D
<1>1. \A c \in Buffers : Walk(bs)[c] = StepOf(bs, Walk(bs), c) /\ Walk(cs)[c] = StepOf(cs, Walk(cs), c)
  BY WalkIs
<1>2. PICK n \in Nat : \E rank \in [Buffers -> 0..n] :
        \A b \in Buffers : bs[b].kind = "slice" => rank[bs[b].buf] < rank[b]
  BY DEF Ranked
<1>3. PICK rank \in [Buffers -> 0..n] :
        \A b \in Buffers : bs[b].kind = "slice" => rank[bs[b].buf] < rank[b]
  BY <1>2
<1> DEFINE Same(c) == Walk(cs)[c] = Walk(bs)[c] /\ Walk(bs)[c].block \in D
           S == {k \in Nat : \E c \in D : rank[c] = k /\ ~Same(c)}
<1>4. S = {}
  <2>1. SUFFICES ASSUME S # {} PROVE FALSE
    OBVIOUS
  <2>2. PICK k \in S : \A m \in S : k <= m
    <3>1. S \in SUBSET Nat
      OBVIOUS
    <3> HIDE DEF S
    <3> QED
      BY <2>1, <3>1, LeastNatural
  <2>3. PICK c \in D : rank[c] = k /\ ~Same(c)
    BY <2>2
  <2>4. c \in Buffers /\ cs[c] = bs[c]
    BY <2>3
  <2>5. CASE bs[c].kind = "slice"
    <3> DEFINE p == bs[c].buf
    <3>1. p \in D /\ rank[p] < k /\ rank[p] \in Nat /\ k \in Nat
      BY <1>3, <2>3, <2>4, <2>5
    <3>2. rank[p] \notin S
      BY <2>2, <3>1
    <3>3. Same(p)
      BY <3>1, <3>2
    <3>4. /\ Walk(bs)[c] = [block |-> Walk(bs)[p].block, at |-> Walk(bs)[p].at + bs[c].offset]
          /\ Walk(cs)[c] = [block |-> Walk(cs)[p].block, at |-> Walk(cs)[p].at + bs[c].offset]
      BY <1>1, <2>4, <2>5 DEF StepOf
    <3>5. Walk(bs)[c].block = Walk(bs)[p].block
      BY <3>4
    <3> HIDE DEF p, S
    <3>6. Same(c)
      BY <3>3, <3>4, <3>5
    <3> QED
      BY <2>3, <3>6
  <2>6. CASE bs[c].kind # "slice"
    <3>1. Walk(bs)[c] = [block |-> c, at |-> 0] /\ Walk(cs)[c] = [block |-> c, at |-> 0]
      BY <1>1, <2>4, <2>6 DEF StepOf
    <3> QED
      BY <2>3, <3>1
  <2> QED
    BY <2>5, <2>6
<1>5. \A c \in D : rank[c] \in Nat
  BY <1>3
<1> QED
  BY <1>4, <1>5

LEMMA AtType ==
  ASSUME NEW bs \in [Buffers -> BufferType], Ranked(bs), NEW c \in Buffers
  PROVE  /\ At(bs, c).block \in Buffers /\ At(bs, c).first \in 0..(Word - 1)
         /\ At(bs, c) = [block |-> At(bs, c).block, first |-> At(bs, c).first]
         /\ bs[c].kind # "slice" => At(bs, c) = [block |-> c, first |-> 0]
<1>1. Walk(bs) \in [Buffers -> Place] /\ Walk(bs)[c] = StepOf(bs, Walk(bs), c)
  BY WalkIs
<1>2. Walk(bs)[c].block \in Buffers /\ Walk(bs)[c].at \in Int
  BY <1>1 DEF Place
<1>3. Unsigned(Walk(bs)[c].at) \in 0..(Word - 1)
  BY <1>2, Words
<1>4. Unsigned(0) = 0
  BY WordAssumption, Words
<1>5. bs[c].kind # "slice" => Walk(bs)[c] = [block |-> c, at |-> 0]
  BY <1>1 DEF StepOf
<1> QED
  BY <1>2, <1>3, <1>4, <1>5 DEF At

\* The same of the program's buffers, when those in use stay as they are.
LEMMA PlacesStay ==
  ASSUME IInv, IInv', Stay
  PROVE  \A c \in Buffers : buffers[c] # NONE => At(buffers', c) = At(buffers, c)
<1> DEFINE D == {c \in Buffers : buffers[c] # NONE}
<1>1. /\ buffers \in [Buffers -> BufferType] /\ buffers' \in [Buffers -> BufferType]
      /\ Ranked(buffers) /\ Ranked(buffers')
  BY DEF IInv, Types
<1>2. \A c \in D : buffers'[c] = buffers[c] /\ (buffers[c].kind = "slice" => buffers[c].buf \in D)
  BY <1>1, KindsDiffer DEF IInv, Standing, Stay
<1>3. D \in SUBSET Buffers
  OBVIOUS
<1>4. \A c \in D : Walk(buffers')[c] = Walk(buffers)[c]
  <2> HIDE DEF D
  <2> QED
    BY <1>1, <1>2, <1>3, WalkStays
<1> QED
  BY <1>4 DEF At

LEMMA Mapped ==
  ASSUME IInv, IInv'
  PROVE  /\ Origin = OriginBy(buffers) /\ Origin' = OriginBy(buffers')
         /\ Windows = WindowsBy(buffers, views) /\ Windows' = WindowsBy(buffers', views')
  BY MappedIs, MappedNext DEF IInv, Types

LEMMA WindowsStay ==
  ASSUME IInv, IInv', Stay, UNCHANGED views
  PROVE  Windows' = Windows
<1>1. \A v \in Views : views[v] # NONE =>
        views[v].buffer \in Buffers /\ buffers[views[v].buffer] # NONE
  BY ViewKinds DEF IInv, Types, Standing
<1>2. \A v \in Views : views[v] # NONE => WindowBy(buffers', views[v]) = WindowBy(buffers, views[v])
  BY <1>1, PlacesStay DEF WindowBy
<1> QED
  BY <1>2, Mapped DEF WindowsBy

LEMMA OriginStays ==
  ASSUME IInv, IInv', UNCHANGED buffers
  PROVE  Origin' = Origin /\ Stay
  BY Mapped DEF Stay

\* A buffer that is added.
LEMMA OriginGrows ==
  ASSUME IInv, IInv', NEW b \in Buffers, buffers[b] = NONE, NEW x,
         buffers' = [buffers EXCEPT ![b] = x], x # NONE
  PROVE  /\ Stay
         /\ Origin[b] = [block |-> 0] /\ Origin'[b] = At(buffers', b)
         /\ Origin' = [Origin EXCEPT ![b] = Origin'[b]]
<1>1. buffers'[b] = x /\ \A c \in Buffers : c # b => buffers'[c] = buffers[c]
  BY DEF IInv, Types
<1>2. Stay
  BY <1>1 DEF Stay
<1>3. Origin = OriginBy(buffers) /\ Origin' = OriginBy(buffers')
  BY Mapped
<1>4. Origin[b] = [block |-> 0] /\ Origin'[b] = At(buffers', b)
  BY <1>1, <1>3 DEF OriginBy
<1>5. \A c \in Buffers : c # b => Origin'[c] = Origin[c]
  <2> SUFFICES ASSUME NEW c \in Buffers, c # b PROVE Origin'[c] = Origin[c]
    OBVIOUS
  <2>1. Origin[c] = IF buffers[c] = NONE THEN [block |-> 0] ELSE At(buffers, c)
    BY <1>3 DEF OriginBy
  <2>2. Origin'[c] = IF buffers'[c] = NONE THEN [block |-> 0] ELSE At(buffers', c)
    BY <1>3 DEF OriginBy
  <2> QED
    BY <1>1, <1>2, <2>1, <2>2, PlacesStay
<1>6. Origin = [c \in Buffers |-> Origin[c]] /\ Origin' = [c \in Buffers |-> Origin'[c]]
  BY <1>3 DEF OriginBy
<1>7. Origin' = [Origin EXCEPT ![b] = Origin'[b]]
  <2> DEFINE o == Origin
             p == Origin'
  <2>1. o = [c \in Buffers |-> o[c]] /\ p = [c \in Buffers |-> p[c]]
        /\ \A c \in Buffers : c # b => p[c] = o[c]
    BY <1>5, <1>6
  <2> HIDE DEF o, p
  <2>2. p = [o EXCEPT ![b] = p[b]]
    BY <2>1
  <2> QED
    BY <2>2 DEF o, p
<1> QED
  BY <1>2, <1>4, <1>7

\* A view that is added.
LEMMA WindowsGrow ==
  ASSUME IInv, IInv', Stay, NEW v \in Views, views[v] = NONE, NEW w \in ViewType,
         views' = [views EXCEPT ![v] = w]
  PROVE  /\ Windows[v] = [block |-> 0] /\ Windows'[v] = WindowBy(buffers', w)
         /\ Windows' = [Windows EXCEPT ![v] = Windows'[v]]
<1>1. views'[v] = w /\ w # NONE /\ \A u \in Views : u # v => views'[u] = views[u]
  BY ViewKinds DEF IInv, Types, ViewType, NONE
<1>2. Windows = WindowsBy(buffers, views) /\ Windows' = WindowsBy(buffers', views')
  BY Mapped
<1>3. Windows[v] = [block |-> 0] /\ Windows'[v] = WindowBy(buffers', w)
  BY <1>1, <1>2 DEF WindowsBy
<1>4. \A u \in Views : views[u] # NONE =>
        views[u].buffer \in Buffers /\ buffers[views[u].buffer] # NONE
  BY ViewKinds DEF IInv, Types, Standing
<1>5. \A u \in Views : u # v => Windows'[u] = Windows[u]
  <2> SUFFICES ASSUME NEW u \in Views, u # v PROVE Windows'[u] = Windows[u]
    OBVIOUS
  <2>1. Windows[u] = IF views[u] = NONE THEN [block |-> 0] ELSE WindowBy(buffers, views[u])
    BY <1>2 DEF WindowsBy
  <2>2. Windows'[u] = IF views'[u] = NONE THEN [block |-> 0] ELSE WindowBy(buffers', views'[u])
    BY <1>2 DEF WindowsBy
  <2>3. views[u] # NONE => WindowBy(buffers', views[u]) = WindowBy(buffers, views[u])
    BY <1>4, PlacesStay DEF WindowBy
  <2> QED
    BY <1>1, <2>1, <2>2, <2>3
<1>6. Windows = [u \in Views |-> Windows[u]] /\ Windows' = [u \in Views |-> Windows'[u]]
  BY <1>2 DEF WindowsBy
<1>7. Windows' = [Windows EXCEPT ![v] = Windows'[v]]
  <2> DEFINE o == Windows
             p == Windows'
  <2>1. o = [u \in Views |-> o[u]] /\ p = [u \in Views |-> p[u]]
        /\ \A u \in Views : u # v => p[u] = o[u]
    BY <1>5, <1>6
  <2> HIDE DEF o, p
  <2>2. p = [o EXCEPT ![v] = p[v]]
    BY <2>1
  <2> QED
    BY <2>2 DEF o, p
<1> QED
  BY <1>3, <1>7

-----------------------------------------------------------------------------
LEMMA Allocates ==
  ASSUME IInv, IInv', NEW b \in Buffers, buffers[b] = NONE, NEW x,
         buffers' = [buffers EXCEPT ![b] = x], x.kind = "own",
         NEW s \in Seq(Byte), Len(s) \in 0..MaxBlock, blocks' = [blocks EXCEPT ![b] = s]
  PROVE  Stay /\ Shared!Allocate(b)
<1>1. x # NONE
  BY DEF NONE
<1>2. buffers'[b] = x /\ blocks'[b] = s /\ buffers' \in [Buffers -> BufferType] /\ Ranked(buffers')
  BY DEF IInv, Types
<1>3. /\ Stay
      /\ Origin[b] = [block |-> 0] /\ Origin'[b] = At(buffers', b)
      /\ Origin' = [Origin EXCEPT ![b] = Origin'[b]]
  BY <1>1, OriginGrows
<1>4. At(buffers', b) = [block |-> b, first |-> 0]
  BY <1>2, AtType
<1>5. s \in [1..Len(s) -> Byte]
  OBVIOUS
<1>6. blocks'[b] \in UNION {Shared!Tuples(n) : n \in 0..MaxBlock}
  BY <1>2, <1>5 DEF Shared!Tuples
<1>7. blocks' = [blocks EXCEPT ![b] = blocks'[b]]
  BY <1>2
<1>8. Origin' = [Origin EXCEPT ![b] = [block |-> b, first |-> 0]]
  BY <1>3, <1>4
<1> QED
  BY <1>3, <1>6, <1>7, <1>8 DEF Shared!Allocate, Shared!None

LEMMA Shares ==
  ASSUME IInv, IInv', NEW b \in Buffers, buffers[b] = NONE, NEW x,
         buffers' = [buffers EXCEPT ![b] = x], x.kind = "slice", x.buf \in Buffers,
         buffers[x.buf] # NONE, UNCHANGED blocks
  PROVE  Stay /\ Shared!Share(b, x.buf)
<1> DEFINE p == x.buf
<1>1. x # NONE
  BY DEF NONE
<1>2. /\ buffers'[b] = x /\ buffers' \in [Buffers -> BufferType] /\ Ranked(buffers')
      /\ buffers \in [Buffers -> BufferType] /\ Ranked(buffers)
  BY DEF IInv, Types
<1>3. /\ Stay
      /\ Origin[b] = [block |-> 0] /\ Origin'[b] = At(buffers', b)
      /\ Origin' = [Origin EXCEPT ![b] = Origin'[b]]
  BY <1>1, OriginGrows
<1>4. Origin[p] = At(buffers, p) /\ At(buffers', p) = At(buffers, p)
  <2>1. Origin = OriginBy(buffers)
    BY Mapped
  <2> QED
    BY <1>3, <2>1, PlacesStay DEF OriginBy
<1>5. At(buffers, p).block \in Buffers /\ At(buffers, p).block # 0
  BY <1>2, AtType, PlacesAssumption
<1>6. Origin[p] # [block |-> 0]
  <2>1. [block |-> 0].block = 0
    OBVIOUS
  <2> QED
    BY <1>4, <1>5, <2>1
<1>7. At(buffers', b).block = At(buffers', p).block
  <2> DEFINE f == Walk(buffers')
  <2>1. f[b] = StepOf(buffers', f, b)
    BY <1>2, WalkIs
  <2>2. StepOf(buffers', f, b) = [block |-> f[p].block, at |-> f[p].at + x.offset]
    BY <1>2 DEF StepOf
  <2> DEFINE g == f[p]
             h == f[b]
  <2>3. h = [block |-> g.block, at |-> g.at + x.offset]
    BY <2>1, <2>2
  <2> HIDE DEF f, g, h
  <2>4. h.block = g.block
    BY <2>3
  <2> QED
    BY <2>4 DEF At, f, g, h
<1>8. At(buffers', b) \in [block : {Origin[p].block}, first : 0..(Word - 1)]
  <2>1. /\ At(buffers', b).first \in 0..(Word - 1)
        /\ At(buffers', b) = [block |-> At(buffers', b).block, first |-> At(buffers', b).first]
    BY <1>2, AtType
  <2> QED
    BY <1>4, <1>7, <2>1
<1> QED
  BY <1>3, <1>6, <1>8 DEF Shared!Share, Shared!None

LEMMA Opens ==
  ASSUME IInv, IInv', Stay, NEW v \in Views, views[v] = NONE, NEW w \in ViewType, w.length < Word,
         views' = [views EXCEPT ![v] = w]
  PROVE  Shared!Open(v, w.buffer)
<1>1. /\ Windows[v] = [block |-> 0] /\ Windows'[v] = WindowBy(buffers', w)
      /\ Windows' = [Windows EXCEPT ![v] = Windows'[v]]
  BY WindowsGrow
<1>2. w.buffer \in Buffers /\ w.elem \in Sizes /\ w.byteOffset \in Nat /\ w.length \in Nat /\ w # NONE
  BY ViewKinds DEF ViewType, NONE
<1>3. views'[v] = w /\ buffers'[w.buffer] # NONE
  <2>1. views'[v] = w
    BY DEF IInv, Types
  <2> QED
    BY <1>2, <2>1 DEF IInv, Standing
<1>4. buffers' \in [Buffers -> BufferType] /\ Ranked(buffers')
  BY DEF IInv, Types
<1> DEFINE o == At(buffers', w.buffer)
<1>5. Origin'[w.buffer] = o
  BY <1>2, <1>3, Mapped DEF OriginBy
<1>6. o.block \in Buffers /\ o.first \in 0..(Word - 1)
  BY <1>2, <1>4, AtType
<1>7. o # [block |-> 0]
  <2>1. [block |-> 0].block = 0 /\ o.block # 0
    BY <1>6, PlacesAssumption
  <2> HIDE DEF o
  <2> QED
    BY <2>1
<1>8. Windows'[v] = [block |-> o.block, first |-> Unsigned(o.first + w.byteOffset),
                     size |-> w.elem, count |-> w.length, raw |-> w.kind = "data"]
  BY <1>1 DEF WindowBy
<1> HIDE DEF o
<1>9. Unsigned(o.first + w.byteOffset) \in 0..(Word - 1)
  <2>1. o.first + w.byteOffset \in Int
    BY <1>2, <1>6
  <2> QED
    BY <2>1, Words
<1>10. w.length \in 0..(Word - 1)
  BY <1>2, WordAssumption
<1>11. (w.kind = "data") \in BOOLEAN
  OBVIOUS
<1>12. Windows'[v] \in [block : {Origin'[w.buffer].block}, first : 0..(Word - 1), size : Sizes,
                        count : 0..(Word - 1), raw : BOOLEAN]
  BY <1>2, <1>5, <1>8, <1>9, <1>10, <1>11
<1> QED
  BY <1>1, <1>5, <1>7, <1>12 DEF Shared!Open, Shared!None

-----------------------------------------------------------------------------
\* Only a buffer that owns a block has bytes.
Bare == \A b \in Buffers : buffers[b].kind # "own" => blocks[b] = <<>>

LEMMA BareAdded ==
  ASSUME IInv, Bare, NEW b \in Buffers, buffers[b] = NONE, NEW x,
         buffers' = [buffers EXCEPT ![b] = x],
         \/ x.kind = "own" /\ \E s : blocks' = [blocks EXCEPT ![b] = s]
         \/ UNCHANGED blocks
  PROVE  Bare'
<1>1. buffers \in [Buffers -> BufferType] /\ blocks \in [Buffers -> Seq(Byte)]
  BY DEF IInv, Types
<1>2. blocks[b] = <<>>
  BY KindsDiffer DEF Bare
<1>3. \A c \in Buffers : c # b => buffers'[c] = buffers[c] /\ blocks'[c] = blocks[c]
  BY <1>1
<1>4. buffers'[b] = x
  BY <1>1
<1> QED
  BY <1>2, <1>3, <1>4 DEF Bare

LEMMA BareStays ==
  ASSUME Bare, UNCHANGED <<buffers, blocks>>
  PROVE  Bare'
  BY DEF Bare

\* A step that accesses nothing.
LEMMA Quietly ==
  ASSUME Running, last' = Nothing, status' # "undefined",
         \/ Shared!Create
         \/ UNCHANGED <<blocks, Origin, Windows>>
         \/ \E dead \in SUBSET (Buffers \cup Views) : Shared!Release(dead)
  PROVE  Shared!Next
<1>1. (status = "undefined")' = (status = "undefined")
  BY DEF Running
<1>2. last' = Shared!Nothing
  BY DEF Shared!Nothing, Nothing
<1>3. Shared!Quiet
  BY <1>1, <1>2, Zenon DEF Shared!Quiet
<1> QED
  BY <1>3 DEF Shared!Next

LEMMA NewBlockSize ==
  \A n : Len(NewBlock(n)) \in 0..MaxBlock
<1>1. MaxBlock \in Nat
  BY WordAssumption
<1>2. ASSUME NEW n \in 1..MaxBlock PROVE Len(NewBlock(n)) \in 0..MaxBlock
  <2>1. NewBlock(n) = Zeros(n) /\ Len(Zeros(n)) = n
    BY <1>1, <1>2 DEF NewBlock, Zeros
  <2> QED
    BY <1>1, <2>1
<1>3. ASSUME NEW n, n \notin 1..MaxBlock PROVE Len(NewBlock(n)) \in 0..MaxBlock
  <2>1. NewBlock(n) = <<>>
    BY <1>3 DEF NewBlock
  <2> QED
    BY <1>1, <2>1
<1> QED
  BY <1>2, <1>3

LEMMA ArrayBufferStep ==
  ASSUME IInv, IInv', Bare, Running, NEW b \in Free, NEW n \in Counts, ArrayBuffer(b, n)
  PROVE  Bare' /\ Shared!Next
<1>1. n \in 0..(Word - 1) /\ b \in Buffers /\ buffers[b] = NONE
  BY WordAssumption, FreePlaces
<1>2. /\ buffers' = [buffers EXCEPT ![b] = Owner(n)]
      /\ blocks' = [blocks EXCEPT ![b] = NewBlock(n)]
      /\ last' = Nothing /\ UNCHANGED <<views, status>>
  BY DEF ArrayBuffer, NewBuffer
<1>3. Owner(n).kind = "own" /\ NewBlock(n) \in Seq(Byte) /\ Len(NewBlock(n)) \in 0..MaxBlock
  BY <1>1, NewBlockIs, NewBlockSize
<1>4. Stay /\ Shared!Allocate(b)
  BY <1>1, <1>2, <1>3, Allocates
<1>5. UNCHANGED Windows
  BY <1>2, <1>4, WindowsStay
<1>6. Shared!Create
  BY <1>1, <1>4, <1>5, Zenon DEF Shared!Create
<1>7. Shared!Next
  BY <1>2, <1>6, Quietly DEF Running
<1> QED
  BY <1>1, <1>2, <1>3, <1>7, BareAdded

LEMMA SliceStep ==
  ASSUME IInv, IInv', Bare, Running, NEW b \in Free, NEW p \in Buffers, NEW args \in Args,
         Slice(b, p, args)
  PROVE  Bare' /\ Shared!Next
<1> DEFINE offset == IF Len(args) < 2 THEN 0 ELSE Signed(args[2])
           size   == IF args = <<>> THEN buffers[p].size ELSE Signed(args[1])
           x      == SliceOf(p, offset, size)
<1>1. b \in Buffers /\ buffers[b] = NONE /\ buffers[p] # NONE
  BY FreePlaces DEF Slice, IInv, Standing
<1>2. /\ buffers' = [buffers EXCEPT ![b] = x]
      /\ last' = Nothing /\ UNCHANGED <<views, blocks, status>>
  BY DEF Slice
<1> HIDE DEF offset, size
<1>3. x.kind = "slice" /\ x.buf = p
  BY DEF SliceOf
<1> HIDE DEF x
<1>4. Stay /\ Shared!Share(b, p)
  BY <1>1, <1>2, <1>3, Shares
<1>5. UNCHANGED Windows
  BY <1>2, <1>4, WindowsStay
<1>6. Shared!Create
  BY <1>1, <1>4, <1>5, Zenon DEF Shared!Create
<1>7. Shared!Next
  BY <1>2, <1>6, Quietly DEF Running
<1> QED
  BY <1>1, <1>2, <1>7, BareAdded

LEMMA OfLengthStep ==
  ASSUME IInv, IInv', Bare, Running, NEW v \in FreeViews, NEW b \in Free, NEW k \in Sizes,
         NEW n \in Counts, TypedArrayOfLength(v, b, k, n)
  PROVE  Bare' /\ Shared!Next
<1> DEFINE size == Unsigned(n * k)
           w    == TypedArray(b, k, 0, n)
<1>1. /\ b \in Buffers /\ buffers[b] = NONE /\ v \in Views /\ views[v] = NONE
      /\ n \in Nat /\ n < Word /\ k \in Nat /\ n * k \in Int
  BY WordAssumption, FreePlaces
<1>2. size \in 0..(Word - 1)
  BY <1>1, Words
<1>3. /\ buffers' = [buffers EXCEPT ![b] = Owner(size)]
      /\ blocks' = [blocks EXCEPT ![b] = NewBlock(size)]
      /\ views' = [views EXCEPT ![v] = w]
      /\ last' = Nothing /\ UNCHANGED status
  BY DEF TypedArrayOfLength, NewBuffer
<1>4. w \in ViewType /\ w.buffer = b /\ w.length = n
  BY <1>1, TypedArrayType DEF TypedArray
<1> HIDE DEF size, w
<1>5. Owner(size).kind = "own" /\ NewBlock(size) \in Seq(Byte) /\ Len(NewBlock(size)) \in 0..MaxBlock
  BY <1>2, NewBlockIs, NewBlockSize
<1>6. Stay /\ Shared!Allocate(b)
  BY <1>1, <1>3, <1>5, Allocates
<1>7. Shared!Open(v, b)
  BY <1>1, <1>3, <1>4, <1>6, Opens
<1>8. Shared!Create
  BY <1>1, <1>6, <1>7, Zenon DEF Shared!Create
<1>9. Shared!Next
  BY <1>3, <1>8, Quietly DEF Running
<1> QED
  BY <1>1, <1>3, <1>5, <1>9, BareAdded

LEMMA FromArrayStep ==
  ASSUME IInv, IInv', Bare, Running, NEW v \in FreeViews, NEW b \in Free, NEW k \in Sizes,
         NEW elements \in Arrays, TypedArrayFromArray(v, b, k, elements)
  PROVE  Bare' /\ Shared!Next
<1> DEFINE bytes == FlattenSeq([i \in DOMAIN elements |-> Cast(elements[i], k)])
           x == Owner(Len(bytes))
           w == TypedArray(b, k, 0, Len(elements))
<1>1. b \in Buffers /\ buffers[b] = NONE /\ v \in Views /\ views[v] = NONE
  BY FreePlaces
<1>2. /\ buffers' = [buffers EXCEPT ![b] = x] /\ blocks' = [blocks EXCEPT ![b] = bytes]
      /\ views' = [views EXCEPT ![v] = w]
      /\ last' = Nothing /\ UNCHANGED status
  BY DEF TypedArrayFromArray
<1>3. bytes \in Seq(Byte) /\ Len(bytes) = Len(elements) * k
  BY FlattenIs
<1> HIDE DEF bytes
<1>4. Len(elements) \in 0..2
  <2>1. PICK m \in 0..2 : elements \in [1..m -> Values]
    BY DEF Arrays
  <2> QED
    BY <2>1
<1>5. /\ k \in Nat \ {0} /\ 2 * k <= MaxBlock /\ MaxBlock \in Nat /\ Word \in Nat
      /\ 2 * MaxBlock < Word
  BY WordAssumption
<1>6. Len(bytes) \in 0..MaxBlock
  <2> DEFINE n == Len(elements)
  <2>1. n * k \in {0, k, 2 * k}
    <3>1. n \in 0..2
      BY <1>4
    <3> HIDE DEF n
    <3>2. CASE n = 0
      BY <1>5, <3>2
    <3>3. CASE n = 1
      BY <1>5, <3>3
    <3>4. CASE n = 2
      BY <1>5, <3>4
    <3> QED
      BY <3>1, <3>2, <3>3, <3>4
  <2> DEFINE m == n * k
  <2>2. m \in {0, k, 2 * k} /\ Len(bytes) = m
    BY <1>3, <2>1
  <2> HIDE DEF m
  <2>3. m \in 0..MaxBlock
    BY <1>5, <2>2
  <2> QED
    BY <2>2, <2>3
<1>7. Len(elements) \in Nat /\ Len(elements) < Word
  <2>1. MaxBlock >= 2 /\ Word > 2
    BY <1>5
  <2> DEFINE n == Len(elements)
  <2>2. n \in 0..2
    BY <1>4
  <2> HIDE DEF n
  <2>3. n \in Nat /\ n < Word
    BY <1>5, <2>1, <2>2
  <2> QED
    BY <2>3 DEF n
<1>8. w \in ViewType /\ w.buffer = b /\ w.length = Len(elements)
  BY <1>1, <1>7, TypedArrayType DEF TypedArray
<1>9. x.kind = "own"
  BY DEF Owner
<1> HIDE DEF x, w
<1>10. Stay /\ Shared!Allocate(b)
  BY <1>1, <1>2, <1>3, <1>6, <1>9, Allocates
<1>11. Shared!Open(v, b)
  BY <1>1, <1>2, <1>7, <1>8, <1>10, Opens
<1>12. Shared!Create
  BY <1>1, <1>10, <1>11, Zenon DEF Shared!Create
<1>13. Shared!Next
  BY <1>2, <1>12, Quietly DEF Running
<1> QED
  BY <1>1, <1>2, <1>9, <1>13, BareAdded

\* The number of elements of a view on a buffer fits in a word.
LEMMA FewerElements ==
  ASSUME NEW n \in Nat, NEW k \in Nat \ {0}, n % k = 0
  PROVE  n \div k \in Nat /\ n \div k <= n
<1> DEFINE q == n \div k
<1>1. q \in Nat /\ q * k = n
  BY WholeElements
<1> HIDE DEF q
<1>2. q * k >= q
  BY <1>1
<1> QED
  BY <1>1, <1>2 DEF q

LEMMA WindowIs ==
  ASSUME IInv, NEW b \in Buffers, buffers[b] # NONE, NEW k \in Sizes, NEW args \in Args,
         ~Window(b, k, args).stops
  PROVE  /\ Window(b, k, args).at \in Nat
         /\ Window(b, k, args).bytes \div k \in Nat
         /\ Window(b, k, args).bytes \div k < Word
<1> DEFINE win == Window(b, k, args)
           size == Unsigned(buffers[b].size)
           at == IF args = <<>> THEN 0 ELSE Min({size, args[1]})
           asked == IF Len(args) < 2 THEN size ELSE Unsigned(args[2] * k)
           exceeds == Unsigned(at + asked) > size
           bytes == IF exceeds THEN size - at ELSE asked
<1>1. k \in Nat \ {0} /\ Word \in Nat
  BY WordAssumption
<1>2. size \in 0..(Word - 1)
  <2>1. buffers[b].size \in Int
    BY KindsDiffer DEF IInv, Types
  <2> QED
    BY <2>1, Words
<1> HIDE DEF size
<1>3. at \in Nat /\ at <= size
  <2>1. CASE args = <<>>
    BY <1>2, <2>1
  <2>2. CASE args # <<>>
    <3>1. args[1] \in Int /\ args[1] >= 0 /\ size \in Int
      BY <1>1, <1>2, <2>2, ArgsAre
    <3>2. Min({size, args[1]}) \in {size, args[1]} /\ Min({size, args[1]}) <= size
      BY <3>1, MinOfTwo
    <3> QED
      BY <1>2, <2>2, <3>1, <3>2
  <2> QED
    BY <2>1, <2>2
<1>4. asked \in 0..(Word - 1)
  <2>1. ~(Len(args) < 2) => args[2] * k \in Int
    BY <1>1, ArgsAre
  <2> QED
    BY <1>2, <2>1, Words
<1> HIDE DEF at, asked
<1>5. bytes \in 0..(Word - 1)
  BY <1>1, <1>2, <1>3, <1>4
<1>6. win = [at |-> at, bytes |-> bytes,
             stops |-> (Len(args) = 2 /\ exceeds) \/ at % k # 0 \/ bytes % k # 0]
  BY DEF Window, at, asked, size
<1> HIDE DEF bytes, exceeds
<1>7. win.at = at /\ win.bytes = bytes
  BY <1>6
<1>8. bytes % k = 0
  <2>1. win.stops = ((Len(args) = 2 /\ exceeds) \/ at % k # 0 \/ bytes % k # 0)
    <3> HIDE DEF win
    <3> QED
      BY <1>6
  <2> HIDE DEF win
  <2>2. ~win.stops
    BY DEF win
  <2> QED
    BY <2>1, <2>2
<1>9. bytes \div k \in Nat /\ bytes \div k <= bytes
  BY <1>1, <1>5, <1>8, FewerElements
<1> HIDE DEF win
<1>10. bytes \div k < Word
  BY <1>1, <1>5, <1>9
<1> QED
  BY <1>3, <1>7, <1>9, <1>10 DEF win

LEMMA OnBufferStep ==
  ASSUME IInv, IInv', Bare, Running, NEW v \in FreeViews, NEW b \in Buffers, NEW args \in Args,
         NEW k \in Sizes, TypedArrayOn(v, b, k, args)
  PROVE  Bare' /\ Shared!Next
<1> DEFINE win == Window(b, k, args)
           w == TypedArray(b, k, win.at, win.bytes \div k)
<1>1. /\ v \in Views /\ views[v] = NONE /\ buffers[b] # NONE
  BY FreePlaces DEF TypedArrayOn, IInv, Standing
<1>2. UNCHANGED <<buffers, blocks>> /\ last' = Nothing
  BY DEF TypedArrayOn
<1>3. Bare' /\ Origin' = Origin /\ Stay
  BY <1>2, BareStays, OriginStays
<1>4. CASE win.stops
  <2>1. UNCHANGED views /\ status' = "aborted"
    BY <1>4 DEF TypedArrayOn
  <2>2. UNCHANGED Windows
    BY <1>3, <2>1, WindowsStay
  <2> QED
    BY <1>2, <1>3, <2>1, <2>2, Quietly
<1>5. CASE ~win.stops
  <2>1. views' = [views EXCEPT ![v] = w] /\ UNCHANGED status
    BY <1>5 DEF TypedArrayOn
  <2>2. win.at \in Nat /\ win.bytes \div k \in Nat /\ win.bytes \div k < Word
    BY <1>1, <1>5, WindowIs
  <2> DEFINE at == win.at
             n == win.bytes \div k
  <2>3. at \in Nat /\ n \in Nat /\ n < Word /\ w = TypedArray(b, k, at, n)
    BY <2>2
  <2> HIDE DEF at, n, win, w
  <2>4. w \in ViewType /\ w.buffer = b /\ w.length = n
    BY <2>3, TypedArrayType DEF TypedArray
  <2>5. Shared!Open(v, b)
    BY <1>1, <1>3, <2>1, <2>3, <2>4, Opens
  <2>6. Shared!Create
    BY <1>1, <1>2, <1>3, <2>5, Zenon DEF Shared!Create
  <2>7. Shared!Next
    BY <1>2, <2>1, <2>6, Quietly DEF Running
  <2> QED
    BY <1>3, <2>7
<1> QED
  BY <1>4, <1>5

LEMMA DataViewStep ==
  ASSUME IInv, IInv', Bare, Running, NEW v \in FreeViews, NEW b \in Buffers, NEW args \in Args,
         DataView(v, b, args)
  PROVE  Bare' /\ Shared!Next
<1> DEFINE at == IF args = <<>> THEN 0 ELSE args[1]
           bytes == IF Len(args) < 2 THEN Unsigned(buffers[b].size - at) ELSE args[2]
           w == [kind |-> "data", buffer |-> b, elem |-> 1, byteOffset |-> at, length |-> bytes]
<1>1. /\ v \in Views /\ views[v] = NONE /\ buffers[b] # NONE /\ Word \in Nat
  BY FreePlaces, WordAssumption DEF DataView, IInv, Standing
<1>2. buffers[b].size \in Int
  BY <1>1, KindsDiffer DEF IInv, Types
<1>3. at \in Nat
  BY <1>1, ArgsAre
<1>4. views' = [views EXCEPT ![v] = w] /\ UNCHANGED <<buffers, blocks, status>> /\ last' = Nothing
  BY DEF DataView
<1> HIDE DEF at
<1>5. bytes \in Nat /\ bytes < Word
  <2>1. buffers[b].size - at \in Int
    BY <1>2, <1>3
  <2>2. Unsigned(buffers[b].size - at) \in 0..(Word - 1)
    BY <2>1, Words
  <2> QED
    BY <1>1, <2>2, ArgsAre
<1> HIDE DEF bytes
<1>6. w \in ViewType /\ w.buffer = b /\ w.length = bytes
  BY <1>3, <1>5, WordAssumption DEF ViewType
<1> HIDE DEF w
<1>7. Bare' /\ Origin' = Origin /\ Stay
  BY <1>4, BareStays, OriginStays
<1>8. Shared!Open(v, b)
  BY <1>1, <1>4, <1>5, <1>6, <1>7, Opens
<1>9. Shared!Create
  BY <1>1, <1>4, <1>7, <1>8, Zenon DEF Shared!Create
<1>10. Shared!Next
  BY <1>4, <1>9, Quietly DEF Running
<1> QED
  BY <1>7, <1>10

-----------------------------------------------------------------------------
(***************************************************************************)
(* Loads and stores.                                                       *)
(***************************************************************************)
LEMMA WindowOf ==
  ASSUME IInv, NEW v \in Views, views[v] # NONE
  PROVE  /\ Windows[v] # [block |-> 0] /\ Windows[v].block \in Buffers
         /\ Windows[v].size = views[v].elem /\ Windows[v].count = views[v].length
         /\ Windows[v].raw = (views[v].kind = "data")
         /\ \A i \in Int : Address(v, i) = [block |-> Windows[v].block,
                                            at |-> (Windows[v].first + i) % Word]
<1> DEFINE b == views[v].buffer
           d == Walk(buffers)[b]
           off == views[v].byteOffset
<1>1. b \in Buffers /\ off \in Nat
  BY ViewKinds DEF IInv, Types
<1>2. buffers \in [Buffers -> BufferType] /\ Ranked(buffers)
  BY DEF IInv, Types
<1>3. d.at \in Int /\ d.block \in Buffers
  <2>1. d \in Place
    BY <1>1, <1>2, WalkIs
  <2> HIDE DEF d
  <2> QED
    BY <2>1 DEF Place
<1>4. Windows = WindowsBy(buffers, views)
  BY MappedIs DEF IInv, Types
<1>5. Windows[v] = WindowBy(buffers, views[v])
  BY <1>4 DEF WindowsBy
<1>6. At(buffers, b) = [block |-> d.block, first |-> Unsigned(d.at)]
  BY DEF At
<1>7. Windows[v] = [block |-> d.block, first |-> Unsigned(Unsigned(d.at) + off),
                    size |-> views[v].elem, count |-> views[v].length, raw |-> views[v].kind = "data"]
  BY <1>5, <1>6 DEF WindowBy
<1>8. ASSUME NEW i \in Int
      PROVE  Address(v, i) = [block |-> d.block, at |-> Unsigned(Unsigned(Unsigned(d.at) + off) + i)]
  <2>1. DataOf(b) = d
    BY DataOfWalk
  <2>2. Address(v, i) = [block |-> d.block, at |-> Unsigned(d.at + off + i)]
    BY <2>1 DEF Address
  <2> HIDE DEF d, b, off
  <2>3. Unsigned(d.at) + off \in Int /\ Unsigned(d.at) \in Int /\ d.at + off \in Int
    BY <1>1, <1>3, Words
  <2>4. Unsigned(Unsigned(d.at) + off) = Unsigned(d.at + off)
    <3>1. d.at \in Int /\ off \in Int
      BY <1>1, <1>3
    <3> QED
      BY <3>1, CutEarly, Zenon
  <2>5. Unsigned(Unsigned(d.at + off) + i) = Unsigned(d.at + off + i)
    BY <2>3, CutEarly
  <2>6. Unsigned(Unsigned(Unsigned(d.at) + off) + i) = Unsigned(d.at + off + i)
    BY <2>4, <2>5
  <2> QED
    BY <2>2, <2>6, Zenon
<1> HIDE DEF d, b, off
<1>9. \A i : (Windows[v].first + i) % Word = Unsigned(Unsigned(Unsigned(d.at) + off) + i)
  BY <1>7 DEF Unsigned
<1>10. Windows[v].block \in Buffers /\ Windows[v].block # 0
  BY <1>3, <1>7, PlacesAssumption
<1>11. Windows[v] # [block |-> 0]
  <2>1. [block |-> 0].block = 0
    OBVIOUS
  <2> QED
    BY <1>10, <2>1
<1> QED
  BY <1>7, <1>8, <1>9, <1>10, <1>11

LEMMA ReverseIs ==
  ASSUME NEW x \in Seq(Byte)
  PROVE  Reverse(x) \in Seq(Byte) /\ Len(Reverse(x)) = Len(x)
  BY DEF Reverse

LEMMA OneReverse == \A s : Shared!Reverse(s) = Reverse(s)
  BY DEF Shared!Reverse, Reverse

LEMMA FetchStep ==
  ASSUME IInv, IInv', NEW v \in Views, views[v] # NONE, NEW at \in Int, NEW k \in Nat,
         NEW little \in BOOLEAN, Fetch(v, at, k, little)
  PROVE  Bare' = Bare /\ Shared!Next
<1> DEFINE a == Address(v, at)
           f == (Windows[v].first + at) % Word
           blk == blocks[Windows[v].block]
<1>1. UNCHANGED <<buffers, blocks, views, status>>
  BY DEF Fetch
<1>2. Bare' = Bare
  BY <1>1 DEF Bare
<1>3. UNCHANGED Origin /\ UNCHANGED Windows
  BY <1>1, OriginStays, WindowsStay
<1>4. a.block = Windows[v].block /\ a.at = f /\ Windows[v] # [block |-> 0]
  <2>1. a = [block |-> Windows[v].block, at |-> f] /\ Windows[v] # [block |-> 0]
    BY WindowOf
  <2> HIDE DEF a
  <2> QED
    BY <2>1
<1>5. PICK x \in IF Within(a, k) THEN {BytesAt(a, k)} ELSE [1..k -> Byte] :
        last' = Access("load", v, at, IF little THEN x ELSE Reverse(x), little)
  BY DEF Fetch
<1>6. blk \in Seq(Byte)
  <2>1. Windows[v].block \in Buffers
    BY WindowOf
  <2> QED
    BY <2>1 DEF IInv, Types
<1>7. f \in Nat
  <2>1. f = a.at /\ a.at = Unsigned(DataOf(views[v].buffer).at + views[v].byteOffset + at)
    BY <1>4 DEF Address
  <2>2. views[v].buffer \in Buffers /\ views[v].byteOffset \in Nat
    BY ViewKinds DEF IInv, Types
  <2>3. DataOf(views[v].buffer).at \in Int
    <3>1. DataOf(views[v].buffer) \in Place
      BY <2>2, DataOfWalk, WalkIs DEF IInv, Types
    <3> HIDE DEF f
    <3> QED
      BY <3>1 DEF Place
  <2>4. DataOf(views[v].buffer).at + views[v].byteOffset + at \in Int
    BY <2>2, <2>3
  <2>5. Unsigned(DataOf(views[v].buffer).at + views[v].byteOffset + at) \in 0..(Word - 1)
    BY <2>4, Words
  <2> HIDE DEF a, f
  <2> QED
    BY <2>1, <2>5
<1>8. /\ Within(a, k) <=> f + k <= Len(blk)
      /\ BytesAt(a, k) = SubSeq(blk, f + 1, f + k)
  BY <1>4 DEF Within, BytesAt
<1> HIDE DEF a, f, blk
<1>9. x \in Seq(Byte) /\ Len(x) = k
  <2>1. CASE Within(a, k)
    <3>1. x = SubSeq(blk, f + 1, f + k) /\ f + k <= Len(blk)
      BY <1>5, <1>8, <2>1
    <3> QED
      BY <1>6, <1>7, <3>1
  <2>2. CASE ~Within(a, k)
    BY <1>5, <2>2
  <2> QED
    BY <2>1, <2>2
<1> DEFINE answer == IF little THEN x ELSE Reverse(x)
<1>10. Len(answer) = k
  BY <1>9, ReverseIs
<1>11. /\ last'.op = "load" /\ last'.view = v /\ last'.at = at /\ last'.little = little
       /\ last'.bytes = answer
  BY <1>5 DEF Access
<1> HIDE DEF answer
<1>12. Shared!InBlock(last') => last'.bytes = Shared!Ordered(last', Shared!There(last'))
  <2>1. /\ Shared!First(last') = f /\ blocks[Windows[last'.view].block] = blk
        /\ Len(last'.bytes) = k
    BY <1>10, <1>11 DEF Shared!First, f, blk
  <2>2. Shared!There(last') = SubSeq(blk, f + 1, f + k)
    BY <2>1 DEF Shared!There
  <2>3. Shared!InBlock(last') => f + k <= Len(blk)
    BY <2>1 DEF Shared!InBlock
  <2>4. Shared!InBlock(last') => x = Shared!There(last')
    BY <1>5, <1>8, <2>2, <2>3
  <2>5. Shared!Ordered(last', Shared!There(last')) =
          IF little THEN Shared!There(last') ELSE Reverse(Shared!There(last'))
    BY <1>11, OneReverse DEF Shared!Ordered
  <2> QED
    BY <1>11, <2>4, <2>5 DEF answer
<1>13. Windows[last'.view] # Shared!None
  BY <1>4, <1>11 DEF Shared!None
<1>14. (status = "undefined")' = (status = "undefined")
  BY <1>1
<1>15. Shared!Load
  BY <1>1, <1>3, <1>11, <1>12, <1>13, <1>14, Zenon DEF Shared!Load
<1> QED
  BY <1>2, <1>15 DEF Shared!Next

LEMMA MissStep ==
  ASSUME IInv, IInv', NEW v \in Views, views[v] # NONE, NEW i \in Int,
         i < 0 \/ i > views[v].length,
         last' = Access("missing", v, i * views[v].elem, <<>>, TRUE),
         UNCHANGED <<buffers, blocks, views, status>>
  PROVE  Bare' = Bare /\ Shared!Next
<1>1. Bare' = Bare
  BY DEF Bare
<1>2. UNCHANGED Origin /\ UNCHANGED Windows
  BY OriginStays, WindowsStay
<1>3. /\ Windows[v] # [block |-> 0]
      /\ Windows[v].size = views[v].elem /\ Windows[v].count = views[v].length
  BY WindowOf
<1> DEFINE k == views[v].elem
           n == views[v].length
<1>4. k \in Nat \ {0} /\ n \in Nat
  BY ViewKinds DEF IInv, Types
<1>5. last'.op = "missing" /\ last'.view = v /\ last'.at = i * k
  BY DEF Access
<1>6. i < 0 \/ i > n
  OBVIOUS
<1> HIDE DEF k, n
<1>7. i * k \notin 0..(n * k - 1)
  <2>1. CASE i < 0
    <3>1. i * k < 0
      BY <1>4, <2>1
    <3> QED
      BY <1>4, <3>1
  <2>2. CASE i > n
    <3>1. i * k >= n * k
      BY <1>4, <2>2
    <3>2. i * k \in Int /\ n * k \in Int
      BY <1>4
    <3> QED
      BY <3>1, <3>2
  <2> QED
    BY <1>6, <2>1, <2>2
<1>8. (status = "undefined")' = (status = "undefined")
  OBVIOUS
<1>9. Shared!Miss
  BY <1>2, <1>3, <1>5, <1>7, <1>8, Zenon DEF Shared!Miss, Shared!None, k, n
<1> QED
  BY <1>1, <1>9 DEF Shared!Next

LEMMA PutStep ==
  ASSUME IInv, IInv', Bare, Running, NEW v \in Views, views[v] # NONE, NEW at \in Int,
         NEW x \in Seq(Byte), NEW little \in BOOLEAN,
         views[v].kind = "data" \/ at + Len(x) <= views[v].length * views[v].elem,
         Put(v, at, x, little)
  PROVE  Bare' /\ Shared!Next
<1> DEFINE a == Address(v, at)
           f == (Windows[v].first + at) % Word
           w == Windows[v]
           bytes == IF little THEN x ELSE Reverse(x)
           k == Len(bytes)
           new(s) == [j \in DOMAIN s |-> IF j - f \in 1..k THEN bytes[j - f] ELSE s[j]]
<1>1. UNCHANGED <<buffers, views>> /\ last' = Access("store", v, at, x, little)
  BY DEF Put
<1>2. UNCHANGED Origin /\ UNCHANGED Windows
  BY <1>1, OriginStays, WindowsStay
<1>3. /\ a.block = w.block /\ a.at = f /\ w # [block |-> 0] /\ w.block \in Buffers
      /\ w.size = views[v].elem /\ w.count = views[v].length /\ w.raw = (views[v].kind = "data")
  <2>1. a = [block |-> w.block, at |-> f]
    BY WindowOf
  <2> HIDE DEF a, f
  <2> QED
    BY <2>1, WindowOf
<1>4. IF f + k <= Len(blocks[w.block])
        THEN blocks' = [blocks EXCEPT ![w.block] = new(@)] /\ UNCHANGED status
        ELSE status' = "undefined" /\ UNCHANGED blocks
  BY <1>3 DEF Put, Within
<1>5. k = Len(x) /\ DOMAIN x = 1..k
  BY ReverseIs
<1>6. /\ last'.op = "store" /\ last'.view = v /\ last'.at = at /\ last'.little = little
      /\ last'.bytes = x
  BY <1>1 DEF Access
<1>7. /\ Shared!First(last') = f
      /\ Shared!Ordered(last', last'.bytes) = bytes
  BY <1>6, OneReverse DEF Shared!First, Shared!Ordered
<1> HIDE DEF f, a, bytes, k
<1>8. Shared!InBlock(last') <=> f + k <= Len(blocks[w.block])
  BY <1>5, <1>6, <1>7 DEF Shared!InBlock
<1>9. Shared!InView(last')
  BY <1>3, <1>6 DEF Shared!InView
<1>10. Shared!Store
  <2>1. Windows[last'.view] # Shared!None
    BY <1>3, <1>6 DEF Shared!None
  <2>2. CASE f + k <= Len(blocks[w.block])
    <3>1. blocks' = [blocks EXCEPT ![w.block] = new(@)] /\ UNCHANGED status
      BY <1>4, <2>2
    <3>2. (status = "undefined")' = (status = "undefined")
      BY <3>1
    <3>3. blocks' = [blocks EXCEPT ![Windows[last'.view].block] = [j \in DOMAIN @ |->
                       LET i == j - Shared!First(last')
                       IN IF i \in DOMAIN last'.bytes THEN Shared!Ordered(last', last'.bytes)[i]
                          ELSE @[j]]]
      BY <1>5, <1>6, <1>7, <3>1
    <3> HIDE DEF new, w
    <3> QED
      BY <1>2, <1>6, <1>8, <1>9, <2>1, <2>2, <3>2, <3>3, Zenon DEF Shared!Store
  <2>3. CASE ~(f + k <= Len(blocks[w.block]))
    <3>1. status' = "undefined" /\ UNCHANGED blocks
      BY <1>4, <2>3
    <3>2. (status = "undefined")' = TRUE
      BY <3>1
    <3> HIDE DEF new, w
    <3> QED
      BY <1>2, <1>6, <1>8, <1>9, <2>1, <2>3, <3>1, <3>2, Zenon DEF Shared!Store
  <2> QED
    BY <2>2, <2>3
<1>11. Bare'
  <2>1. blocks \in [Buffers -> Seq(Byte)] /\ blocks' \in [Buffers -> Seq(Byte)]
    BY DEF IInv, Types
  <2>2. \A b \in Buffers : blocks[b] = <<>> => blocks'[b] = <<>>
    <3>1. CASE UNCHANGED blocks
      BY <3>1
    <3>2. CASE blocks' = [blocks EXCEPT ![w.block] = new(@)]
      <4>1. ASSUME NEW b \in Buffers, blocks[b] = <<>> PROVE blocks'[b] = <<>>
        <5>1. b # w.block => blocks'[b] = blocks[b]
          BY <2>1, <3>2
        <5>2. ASSUME b = w.block PROVE blocks'[b] = <<>>
          <6>1. blocks'[b] = new(blocks[b])
            BY <2>1, <3>2, <5>2
          <6>2. DOMAIN blocks'[b] = {}
            BY <4>1, <6>1
          <6>3. blocks'[b] \in Seq(Byte)
            BY <2>1
          <6>4. \A s \in Seq(Byte) : DOMAIN s = {} => s = <<>>
            OBVIOUS
          <6> HIDE DEF new
          <6> QED
            BY <6>2, <6>3, <6>4, Zenon
        <5> QED
          BY <4>1, <5>1, <5>2
      <4> QED
        BY <4>1
    <3> QED
      BY <1>4, <3>1, <3>2
  <2> QED
    BY <1>1, <2>2 DEF Bare
<1> QED
  BY <1>10, <1>11 DEF Shared!Next

-----------------------------------------------------------------------------
LEMMA UseStep ==
  ASSUME IInv, IInv', Bare, Running, Use
  PROVE  Bare' /\ Shared!Next
<1>1. PICK v \in Views, i \in Indices :
        \/ GetElement(v, i)
        \/ \E x \in Values :
             \/ SetElement(v, i, x)
             \/ \E k \in Sizes, e \in BOOLEAN : DataSet(v, i, x, k, e)
        \/ \E k \in Sizes, e \in BOOLEAN : DataGet(v, i, k, e)
  BY DEF Use
<1>2. i \in Int
  BY WordAssumption
<1>3. TRUE \in BOOLEAN
  OBVIOUS
<1>4. ASSUME IsView(v)
      PROVE  /\ views[v] # NONE /\ views[v].elem \in Sizes
             /\ views[v].elem \in Nat /\ i * views[v].elem \in Int
  <2>1. views[v] # NONE /\ views[v].elem \in Sizes
    BY <1>4, HeldView
  <2> DEFINE k == views[v].elem
  <2>2. k \in Nat
    BY <2>1, WordAssumption
  <2> HIDE DEF k
  <2>3. i * k \in Int
    BY <1>2, <2>2
  <2> QED
    BY <2>1, <2>2, <2>3 DEF k
<1>5. CASE GetElement(v, i)
  <2>1. views[v] # NONE /\ views[v].elem \in Nat /\ i * views[v].elem \in Int
    BY <1>4, <1>5 DEF GetElement
  <2>2. CASE i < 0 \/ i > views[v].length
    <3>1. /\ last' = Access("missing", v, i * views[v].elem, <<>>, TRUE)
          /\ UNCHANGED <<buffers, blocks, views, held, status>>
      BY <1>5, <2>2 DEF GetElement
    <3> QED
      BY <1>2, <2>1, <2>2, <3>1, MissStep
  <2>3. CASE ~(i < 0 \/ i > views[v].length)
    <3>1. Fetch(v, i * views[v].elem, views[v].elem, TRUE)
      BY <1>5, <2>3 DEF GetElement
    <3> QED
      BY <1>3, <2>1, <3>1, FetchStep
  <2> QED
    BY <2>2, <2>3
<1>6. ASSUME NEW x \in Values, SetElement(v, i, x) PROVE Bare' /\ Shared!Next
  <2> DEFINE k == views[v].elem
             n == views[v].length
             c == Cast(x, k)
  <2>1. views[v] # NONE /\ k \in Sizes /\ k \in Nat /\ i * k \in Int
    BY <1>4, <1>6 DEF SetElement
  <2>2. c \in Seq(Byte) /\ Len(c) = k
    BY <2>1, CastType
  <2>3. i \in 0..(n - 1) /\ n \in Nat
    BY <1>6, <2>1, ViewKinds DEF SetElement, IInv, Types
  <2>4. Put(v, i * k, c, TRUE)
    BY <1>6 DEF SetElement
  <2>5. i * k + k <= n * k
    <3> HIDE DEF k, n
    <3>1. (i + 1) * k <= n * k
      BY <2>1, <2>3
    <3>2. (i + 1) * k = i * k + k
      BY <1>2, <2>1
    <3> QED
      BY <3>1, <3>2
  <2>6. i * k + Len(c) <= n * k
    BY <2>2, <2>5
  <2> HIDE DEF c
  <2> QED
    BY <1>3, <2>1, <2>2, <2>4, <2>6, PutStep
<1>7. ASSUME NEW x \in Values, NEW k \in Sizes, NEW e \in BOOLEAN, DataSet(v, i, x, k, e)
      PROVE  Bare' /\ Shared!Next
  <2>1. views[v] # NONE /\ views[v].kind = "data"
    BY <1>4, <1>7 DEF DataSet, IsDataView
  <2>2. Cast(x, k) \in Seq(Byte)
    BY CastType
  <2>3. Put(v, i, Cast(x, k), e)
    BY <1>7 DEF DataSet
  <2> QED
    BY <1>2, <2>1, <2>2, <2>3, PutStep
<1>8. ASSUME NEW k \in Sizes, NEW e \in BOOLEAN, DataGet(v, i, k, e)
      PROVE  Bare' /\ Shared!Next
  <2>1. views[v] # NONE /\ k \in Nat
    BY <1>4, <1>8, WordAssumption DEF DataGet, IsDataView
  <2>2. Fetch(v, i, k, e)
    BY <1>8 DEF DataGet
  <2> QED
    BY <1>2, <2>1, <2>2, FetchStep
<1> QED
  BY <1>1, <1>5, <1>6, <1>7, <1>8

LEMMA HoldStep ==
  ASSUME IInv, IInv', Bare, Running, last' = Nothing, UNCHANGED <<buffers, blocks, views, status>>
  PROVE  Bare' /\ Shared!Next
<1>1. UNCHANGED <<Origin, Windows>>
  BY OriginStays, WindowsStay
<1>2. Shared!Next
  BY <1>1, Quietly DEF Running
<1> QED
  BY <1>2, BareStays

(***************************************************************************)
(* A collection takes no block that is still shown: the block a marked     *)
(* buffer leads to is marked, and one that is not marked is shown by       *)
(* nothing that stays.                                                     *)
(***************************************************************************)
LEMMA CollectStep ==
  ASSUME IInv, IInv', Bare, Running, Collect
  PROVE  Bare' /\ Shared!Next
<1> DEFINE M == Marked
           dead == (Buffers \ M) \cup (Views \ held)
<1>1. /\ M \subseteq Buffers /\ held \cap Buffers \subseteq M
      /\ \A v \in held \cap Views : views[v].buffer \in M
      /\ \A c \in M : buffers[c].kind = "slice" => buffers[c].buf \in M
  BY MarkedIs
<1>2. /\ buffers' = [b \in Buffers |-> IF b \in M THEN buffers[b] ELSE NONE]
      /\ blocks' = [b \in Buffers |-> IF b \in M THEN blocks[b] ELSE <<>>]
      /\ views' = [v \in Views |-> IF v \in held THEN views[v] ELSE NONE]
      /\ last' = Nothing /\ status' = status
  BY DEF Collect
<1> HIDE DEF M
<1>3. /\ buffers \in [Buffers -> BufferType] /\ buffers' \in [Buffers -> BufferType]
      /\ Ranked(buffers) /\ Ranked(buffers')
      /\ blocks \in [Buffers -> Seq(Byte)]
  BY DEF IInv, Types
<1>4. \A c \in M : buffers'[c] = buffers[c] /\ (buffers[c].kind = "slice" => buffers[c].buf \in M)
  BY <1>1, <1>2
<1>5. \A c \in M : Walk(buffers')[c] = Walk(buffers)[c] /\ Walk(buffers)[c].block \in M
  BY <1>1, <1>3, <1>4, WalkStays
<1>6. \A c \in M : At(buffers', c) = At(buffers, c) /\ At(buffers', c).block \in M
  BY <1>5 DEF At
<1>7. /\ Origin = OriginBy(buffers) /\ Origin' = OriginBy(buffers')
      /\ Windows = WindowsBy(buffers, views) /\ Windows' = WindowsBy(buffers', views')
  BY Mapped
<1>8. (\A b \in Buffers : b \in dead <=> b \notin M) /\ (\A v \in Views : v \in dead <=> v \notin held)
  BY PlacesAssumption
<1>9. dead \in SUBSET (Buffers \cup Views)
  OBVIOUS
<1> HIDE DEF dead
<1>10. Origin' = [b \in Buffers |-> IF b \in dead THEN [block |-> 0] ELSE Origin[b]]
  <2>1. ASSUME NEW b \in Buffers
        PROVE  (IF buffers'[b] = NONE THEN [block |-> 0] ELSE At(buffers', b))
                 = IF b \in dead THEN [block |-> 0] ELSE Origin[b]
    <3>1. Origin[b] = IF buffers[b] = NONE THEN [block |-> 0] ELSE At(buffers, b)
      BY <1>7 DEF OriginBy
    <3>2. CASE b \in M
      BY <1>4, <1>6, <1>8, <3>1, <3>2
    <3>3. CASE b \notin M
      BY <1>2, <1>8, <3>3
    <3> QED
      BY <3>2, <3>3
  <2> QED
    BY <1>7, <2>1 DEF OriginBy
<1>11. \A v \in Views : v \in held =>
         /\ views'[v] = views[v] /\ views[v] # NONE
         /\ WindowBy(buffers', views[v]) = WindowBy(buffers, views[v])
         /\ WindowBy(buffers', views[v]).block \in M
  <2> SUFFICES ASSUME NEW v \in Views, v \in held
               PROVE  /\ views'[v] = views[v] /\ views[v] # NONE
                      /\ WindowBy(buffers', views[v]) = WindowBy(buffers, views[v])
                      /\ WindowBy(buffers', views[v]).block \in M
    OBVIOUS
  <2>1. views'[v] = views[v] /\ views[v] # NONE
    BY <1>2 DEF IInv, Standing
  <2>2. views[v].buffer \in M
    BY <1>1
  <2>3. WindowBy(buffers', views[v]) = WindowBy(buffers, views[v])
    BY <1>6, <2>2 DEF WindowBy
  <2>4. WindowBy(buffers', views[v]).block = At(buffers', views[v].buffer).block
    BY DEF WindowBy
  <2> QED
    BY <1>6, <2>1, <2>2, <2>3, <2>4
<1>12. Windows' = [v \in Views |-> IF v \in dead THEN [block |-> 0] ELSE Windows[v]]
  <2>1. ASSUME NEW v \in Views
        PROVE  (IF views'[v] = NONE THEN [block |-> 0] ELSE WindowBy(buffers', views'[v]))
                 = IF v \in dead THEN [block |-> 0] ELSE Windows[v]
    <3>1. Windows[v] = IF views[v] = NONE THEN [block |-> 0] ELSE WindowBy(buffers, views[v])
      BY <1>7 DEF WindowsBy
    <3>2. CASE v \in held
      BY <1>8, <1>11, <3>1, <3>2
    <3>3. CASE v \notin held
      BY <1>2, <1>8, <3>3
    <3> QED
      BY <3>2, <3>3
  <2> QED
    BY <1>7, <2>1 DEF WindowsBy
<1> DEFINE shown == {Origin'[b].block : b \in Buffers} \cup {Windows'[v].block : v \in Views}
<1>13. 0 \notin Buffers /\ [block |-> 0].block = 0
  BY PlacesAssumption
<1>14. \A b \in Buffers : b \in shown => b \in M
  <2>1. ASSUME NEW c \in Buffers PROVE Origin'[c].block \in M \cup {0}
    <3>1. Origin'[c] = IF buffers'[c] = NONE THEN [block |-> 0] ELSE At(buffers', c)
      BY <1>7 DEF OriginBy
    <3>2. CASE c \in M
      BY <1>6, <1>13, <3>1, <3>2
    <3>3. CASE c \notin M
      <4>1. buffers'[c] = NONE
        BY <1>2, <3>3
      <4> QED
        BY <1>13, <3>1, <4>1
    <3> QED
      BY <3>2, <3>3
  <2>2. ASSUME NEW v \in Views PROVE Windows'[v].block \in M \cup {0}
    <3>1. Windows'[v] = IF views'[v] = NONE THEN [block |-> 0] ELSE WindowBy(buffers', views'[v])
      BY <1>7 DEF WindowsBy
    <3>2. CASE v \in held
      BY <1>11, <3>1, <3>2
    <3>3. CASE v \notin held
      <4>1. views'[v] = NONE
        BY <1>2, <3>3
      <4> QED
        BY <1>13, <3>1, <4>1
    <3> QED
      BY <3>2, <3>3
  <2> QED
    BY <1>13, <2>1, <2>2
<1>15. \A b \in Buffers : b \in M /\ b \notin shown => blocks[b] = <<>>
  <2> SUFFICES ASSUME NEW b \in Buffers, b \in M, b \notin shown, blocks[b] # <<>>
               PROVE  FALSE
    OBVIOUS
  <2>1. buffers[b].kind = "own"
    BY DEF Bare
  <2>2. buffers'[b] = buffers[b] /\ buffers[b] # NONE
    BY <1>4, <2>1, KindsDiffer
  <2>3. Origin'[b] = At(buffers', b)
    BY <1>7, <2>2 DEF OriginBy
  <2>4. At(buffers', b) = [block |-> b, first |-> 0]
    BY <1>3, <2>1, <2>2, AtType
  <2>5. Origin'[b].block = b
    BY <2>3, <2>4
  <2> QED
    BY <2>5
<1> HIDE DEF shown
<1>16. blocks' = [b \in Buffers |-> IF b \in shown THEN blocks[b] ELSE <<>>]
  <2>1. \A b \in Buffers : (IF b \in M THEN blocks[b] ELSE <<>>)
                             = (IF b \in shown THEN blocks[b] ELSE <<>>)
    BY <1>14, <1>15
  <2> QED
    BY <1>2, <2>1
<1>17. Shared!Release(dead)
  BY <1>10, <1>12, <1>16, Zenon DEF Shared!Release, Shared!None, shown
<1>18. Shared!Next
  BY <1>2, <1>9, <1>17, Quietly DEF Running
<1>19. Bare'
  BY <1>2 DEF Bare
<1> QED
  BY <1>18, <1>19

-----------------------------------------------------------------------------
LEMMA StepImplements ==
  ASSUME IInv, IInv', Bare, Next
  PROVE  Bare' /\ Shared!Next
<1>1. Running
  BY DEF Next
<1>2. CASE Create
  <2>1. CASE \E b \in Free : \E n \in Counts : ArrayBuffer(b, n)
    BY <1>1, <2>1, ArrayBufferStep
  <2>2. CASE \E b \in Free : \E p \in Buffers, args \in Args : Slice(b, p, args)
    BY <1>1, <2>2, SliceStep
  <2>3. CASE \E b \in Free : \E v \in FreeViews, k \in Sizes : \E n \in Counts :
               TypedArrayOfLength(v, b, k, n)
    BY <1>1, <2>3, OfLengthStep
  <2>4. CASE \E b \in Free : \E v \in FreeViews, k \in Sizes : \E a \in Arrays :
               TypedArrayFromArray(v, b, k, a)
    BY <1>1, <2>4, FromArrayStep
  <2>5. CASE \E v \in FreeViews, b \in Buffers, args \in Args : \E k \in Sizes :
               TypedArrayOn(v, b, k, args)
    BY <1>1, <2>5, OnBufferStep
  <2>6. CASE \E v \in FreeViews, b \in Buffers, args \in Args : DataView(v, b, args)
    BY <1>1, <2>6, DataViewStep
  <2> QED
    BY <1>2, <2>1, <2>2, <2>3, <2>4, <2>5, <2>6 DEF Create
<1>3. CASE Use
  BY <1>1, <1>3, UseStep
<1>4. CASE Lifetime
  <2>1. CASE \E o \in Buffers \cup Views : Release(o)
    BY <1>1, <2>1, HoldStep DEF Release
  <2>2. CASE \E v \in Views : BufferOf(v)
    BY <1>1, <2>2, HoldStep DEF BufferOf
  <2>3. CASE Collect
    BY <1>1, <2>3, CollectStep
  <2> QED
    BY <1>4, <2>1, <2>2, <2>3 DEF Lifetime
<1> QED
  BY <1>2, <1>3, <1>4 DEF Next

LEMMA InitImplements == Init => Bare /\ Shared!Init
<1> SUFFICES ASSUME Init PROVE Bare /\ Shared!Init
  OBVIOUS
<1>1. \A b \in Buffers : blocks[b] = <<>>
  BY DEF Init
<1>2. Origin = [b \in Buffers |-> [block |-> 0]]
  BY DEF Init, Origin
<1>3. Windows = [v \in Views |-> [block |-> 0]]
  BY DEF Init, Windows
<1>4. last = Shared!Nothing
  BY DEF Init, Nothing, Shared!Nothing
<1>5. (status = "undefined") = FALSE
  BY DEF Init
<1>6. blocks = [b \in Buffers |-> <<>>]
  BY DEF Init
<1> QED
  BY <1>1, <1>2, <1>3, <1>4, <1>5, <1>6 DEF Shared!Init, Shared!None, Bare

(***************************************************************************)
(* What is stored through one view is what every view that shows the same  *)
(* bytes loads, however many slices lie between it and the block and       *)
(* whatever was collected: buffers, slices and views implement shared      *)
(* bytes, for every number of them, size of elements and width of a word.  *)
(***************************************************************************)
THEOREM ViewsShareBytes == Spec => ImplementsBytes
<1> DEFINE BInv == IInv /\ Bare
<1>1. Init => BInv /\ Shared!Init
  BY InitIInv, InitImplements
<1>2. BInv /\ [Next]_vars => BInv' /\ [Shared!Next]_(Shared!vars)
  <2> SUFFICES ASSUME BInv, [Next]_vars PROVE BInv' /\ [Shared!Next]_(Shared!vars)
    OBVIOUS
  <2>1. IInv'
    BY StepIInv
  <2>2. CASE Next
    BY <2>1, <2>2, StepImplements
  <2>3. CASE UNCHANGED vars
    <3>1. UNCHANGED <<buffers, blocks, views, last, status>>
      BY <2>3 DEF vars
    <3>2. UNCHANGED <<Origin, Windows>>
      BY <2>1, <3>1, OriginStays, WindowsStay
    <3>3. (status = "undefined")' = (status = "undefined")
      BY <3>1
    <3> QED
      BY <2>1, <3>1, <3>2, <3>3, BareStays DEF Shared!vars
  <2> QED
    BY <2>2, <2>3
<1> HIDE DEF BInv
<1> QED
  BY <1>1, <1>2, PTL DEF Spec, ImplementsBytes, Shared!Spec

=============================================================================
