---------------------------- MODULE Arrays_proofs ----------------------------
(***************************************************************************)
(* Proofs about Arrays: the elements of an array are inside its block and  *)
(* written, only a method that names a position can leave the block, a     *)
(* loop sees what is there, and an array implements the sequence ArraySeq. *)
(***************************************************************************)
EXTENDS Arrays, SequenceTheorems, WellFoundedInduction, TLAPS

Faults == {"none", "bounds", "freed", "length", "abort"}

Blocks == UNION {[0..(n - 1) -> Cells] : n \in Nat}

Arrs == [len : Int, alloc : Nat, mem : Blocks, fault : Faults]

\* The block of a has the size a says it has.
Sized(a) == a \in Arrs /\ a.len \in Nat /\ a.mem \in [0..(a.alloc - 1) -> Cells]

\* And its elements are in it, and written.
Good(a) == Sized(a) /\ Contained(a)

\* A record of these fields is an array.
LEMMA SizedRecord ==
  ASSUME NEW len \in Nat, NEW n \in Nat, NEW mem \in [0..(n - 1) -> Cells],
         NEW fault \in Faults
  PROVE  Sized([len |-> len, alloc |-> n, mem |-> mem, fault |-> fault])
  BY DEF Sized, Arrs, Blocks

\* Failed changes the fault only.
LEMMA FailedGood ==
  ASSUME NEW a, Good(a), NEW why \in Faults
  PROVE  Good(Failed(a, why)) /\ Failed(a, why).fault = why
                              /\ Failed(a, why).len = a.len
  BY DEF Good, Sized, Failed, Contained, Arrs

\* Paint changes the cells from lo to hi only.
LEMMA PaintSized ==
  ASSUME NEW a, Sized(a), NEW lo \in Int, NEW hi \in Int, NEW cell \in Cells
  PROVE  /\ Sized(Paint(a, lo, hi, cell))
         /\ Paint(a, lo, hi, cell).len = a.len
         /\ Paint(a, lo, hi, cell).alloc = a.alloc
         /\ Paint(a, lo, hi, cell).fault = a.fault
         /\ \A i \in 0..(a.alloc - 1) :
              Paint(a, lo, hi, cell).mem[i] =
                IF lo <= i /\ i < hi THEN cell ELSE a.mem[i]
<1> DEFINE m == [i \in DOMAIN a.mem |-> IF lo <= i /\ i < hi THEN cell ELSE a.mem[i]]
<1>1. m \in [0..(a.alloc - 1) -> Cells]
  BY DEF Sized
<1>2. m \in Blocks
  BY <1>1 DEF Sized, Arrs, Blocks
<1>3. Paint(a, lo, hi, cell) = [a EXCEPT !.mem = m]
  BY DEF Paint
<1>4. \A i \in 0..(a.alloc - 1) : m[i] = IF lo <= i /\ i < hi THEN cell ELSE a.mem[i]
  BY DEF Sized
<1> HIDE DEF m
<1> QED
  BY <1>1, <1>2, <1>3, <1>4 DEF Sized, Arrs

\* Only the length of an array changed.
LEMMA LenSized ==
  ASSUME NEW a, Sized(a), NEW n \in Nat
  PROVE  /\ Sized([a EXCEPT !.len = n])
         /\ [a EXCEPT !.len = n].len = n
         /\ [a EXCEPT !.len = n].alloc = a.alloc
         /\ [a EXCEPT !.len = n].fault = a.fault
         /\ [a EXCEPT !.len = n].mem = a.mem
  BY DEF Sized, Arrs

\* Grow makes room for `amount' more and keeps the elements.
LEMMA GrowGood ==
  ASSUME NEW a, Good(a), NEW amount \in Nat
  PROVE  /\ Good(Grow(a, amount))
         /\ Grow(a, amount).len = a.len
         /\ a.len + amount <= Grow(a, amount).alloc
         /\ a.alloc <= Grow(a, amount).alloc
         /\ Grow(a, amount).fault = a.fault \/ Grow(a, amount).fault = "none"
<1>1. CASE a.len + amount <= a.alloc
  BY <1>1 DEF Grow, Good, Sized, Arrs
<1>2. CASE ~(a.len + amount <= a.alloc)
  <2> DEFINE n == a.len + amount + Slack
             m == [i \in 0..(n - 1) |-> IF i < a.len THEN a.mem[i] ELSE Garbage]
  <2>1. n \in Nat /\ a.len \in Nat /\ a.alloc \in Nat /\ a.alloc <= n
        /\ a.len + amount <= n
    BY <1>2, ArrayAssumption DEF Good, Sized, Arrs
  <2>2. m \in [0..(n - 1) -> Cells]
    <3>1. ASSUME NEW i \in 0..(n - 1)
          PROVE  (IF i < a.len THEN a.mem[i] ELSE Garbage) \in Cells
      BY <2>1 DEF Good, Sized, Contained, Cells
    <3> QED
      BY <3>1
  <2>3. Grow(a, amount) = [len |-> a.len, alloc |-> n, mem |-> m, fault |-> "none"]
    BY <1>2 DEF Grow, Array, Block
  <2>4. \A i \in 0..(a.len - 1) : m[i] # Garbage
    BY <2>1 DEF Good, Contained
  <2> HIDE DEF n, m
  <2>5. Sized(Grow(a, amount))
    BY <2>1, <2>2, <2>3, SizedRecord DEF Faults
  <2>6. Contained(Grow(a, amount))
    BY <2>1, <2>3, <2>4 DEF Contained
  <2> QED
    BY <2>1, <2>3, <2>5, <2>6 DEF Good
<1> QED
  BY <1>1, <1>2

\* A value that may be stored in an array.
Written == Cells \ {Garbage}

\* [[Set]] keeps the elements in the block, or loses the array.
LEMMA StoreGood ==
  ASSUME NEW a, Good(a), a.fault = "none", NEW index \in Int, NEW v \in Written
  PROVE  /\ Good(Store(a, index, v))
         /\ Store(a, index, v).fault \in {"none", "bounds"}
<1> DEFINE b == GrowFor(a, index)
<1>1. Good(b) /\ b.len = a.len /\ b.fault = "none"
  <2>1. CASE index >= a.alloc
    <3>1. index - a.alloc + 1 \in Nat
      BY <2>1 DEF Good, Sized, Arrs
    <3> QED
      BY <2>1, <3>1, GrowGood DEF GrowFor
  <2>2. CASE ~(index >= a.alloc)
    BY <2>2 DEF GrowFor
  <2> QED
    BY <2>1, <2>2
<1>2. CASE index \notin 0..(b.alloc - 1)
  BY <1>2, FailedGood DEF Store, Faults
<1>3. CASE index \in 0..(b.alloc - 1)
  <2> DEFINE c == Paint(b, b.len, index, Hole)
             d == Paint(c, index, index + 1, v)
             n == IF index >= b.len THEN index + 1 ELSE b.len
  <2>0. b.len \in Nat /\ b.alloc \in Nat /\ Hole \in Cells /\ v \in Cells
    BY <1>1 DEF Good, Sized, Arrs, Cells, Written
  <2>1. /\ Sized(c) /\ c.alloc = b.alloc /\ c.fault = b.fault
        /\ \A i \in 0..(b.alloc - 1) :
             c.mem[i] = IF b.len <= i /\ i < index THEN Hole ELSE b.mem[i]
    BY <1>1, <1>3, <2>0, PaintSized DEF Good
  <2>2. /\ Sized(d) /\ d.alloc = b.alloc /\ d.fault = b.fault
        /\ \A i \in 0..(b.alloc - 1) :
             d.mem[i] = IF index <= i /\ i < index + 1 THEN v ELSE c.mem[i]
    <3> HIDE DEF b, c
    <3>1. index + 1 \in Int
      OBVIOUS
    <3>2. /\ Sized(d) /\ d.alloc = c.alloc /\ d.fault = c.fault
          /\ \A i \in 0..(c.alloc - 1) :
               d.mem[i] = IF index <= i /\ i < index + 1 THEN v ELSE c.mem[i]
      BY <2>0, <2>1, <3>1, PaintSized, ZenonT(30)
    <3> QED
      BY <2>1, <3>2
  <2>3. n \in Nat
    BY <1>3, <2>0
  <2>4. Store(a, index, v) = [d EXCEPT !.len = n]
    BY <1>3 DEF Store
  <2>5. n <= b.alloc /\ \A i \in 0..(n - 1) : d.mem[i] # Garbage
    <3>1. Hole # Garbage /\ v # Garbage
      BY ArrayAssumption DEF Written
    <3>2. b.len <= b.alloc /\ \A i \in 0..(b.len - 1) : b.mem[i] # Garbage
      BY <1>1 DEF Good, Contained
    <3> HIDE DEF b, c, d
    <3>3. n <= b.alloc
      BY <1>3, <2>0, <3>2
    <3>4. ASSUME NEW i \in 0..(n - 1) PROVE d.mem[i] # Garbage
      <4>1. i \in 0..(b.alloc - 1)
        BY <2>0, <3>3, <3>4
      <4>2. CASE i = index
        BY <4>1, <4>2, <2>2, <3>1
      <4>3. CASE i # index
        <5>1. d.mem[i] = IF b.len <= i /\ i < index THEN Hole ELSE b.mem[i]
          BY <1>3, <4>1, <4>3, <2>1, <2>2
        <5>2. i < b.len \/ (b.len <= i /\ i < index)
          BY <1>3, <2>0, <3>4, <4>3
        <5> QED
          BY <2>0, <4>1, <5>1, <5>2, <3>1, <3>2
      <4> QED
        BY <4>2, <4>3
    <3> QED
      BY <3>3, <3>4
  <2> HIDE DEF d, n
  <2>6. Sized(Store(a, index, v)) /\ Store(a, index, v).fault = "none"
    BY <1>1, <2>2, <2>3, <2>4, LenSized
  <2>7. Contained(Store(a, index, v))
    BY <2>2, <2>3, <2>4, <2>5, LenSized DEF Contained
  <2> QED
    BY <2>6, <2>7 DEF Good
<1> QED
  BY <1>2, <1>3

\* What [[Get]] answers was written.
LEMMA ReadWritten ==
  ASSUME NEW a, Good(a), NEW index \in Int
  PROVE  Read(a, index) \in Written
<1>1. CASE Present(a, index)
  <2>1. a.mem[index] \in Cells /\ a.mem[index] # Garbage
    BY <1>1 DEF Present, Good, Sized, Contained, Arrs
  <2>2. Undef \in Written
    BY ArrayAssumption DEF Written, Cells
  <2> QED
    BY <1>1, <2>1, <2>2 DEF Read, Seen, Written
<1>2. CASE ~Present(a, index)
  BY <1>2, ArrayAssumption DEF Read, Written, Cells
<1> QED
  BY <1>1, <1>2

\* A painted array is good when what is painted was written.
LEMMA PaintGood ==
  ASSUME NEW a, Good(a), NEW lo \in Int, NEW hi \in Int, NEW cell \in Written
  PROVE  Good(Paint(a, lo, hi, cell)) /\ Paint(a, lo, hi, cell).fault = a.fault
                                      /\ Paint(a, lo, hi, cell).len = a.len
<1>1. cell \in Cells /\ cell # Garbage
  BY DEF Written
<1>2. PICK p : p = Paint(a, lo, hi, cell)
  OBVIOUS
<1>3. /\ Sized(p) /\ p.len = a.len /\ p.alloc = a.alloc /\ p.fault = a.fault
      /\ \A i \in 0..(a.alloc - 1) :
           p.mem[i] = IF lo <= i /\ i < hi THEN cell ELSE a.mem[i]
  BY <1>1, <1>2, PaintSized DEF Good
<1>4. Contained(p)
  BY <1>1, <1>3 DEF Good, Sized, Contained, Arrs
<1> QED
  BY <1>2, <1>3, <1>4 DEF Good

\* [[Delete]] leaves a hole.
LEMMA EraseGood ==
  ASSUME NEW a, Good(a), NEW index \in Int
  PROVE  Good(Erase(a, index)) /\ Erase(a, index).fault = a.fault
                               /\ Erase(a, index).len = a.len
<1>1. Hole \in Written
  BY ArrayAssumption DEF Written, Cells
<1> QED
  BY <1>1, PaintGood DEF Erase

\* An element carried to another index.
LEMMA CarryGood ==
  ASSUME NEW a, Good(a), a.fault = "none", NEW from \in Int, NEW to \in Int
  PROVE  Good(Carry(a, from, to)) /\ Carry(a, from, to).fault \in {"none", "bounds"}
  BY ReadWritten, StoreGood, EraseGood DEF Carry

\* The turns a loop may take.
Turns == [what : {"store", "carry", "erase", "pass"}, at : Int, from : Int,
          value : Written]

LEMMA PerformGood ==
  ASSUME NEW a, Good(a), a.fault = "none", NEW t \in Turns
  PROVE  Good(Perform(a, t)) /\ Perform(a, t).fault \in {"none", "bounds"}
<1>1. CASE t.what = "store"
  BY <1>1, StoreGood DEF Perform, Turns
<1>2. CASE t.what = "carry"
  BY <1>2, CarryGood DEF Perform, Turns
<1>3. CASE t.what = "erase"
  BY <1>3, EraseGood DEF Perform, Turns
<1>4. CASE t.what = "pass"
  BY <1>4 DEF Perform
<1> QED
  BY <1>1, <1>2, <1>3, <1>4 DEF Turns

\* A set of naturals that is not empty has a least element.
LEMMA LeastNatural ==
  ASSUME NEW S \in SUBSET Nat, S # {}
  PROVE  \E n \in S : \A m \in S : n <= m
<1>1. PICK n \in S : \A m \in S : ~(<<m, n>> \in OpToRel(<, Nat))
  BY NatLessThanWellFounded, WFMin
<1>2. ASSUME NEW m \in S, m < n PROVE <<m, n>> \in OpToRel(<, Nat)
  BY <1>2, <<m, n>> \in Nat \X Nat, <<m, n>>[1] < <<m, n>>[2] DEF OpToRel
<1>3. ASSUME NEW m \in S PROVE ~(m < n)
  BY <1>1, <1>2, Zenon
<1> QED
  BY <1>3

\* f is the history of the first n turns of a loop.
Runs(f, a, turns, n) ==
  f = [p \in 0..n |-> IF p = 0 THEN a ELSE Continued(f[p - 1], turns[p])]

\* A loop has a history, so what it ends with is well defined.
LEMMA HistoryExists ==
  ASSUME NEW a, NEW turns, Len(turns) \in Nat
  PROVE  \E f : Runs(f, a, turns, Len(turns))
<1> DEFINE S == {n \in 0..Len(turns) : ~ \E f : Runs(f, a, turns, n)}
<1>1. SUFFICES ASSUME S # {} PROVE FALSE
  OBVIOUS
<1>2. PICK n \in S : \A m \in S : n <= m
  <2>1. S \in SUBSET Nat
    OBVIOUS
  <2> HIDE DEF S
  <2> QED
    BY <1>1, <2>1, LeastNatural
<1>3. n # 0
  <2> DEFINE f == [p \in 0..0 |-> a]
  <2>1. Runs(f, a, turns, 0)
    BY DEF Runs
  <2> QED
    BY <2>1
<1>4. n \in Nat /\ n - 1 \in 0..Len(turns) /\ ~(n <= n - 1)
  BY <1>2, <1>3
<1>5. PICK g : Runs(g, a, turns, n - 1)
  BY <1>2, <1>4
<1> DEFINE f == [p \in 0..n |-> IF p = n THEN Continued(g[n - 1], turns[n]) ELSE g[p]]
<1>6. \A p \in 0..n : f[p] = IF p = 0 THEN a ELSE Continued(f[p - 1], turns[p])
  <2> TAKE p \in 0..n
  <2>1. CASE p = n
    BY <1>3, <1>4, <2>1
  <2>2. CASE p # n
    <3>1. p \in 0..(n - 1) /\ f[p] = g[p]
      BY <1>4, <2>2
    <3>2. g[p] = IF p = 0 THEN a ELSE Continued(g[p - 1], turns[p])
      BY <1>5, <3>1 DEF Runs
    <3>3. p # 0 => f[p - 1] = g[p - 1]
      BY <1>4, <2>2
    <3> QED
      BY <3>1, <3>2, <3>3
  <2> QED
    BY <2>1, <2>2
<1>7. Runs(f, a, turns, n)
  <2>1. f = [p \in 0..n |-> f[p]]
    OBVIOUS
  <2> HIDE DEF f
  <2> QED
    BY <1>6, <2>1 DEF Runs
<1> QED
  BY <1>2, <1>7

\* A loop of such turns keeps the array good, however far it gets.
LEMMA LoopedGood ==
  ASSUME NEW a, Good(a), a.fault \in {"none", "bounds"}, NEW turns \in Seq(Turns)
  PROVE  Good(Looped(a, turns)) /\ Looped(a, turns).fault \in {"none", "bounds"}
<1> DEFINE n == Len(turns)
           f == CHOOSE h : Runs(h, a, turns, n)
<1>1. n \in Nat
  OBVIOUS
<1>2. Runs(f, a, turns, n)
  BY HistoryExists
<1>3. Looped(a, turns) = f[n]
  BY DEF Looped, Runs
<1> HIDE DEF f
<1>4. f[0] = a /\ \A p \in 1..n : f[p] = Continued(f[p - 1], turns[p])
  BY <1>1, <1>2 DEF Runs
<1> DEFINE Fine(b) == Good(b) /\ b.fault \in {"none", "bounds"}
           S == {p \in 0..n : ~Fine(f[p])}
<1>5. S = {}
  <2>1. SUFFICES ASSUME S # {} PROVE FALSE
    OBVIOUS
  <2>2. PICK p \in S : \A q \in S : p <= q
    <3>1. S \in SUBSET Nat
      BY <1>1
    <3> HIDE DEF S
    <3> QED
      BY <2>1, <3>1, LeastNatural
  <2>3. p # 0
    BY <1>4, <2>2
  <2>4. p \in 1..n /\ p - 1 \in 0..n /\ ~(p <= p - 1)
    BY <1>1, <2>2, <2>3
  <2>5. Fine(f[p - 1])
    BY <2>2, <2>4
  <2>6. Fine(f[p])
    BY <1>4, <2>4, <2>5, PerformGood DEF Continued
  <2> QED
    BY <2>2, <2>6
<1> QED
  BY <1>1, <1>3, <1>5

-----------------------------------------------------------------------------
\* The methods that move the whole array.

LEMMA SetLengthGood ==
  ASSUME NEW a, Good(a), a.fault = "none", NEW n \in Int
  PROVE  \/ /\ Good(SetLength(a, n))
            /\ SetLength(a, n).fault \in {"none", "bounds"}
         \/ /\ SetLength(a, n).fault = "length"
            /\ SetLength(a, n).len = -1
<1>1. CASE n < 0
  BY <1>1 DEF SetLength, Failed, Good, Sized, Arrs
<1>2. CASE n >= 0
  <2> DEFINE b == IF n > a.alloc THEN Grow(a, n - a.alloc + 1) ELSE a
  <2>1. Good(b) /\ b.fault = "none" /\ b.len = a.len
    <3>1. n > a.alloc => n - a.alloc + 1 \in Nat
      BY <1>2 DEF Good, Sized, Arrs
    <3> QED
      BY <3>1, GrowGood
  <2>2. SetLength(a, n) =
          IF n > b.alloc THEN Failed(a, "bounds")
          ELSE IF n < b.len THEN CutTo(b, n)
          ELSE [Paint(b, b.len, n, Hole) EXCEPT !.len = n]
    BY <1>2 DEF SetLength
  <2>3. b.len \in Nat /\ b.alloc \in Nat /\ n \in Nat
    BY <1>2, <2>1 DEF Good, Sized, Arrs
  <2> HIDE DEF b
  <2>4. CASE n > b.alloc
    BY <2>2, <2>4, FailedGood DEF Faults
  <2>5. CASE ~(n > b.alloc) /\ n < b.len
    <3>1. Garbage \in Cells
      BY DEF Cells
    <3> DEFINE c == Paint(b, n, b.len, Garbage)
    <3>2. /\ Sized(c) /\ c.alloc = b.alloc /\ c.fault = "none"
          /\ \A i \in 0..(b.alloc - 1) :
               c.mem[i] = IF n <= i /\ i < b.len THEN Garbage ELSE b.mem[i]
      BY <2>1, <2>3, <3>1, PaintSized DEF Good
    <3>3. \A i \in 0..(n - 1) : c.mem[i] # Garbage
      BY <2>1, <2>3, <2>5, <3>2 DEF Good, Contained
    <3>4. SetLength(a, n) = [c EXCEPT !.len = n]
      BY <2>2, <2>5 DEF CutTo
    <3> HIDE DEF c
    <3> QED
      BY <2>3, <2>5, <3>2, <3>3, <3>4, LenSized DEF Good, Contained
  <2>6. CASE ~(n > b.alloc) /\ ~(n < b.len)
    <3>1. Hole \in Cells /\ Hole # Garbage
      BY ArrayAssumption DEF Cells
    <3> DEFINE c == Paint(b, b.len, n, Hole)
    <3>2. /\ Sized(c) /\ c.alloc = b.alloc /\ c.fault = "none"
          /\ \A i \in 0..(b.alloc - 1) :
               c.mem[i] = IF b.len <= i /\ i < n THEN Hole ELSE b.mem[i]
      BY <2>1, <2>3, <3>1, PaintSized DEF Good
    <3>3. \A i \in 0..(n - 1) : c.mem[i] # Garbage
      BY <2>1, <2>3, <2>6, <3>1, <3>2 DEF Good, Contained
    <3>4. SetLength(a, n) = [c EXCEPT !.len = n]
      BY <2>2, <2>6
    <3> HIDE DEF c
    <3> QED
      BY <2>3, <2>6, <3>2, <3>3, <3>4, LenSized DEF Good, Contained
  <2> QED
    BY <2>3, <2>4, <2>5, <2>6
<1> QED
  BY <1>1, <1>2

\* Only the cells of an array changed.
LEMMA MemSized ==
  ASSUME NEW a, Sized(a), NEW m \in [0..(a.alloc - 1) -> Cells]
  PROVE  /\ Sized([a EXCEPT !.mem = m])
         /\ [a EXCEPT !.mem = m].len = a.len
         /\ [a EXCEPT !.mem = m].alloc = a.alloc
         /\ [a EXCEPT !.mem = m].fault = a.fault
         /\ [a EXCEPT !.mem = m].mem = m
<1>1. m \in Blocks
  BY DEF Sized, Arrs, Blocks
<1> QED
  BY <1>1 DEF Sized, Arrs

\* An array whose first n cells are written, given the length n.
LEMMA NewLength ==
  ASSUME NEW a, Sized(a), NEW n \in Nat, n <= a.alloc,
         \A i \in 0..(n - 1) : a.mem[i] # Garbage
  PROVE  Good([a EXCEPT !.len = n]) /\ [a EXCEPT !.len = n].fault = a.fault
                                    /\ [a EXCEPT !.len = n].len = n
  BY LenSized DEF Good, Contained

LEMMA PushGood ==
  ASSUME NEW a, Good(a), a.fault = "none", NEW vs \in Seq(Written)
  PROVE  /\ Good(PushDense(a, vs)) /\ PushDense(a, vs).fault = "none"
         /\ PushDense(a, vs).len = a.len + Len(vs)
<1> DEFINE b == Grow(a, Len(vs))
           m == [i \in DOMAIN b.mem |->
                   IF b.len <= i /\ i < b.len + Len(vs) THEN vs[i - b.len + 1] ELSE b.mem[i]]
<1>1. Good(b) /\ b.len = a.len /\ a.len + Len(vs) <= b.alloc /\ b.fault = "none"
  BY GrowGood
<1>2. PushDense(a, vs) = [[b EXCEPT !.mem = m] EXCEPT !.len = b.len + Len(vs)]
  BY <1>1 DEF PushDense, Write
<1>3. b.mem \in [0..(b.alloc - 1) -> Cells] /\ b.len \in Nat /\ b.alloc \in Nat
  BY <1>1 DEF Good, Sized, Arrs
<1> HIDE DEF b
<1>4. ASSUME NEW i \in 0..(b.alloc - 1)
      PROVE  m[i] \in Cells /\ (i < b.len + Len(vs) => m[i] # Garbage)
  <2>1. CASE b.len <= i /\ i < b.len + Len(vs)
    <3>1. m[i] = vs[i - b.len + 1] /\ i - b.len + 1 \in 1..Len(vs)
      BY <1>3, <2>1
    <3>2. m[i] \in Written
      BY <3>1
    <3> QED
      BY <3>2 DEF Written
  <2>2. CASE ~(b.len <= i /\ i < b.len + Len(vs))
    <3>1. m[i] = b.mem[i]
      BY <1>3, <2>2
    <3> QED
      BY <1>1, <1>3, <2>2, <3>1 DEF Good, Contained
  <2> QED
    BY <2>1, <2>2
<1>5. m \in [0..(b.alloc - 1) -> Cells]
  BY <1>3, <1>4
<1> HIDE DEF m
<1> DEFINE n == b.len + Len(vs)
           c == [b EXCEPT !.mem = m]
<1>6. n \in Nat /\ n <= b.alloc /\ \A i \in 0..(n - 1) : m[i] # Garbage
  BY <1>1, <1>3, <1>4
<1>7. n = a.len + Len(vs)
  BY <1>1
<1>8. Sized(c) /\ c.alloc = b.alloc /\ c.fault = "none" /\ c.mem = m
  BY <1>1, <1>5, MemSized DEF Good
<1>9. PushDense(a, vs) = [c EXCEPT !.len = n]
  BY <1>2
<1> HIDE DEF n, c
<1> QED
  BY <1>6, <1>7, <1>8, <1>9, NewLength

LEMMA UnshiftGood ==
  ASSUME NEW a, Good(a), a.fault = "none", NEW vs \in Seq(Written)
  PROVE  /\ Good(UnshiftDense(a, vs)) /\ UnshiftDense(a, vs).fault = "none"
         /\ UnshiftDense(a, vs).len = a.len + Len(vs)
<1> DEFINE b == Grow(a, Len(vs))
           moved == [i \in DOMAIN b.mem |->
                       IF Len(vs) <= i /\ i < Len(vs) + b.len
                       THEN b.mem[i - Len(vs) + 0] ELSE b.mem[i]]
           m == [i \in DOMAIN moved |->
                   IF 0 <= i /\ i < 0 + Len(vs) THEN vs[i - 0 + 1] ELSE moved[i]]
           n == b.len + Len(vs)
<1>1. Good(b) /\ b.len = a.len /\ a.len + Len(vs) <= b.alloc /\ b.fault = "none"
  BY GrowGood
<1>2. UnshiftDense(a, vs) = [[b EXCEPT !.mem = m] EXCEPT !.len = n]
  <2> DEFINE c == Move(b, Len(vs), 0, b.len)
  <2>1. c = [b EXCEPT !.mem = moved]
    BY DEF Move
  <2>2. c.mem = moved /\ [c EXCEPT !.mem = m] = [b EXCEPT !.mem = m]
    BY <1>1, <2>1 DEF Good, Sized, Arrs
  <2>3. UnshiftDense(a, vs) = [Write(c, 0, vs) EXCEPT !.len = n]
    BY DEF UnshiftDense
  <2>4. Write(c, 0, vs) = [c EXCEPT !.mem = m]
    BY <2>2 DEF Write
  <2> QED
    BY <2>2, <2>3, <2>4
<1>3. b.mem \in [0..(b.alloc - 1) -> Cells] /\ b.len \in Nat /\ b.alloc \in Nat
  BY <1>1 DEF Good, Sized, Arrs
<1>4. n = a.len + Len(vs) /\ n \in Nat /\ n <= b.alloc /\ Sized(b)
  BY <1>1, <1>3 DEF Good
<1> HIDE DEF b
<1>5. ASSUME NEW i \in 0..(b.alloc - 1)
      PROVE  m[i] \in Cells /\ (i < n => m[i] # Garbage)
  <2>1. CASE i < Len(vs)
    <3>1. m[i] = vs[i + 1] /\ i + 1 \in 1..Len(vs)
      BY <1>3, <2>1
    <3>2. m[i] \in Written
      BY <3>1
    <3> QED
      BY <3>2 DEF Written
  <2>2. CASE Len(vs) <= i /\ i < n
    <3>1. m[i] = b.mem[i - Len(vs)] /\ i - Len(vs) \in 0..(b.len - 1)
      BY <1>3, <2>2
    <3>2. b.len <= b.alloc /\ b.mem[i - Len(vs)] # Garbage
      BY <1>1, <3>1 DEF Good, Contained
    <3>3. i - Len(vs) \in 0..(b.alloc - 1)
      BY <1>3, <3>1, <3>2
    <3> QED
      BY <1>3, <3>1, <3>2, <3>3
  <2>3. CASE ~(i < n)
    <3>1. m[i] = b.mem[i]
      BY <1>3, <1>4, <2>3
    <3> QED
      BY <1>3, <2>3, <3>1
  <2> QED
    BY <1>3, <1>4, <2>1, <2>2, <2>3
<1>6. m \in [0..(b.alloc - 1) -> Cells]
  BY <1>3, <1>5
<1> HIDE DEF m, n
<1>7. \A i \in 0..(n - 1) : m[i] # Garbage
  BY <1>3, <1>4, <1>5
<1> DEFINE c == [b EXCEPT !.mem = m]
<1>8. Sized(c) /\ c.alloc = b.alloc /\ c.fault = "none" /\ c.mem = m
  BY <1>1, <1>4, <1>6, MemSized
<1>9. UnshiftDense(a, vs) = [c EXCEPT !.len = n]
  BY <1>2
<1> HIDE DEF c
<1> QED
  BY <1>4, <1>7, <1>8, <1>9, NewLength

\* The array pushed or unshifted onto itself.
LEMMA OwnArgsWritten ==
  ASSUME NEW a, Good(a)
  PROVE  /\ OwnArgs(a) \in Seq(Written) /\ Len(OwnArgs(a)) = a.len /\ a.len \in Nat
         /\ \A p \in 1..a.len : OwnArgs(a)[p] = a.mem[p - 1]
<1>1. a.len \in Nat /\ a.len <= a.alloc /\ a.alloc \in Nat
      /\ a.mem \in [0..(a.alloc - 1) -> Cells]
      /\ \A i \in 0..(a.len - 1) : a.mem[i] # Garbage
  BY DEF Good, Sized, Contained, Arrs
<1>2. ASSUME NEW p \in 1..a.len PROVE a.mem[p - 1] \in Written
  <2>1. p - 1 \in 0..(a.len - 1) /\ p - 1 \in 0..(a.alloc - 1)
    BY <1>1
  <2> QED
    BY <1>1, <2>1 DEF Written
<1> QED
  BY <1>1, <1>2 DEF OwnArgs

LEMMA OwnGood ==
  ASSUME NEW a, Good(a), a.fault = "none"
  PROVE  /\ Good(PushOwn(a)) /\ Good(UnshiftOwn(a))
         /\ PushOwn(a).fault \in {"none", "freed"}
         /\ UnshiftOwn(a).fault \in {"none", "freed"}
         /\ PushOwn(a).fault = "freed" => a.len + a.len > a.alloc
         /\ UnshiftOwn(a).fault = "freed" => a.len + a.len > a.alloc
<1>1. CASE a.len + a.len > a.alloc
  BY <1>1, FailedGood DEF PushOwn, UnshiftOwn, Faults
<1>2. CASE ~(a.len + a.len > a.alloc)
  <2>1. OwnArgs(a) \in Seq(Written)
    BY OwnArgsWritten
  <2>2. PushOwn(a) = PushDense(a, OwnArgs(a)) /\ UnshiftOwn(a) = UnshiftDense(a, OwnArgs(a))
    BY <1>2 DEF PushOwn, UnshiftOwn
  <2> QED
    BY <2>1, <2>2, PushGood, UnshiftGood
<1> QED
  BY <1>1, <1>2

LEMMA CutToGood ==
  ASSUME NEW a, Good(a), NEW n \in Nat, n <= a.len
  PROVE  Good(CutTo(a, n)) /\ CutTo(a, n).fault = a.fault /\ CutTo(a, n).len = n
<1> DEFINE c == Paint(a, n, a.len, Garbage)
<1>1. Garbage \in Cells /\ a.len \in Nat /\ a.alloc \in Nat
  BY DEF Cells, Good, Sized, Arrs
<1>2. /\ Sized(c) /\ c.alloc = a.alloc /\ c.fault = a.fault
      /\ \A i \in 0..(a.alloc - 1) :
           c.mem[i] = IF n <= i /\ i < a.len THEN Garbage ELSE a.mem[i]
  BY <1>1, PaintSized DEF Good
<1>3. n <= a.alloc /\ \A i \in 0..(n - 1) : c.mem[i] # Garbage
  BY <1>1, <1>2 DEF Good, Contained
<1>4. CutTo(a, n) = [c EXCEPT !.len = n]
  BY DEF CutTo
<1> HIDE DEF c
<1> QED
  BY <1>2, <1>3, <1>4, LenSized DEF Good, Contained

LEMMA PopGood ==
  ASSUME NEW a, Good(a), a.fault = "none"
  PROVE  /\ Good(PopDense(a)) /\ PopDense(a).fault = "none"
         /\ PopDense(a).len <= a.len
<1>1. CASE a.len = 0
  BY <1>1 DEF PopDense
<1>2. CASE a.len # 0
  <2>1. a.len - 1 \in Nat /\ a.len - 1 <= a.len
    BY <1>2 DEF Good, Sized
  <2> QED
    BY <1>2, <2>1, CutToGood DEF PopDense
<1> QED
  BY <1>1, <1>2

LEMMA ShiftGood ==
  ASSUME NEW a, Good(a), a.fault = "none"
  PROVE  /\ Good(ShiftDense(a)) /\ ShiftDense(a).fault = "none"
         /\ ShiftDense(a).len <= a.len
<1>1. CASE a.len = 0
  BY <1>1 DEF ShiftDense
<1>2. CASE a.len # 0
  <2> DEFINE m == [i \in DOMAIN a.mem |->
                     IF 0 <= i /\ i < 0 + (a.len - 1) THEN a.mem[i - 0 + 1] ELSE a.mem[i]]
             c == [a EXCEPT !.mem = m]
  <2>1. a.len - 1 \in Nat /\ a.len \in Nat /\ a.len <= a.alloc /\ a.alloc \in Nat
        /\ a.mem \in [0..(a.alloc - 1) -> Cells]
    BY <1>2 DEF Good, Sized, Contained, Arrs
  <2>2. ASSUME NEW i \in 0..(a.alloc - 1)
        PROVE  m[i] \in Cells /\ (i < a.len => m[i] # Garbage)
    <3>1. \A j \in 0..(a.len - 1) : a.mem[j] # Garbage
      BY DEF Good, Contained
    <3>2. CASE i < a.len - 1
      <4>1. m[i] = a.mem[i + 1] /\ i + 1 \in 0..(a.len - 1) /\ i + 1 \in 0..(a.alloc - 1)
        BY <2>1, <3>2
      <4> QED
        BY <2>1, <3>1, <4>1
    <3>3. CASE ~(i < a.len - 1)
      <4>1. m[i] = a.mem[i]
        BY <2>1, <3>3
      <4>2. i < a.len => i \in 0..(a.len - 1)
        BY <2>1
      <4> QED
        BY <2>1, <3>1, <4>1, <4>2
    <3> QED
      BY <3>2, <3>3
  <2>3. m \in [0..(a.alloc - 1) -> Cells]
    BY <2>1, <2>2
  <2>4. ShiftDense(a) = CutTo(c, a.len - 1)
    BY <1>2 DEF ShiftDense, Move
  <2> HIDE DEF m
  <2>5. m \in Blocks /\ \A i \in 0..(a.len - 1) : m[i] # Garbage
    <3>1. m \in Blocks
      BY <2>1, <2>3 DEF Blocks
    <3>2. \A i \in 0..(a.len - 1) : i \in 0..(a.alloc - 1) /\ i < a.len
      BY <2>1
    <3> QED
      BY <2>2, <3>1, <3>2
  <2>6. Sized(c) /\ c.alloc = a.alloc /\ c.mem = m /\ c.fault = a.fault /\ c.len = a.len
    BY <2>3, <2>5 DEF Good, Sized, Arrs
  <2> HIDE DEF c
  <2>7. Good(c)
    BY <2>1, <2>5, <2>6 DEF Good, Contained
  <2>8. a.len - 1 <= c.len /\ a.len - 1 <= a.len
    BY <2>1, <2>6
  <2> QED
    BY <2>1, <2>4, <2>6, <2>7, <2>8, CutToGood
<1> QED
  BY <1>1, <1>2

LEMMA ReversedGood ==
  ASSUME NEW a, Good(a), a.fault = "none"
  PROVE  Good(Reversed(a)) /\ Reversed(a).fault = "none" /\ Reversed(a).len = a.len
<1> DEFINE m == [i \in DOMAIN a.mem |->
                   IF i < a.len /\ 2 * i + 1 # a.len THEN Seen(a.mem[a.len - 1 - i])
                                                     ELSE a.mem[i]]
<1>1. a.len \in Nat /\ a.alloc \in Nat /\ a.len <= a.alloc
      /\ a.mem \in [0..(a.alloc - 1) -> Cells]
      /\ \A i \in 0..(a.len - 1) : a.mem[i] # Garbage
  BY DEF Good, Sized, Contained, Arrs
<1>2. ASSUME NEW i \in 0..(a.alloc - 1)
      PROVE  m[i] \in Cells /\ (i < a.len => m[i] # Garbage)
  <2>1. CASE i < a.len /\ 2 * i + 1 # a.len
    <3>1. m[i] = Seen(a.mem[a.len - 1 - i])
      BY <1>1, <2>1
    <3>2. a.len - 1 - i \in 0..(a.len - 1) /\ a.len - 1 - i \in 0..(a.alloc - 1)
      BY <1>1, <2>1
    <3>3. a.mem[a.len - 1 - i] \in Cells /\ a.mem[a.len - 1 - i] # Garbage
      BY <1>1, <3>2
    <3> QED
      BY <3>1, <3>3, ArrayAssumption DEF Seen, Cells
  <2>2. CASE ~(i < a.len /\ 2 * i + 1 # a.len)
    BY <1>1, <2>2
  <2> QED
    BY <2>1, <2>2
<1>3. m \in [0..(a.alloc - 1) -> Cells]
  <2>1. DOMAIN a.mem = 0..(a.alloc - 1) /\ \A i \in 0..(a.alloc - 1) : m[i] \in Cells
    BY <1>1, <1>2
  <2>2. m = [i \in DOMAIN a.mem |-> m[i]]
    OBVIOUS
  <2> HIDE DEF m
  <2> QED
    BY <2>1, <2>2
<1>4. Reversed(a) = [a EXCEPT !.mem = m]
  BY DEF Reversed
<1>5. \A i \in 0..(a.len - 1) : m[i] # Garbage
  <2>1. \A i \in 0..(a.len - 1) : i \in 0..(a.alloc - 1) /\ i < a.len
    BY <1>1
  <2> QED
    BY <1>2, <2>1
<1> HIDE DEF m
<1> QED
  BY <1>1, <1>3, <1>4, <1>5, MemSized DEF Good, Contained

-----------------------------------------------------------------------------
\* The turns of the loops of fill and splice.

\* Every value a program stores was written.
LEMMA ValsWritten == Vals \subseteq Written /\ {Undef, Zero, Hole} \subseteq Written
  BY ArrayAssumption DEF Written, Cells

LEMMA StoringType ==
  ASSUME NEW k \in Int, NEW v \in Vals PROVE Storing(k, v) \in Turns
  BY ValsWritten DEF Storing, Turn, Turns

LEMMA CarryingType ==
  ASSUME NEW j \in Int, NEW k \in Int PROVE Carrying(j, k) \in Turns
  BY ValsWritten DEF Carrying, Turn, Turns

LEMMA ErasingType ==
  ASSUME NEW k \in Int PROVE Erasing(k) \in Turns
  BY ValsWritten DEF Erasing, Turn, Turns

LEMMA Spans ==
  ASSUME NEW lo \in Int, NEW hi \in Int
  PROVE  Upwards(lo, hi) \in Seq(Int) /\ Downwards(hi, lo) \in Seq(Int)
<1> DEFINE n == IF hi < lo THEN 0 ELSE hi - lo
<1>1. n \in Nat
  OBVIOUS
<1>2. Upwards(lo, hi) = [p \in 1..n |-> lo + p - 1]
      /\ Downwards(hi, lo) = [p \in 1..n |-> hi - p + 1]
  BY DEF Upwards, Downwards
<1> HIDE DEF n
<1> QED
  BY <1>1, <1>2

LEMMA FilledGood ==
  ASSUME NEW a, Good(a), a.fault = "none", NEW v \in Vals,
         NEW start \in Int, NEW end \in Int
  PROVE  Good(Filled(a, v, start, end))
         /\ Filled(a, v, start, end).fault \in {"none", "bounds"}
<1> DEFINE ks == Upwards(Relative(a, start), Relative(a, end))
           turns == [p \in DOMAIN ks |-> Storing(ks[p], v)]
<1>1. Relative(a, start) \in Int /\ Relative(a, end) \in Int
  BY DEF Relative, Good, Sized
<1>2. ks \in Seq(Int)
  BY <1>1, Spans
<1> HIDE DEF ks
<1>3. turns \in Seq(Turns)
  <2>1. \A p \in 1..Len(ks) : ks[p] \in Int
    BY <1>2
  <2>2. \A p \in 1..Len(ks) : Storing(ks[p], v) \in Turns
    BY <2>1, StoringType
  <2> QED
    BY <1>2, <2>2
<1>4. Filled(a, v, start, end) = Looped(a, turns)
  BY DEF Filled, ks
<1> HIDE DEF turns
<1> QED
  BY <1>3, <1>4, LoopedGood

\* The turns that move the tail down.
LEMMA ClosingType ==
  ASSUME NEW a, a.len \in Int, NEW s \in Int, NEW n \in Int, NEW m \in Int
  PROVE  Closing(a, s, n, m) \in Seq(Turns)
<1> DEFINE end   == a.len - n
           down  == IF (s < 0) = (end < 0) THEN Upwards(s, end) ELSE <<>>
           freed == IF Unsigned(a.len) > Unsigned(end + m)
                    THEN Downwards(a.len, end + m) ELSE <<>>
           carries == [p \in DOMAIN down |-> Carrying(down[p] + n, down[p] + m)]
           erases  == [p \in DOMAIN freed |-> Erasing(freed[p] - 1)]
<1>1. down \in Seq(Int) /\ freed \in Seq(Int)
  <2>1. end \in Int /\ end + m \in Int
    OBVIOUS
  <2>2. Upwards(s, end) \in Seq(Int) /\ Downwards(a.len, end + m) \in Seq(Int)
    BY <2>1, Spans
  <2> HIDE DEF end
  <2> QED
    BY <2>2
<1>2. Closing(a, s, n, m) = carries \o erases
  BY DEF Closing
<1> HIDE DEF down, freed
<1>3. carries \in Seq(Turns)
  <2>1. \A p \in 1..Len(down) : down[p] + n \in Int /\ down[p] + m \in Int
    BY <1>1
  <2>2. \A p \in 1..Len(down) : Carrying(down[p] + n, down[p] + m) \in Turns
    BY <2>1, CarryingType
  <2>3. DOMAIN down = 1..Len(down) /\ Len(down) \in Nat
    BY <1>1
  <2> QED
    BY <2>2, <2>3
<1>4. erases \in Seq(Turns)
  <2>1. \A p \in 1..Len(freed) : freed[p] - 1 \in Int
    BY <1>1
  <2>2. \A p \in 1..Len(freed) : Erasing(freed[p] - 1) \in Turns
    BY <2>1, ErasingType
  <2>3. DOMAIN freed = 1..Len(freed) /\ Len(freed) \in Nat
    BY <1>1
  <2> QED
    BY <2>2, <2>3
<1> HIDE DEF carries, erases
<1> QED
  BY <1>2, <1>3, <1>4

\* The turns that move it up.
LEMMA OpeningType ==
  ASSUME NEW a, a.len \in Int, NEW s \in Int, NEW n \in Int, NEW m \in Int
  PROVE  Opening(a, s, n, m) \in Seq(Turns)
<1> DEFINE up == Downwards(a.len - n, s)
<1>1. up \in Seq(Int)
  <2>1. a.len - n \in Int
    OBVIOUS
  <2> QED
    BY <2>1, Spans
<1>2. Opening(a, s, n, m) = [p \in DOMAIN up |-> Carrying(up[p] + n - 1, up[p] + m - 1)]
  BY DEF Opening
<1> HIDE DEF up
<1>3. \A p \in 1..Len(up) : up[p] + n - 1 \in Int /\ up[p] + m - 1 \in Int
  BY <1>1
<1>4. \A p \in 1..Len(up) : Carrying(up[p] + n - 1, up[p] + m - 1) \in Turns
  BY <1>3, CarryingType
<1>5. DOMAIN up = 1..Len(up) /\ Len(up) \in Nat
  BY <1>1
<1> QED
  BY <1>2, <1>4, <1>5

LEMMA SplicedGood ==
  ASSUME NEW a, Good(a), a.fault = "none", NEW s \in Int, NEW n \in Int,
         NEW vs \in Seq(Vals)
  PROVE  \/ /\ Good(Spliced(a, s, n, vs))
            /\ Spliced(a, s, n, vs).fault \in {"none", "bounds"}
         \/ /\ Spliced(a, s, n, vs).fault = "length"
            /\ Spliced(a, s, n, vs).len = -1
<1> DEFINE m == Len(vs)
           moves == IF m < n THEN Closing(a, s, n, m)
                    ELSE IF m > n THEN Opening(a, s, n, m) ELSE <<>>
           puts  == [p \in 1..m |-> Storing(s + p - 1, vs[p])]
           b     == Looped(a, moves \o puts)
<1>1. m \in Nat /\ a.len \in Nat
  BY DEF Good, Sized
<1>2. moves \in Seq(Turns)
  BY <1>1, ClosingType, OpeningType
<1>3. puts \in Seq(Turns)
  <2>1. \A p \in 1..m : s + p - 1 \in Int /\ vs[p] \in Vals
    OBVIOUS
  <2>2. \A p \in 1..m : Storing(s + p - 1, vs[p]) \in Turns
    BY <2>1, StoringType
  <2> QED
    BY <1>1, <2>2
<1> HIDE DEF moves, puts
<1>4. moves \o puts \in Seq(Turns)
  BY <1>2, <1>3
<1>5. Good(b) /\ b.fault \in {"none", "bounds"}
  BY <1>4, LoopedGood
<1>6. Spliced(a, s, n, vs) =
        IF b.fault # "none" THEN b ELSE SetLength(b, a.len - n + m)
  BY DEF Spliced, moves, puts
<1>7. a.len - n + m \in Int
  BY <1>1
<1> HIDE DEF b
<1>8. CASE b.fault # "none"
  BY <1>5, <1>6, <1>8
<1>9. CASE b.fault = "none"
  BY <1>5, <1>6, <1>7, <1>9, SetLengthGood
<1> QED
  BY <1>8, <1>9

-----------------------------------------------------------------------------
(***************************************************************************)
(* The inductive invariant.  An array is good until its length has become  *)
(* negative.  Beyond TypeOK it says that a loop other than forEach and the *)
(* iterators stands on an index its array had when it began.               *)
(***************************************************************************)
ArrayOK == Good(arr) \/ (Sized([arr EXCEPT !.len = 0]) /\ arr \in Arrs
                         /\ arr.fault = "length" /\ arr.len = -1)

Frame == [kind : Kinds, k : 0..LoopLen, len : 0..LoopLen, val : Cells, out : Seq(Cells)]

FramesOK ==
  /\ frames \in Seq(Frame)
  /\ \A d \in 1..Len(frames) :
       frames[d].kind \notin LiveLoops => frames[d].k < frames[d].len
  /\ frames # <<>> => arr.len <= LoopLen

IInv == ArrayOK /\ FramesOK

\* The arrays a program starts with are good.
LEMMA NewGood ==
  /\ \A vs \in Seq(Vals) : Good(NewCopy(vs)) /\ NewCopy(vs).fault = "none"
  /\ Good(NewFilled(1)) /\ NewFilled(1).fault = "none"
  /\ Good(NewZeroed(1)) /\ NewZeroed(1).fault = "none"
<1>1. ASSUME NEW vs \in Seq(Vals) PROVE Good(NewCopy(vs)) /\ NewCopy(vs).fault = "none"
  <2> DEFINE n == Len(vs) + Spare
             m == [i \in 0..(n - 1) |-> IF i < Len(vs) THEN vs[i + 1] ELSE Garbage]
  <2>1. n \in Nat /\ Len(vs) \in Nat /\ Len(vs) <= n
    BY ArrayAssumption
  <2>2. ASSUME NEW i \in 0..(n - 1) PROVE m[i] \in Cells /\ (i < Len(vs) => m[i] # Garbage)
    <3>1. CASE i < Len(vs)
      <4>1. i + 1 \in 1..Len(vs) /\ m[i] = vs[i + 1]
        BY <2>1, <3>1
      <4>2. m[i] \in Vals
        BY <4>1
      <4> QED
        BY <4>2, ArrayAssumption DEF Cells
    <3>2. CASE ~(i < Len(vs))
      BY <3>2 DEF Cells
    <3> QED
      BY <3>1, <3>2
  <2>3. m \in [0..(n - 1) -> Cells]
    BY <2>2
  <2>4. NewCopy(vs) = [len |-> Len(vs), alloc |-> n, mem |-> m, fault |-> "none"]
    BY DEF NewCopy, Array, Block
  <2>5. \A i \in 0..(Len(vs) - 1) : m[i] # Garbage
    BY <2>1, <2>2
  <2> HIDE DEF m, n
  <2>6. Sized(NewCopy(vs))
    BY <2>1, <2>3, <2>4, SizedRecord DEF Faults
  <2> QED
    BY <2>1, <2>4, <2>5, <2>6 DEF Good, Contained
<1>2. Good(NewFilled(1)) /\ NewFilled(1).fault = "none"
  <2> DEFINE n == 1 + Spare
             m == [i \in 0..(n - 1) |-> IF i < 1 THEN Hole ELSE Garbage]
  <2>1. n \in Nat /\ 1 <= n
    BY ArrayAssumption
  <2>2. m \in [0..(n - 1) -> Cells] /\ m[0] # Garbage
    BY <2>1, ArrayAssumption DEF Cells
  <2>3. NewFilled(1) = [len |-> 1, alloc |-> n, mem |-> m, fault |-> "none"]
    BY DEF NewFilled, Array, Block
  <2> HIDE DEF m, n
  <2>4. Sized(NewFilled(1))
    BY <2>1, <2>2, <2>3, SizedRecord DEF Faults
  <2> QED
    BY <2>1, <2>2, <2>3, <2>4 DEF Good, Contained
<1>3. Good(NewZeroed(1)) /\ NewZeroed(1).fault = "none"
  <2> DEFINE m == [i \in 0..(1 - 1) |-> Zero]
  <2>1. m \in [0..(1 - 1) -> Cells] /\ m[0] # Garbage
    BY ArrayAssumption DEF Cells
  <2>2. NewZeroed(1) = [len |-> 1, alloc |-> 1, mem |-> m, fault |-> "none"]
    BY DEF NewZeroed, Array, Block
  <2> HIDE DEF m
  <2>3. Sized(NewZeroed(1))
    BY <2>1, <2>2, SizedRecord DEF Faults
  <2> QED
    BY <2>1, <2>2, <2>3 DEF Good, Contained
<1> QED
  BY <1>1, <1>2, <1>3

LEMMA InitIInv == Init => IInv
<1> SUFFICES ASSUME Init PROVE IInv
  OBVIOUS
<1>1. Good(arr)
  BY NewGood, ArgumentsAssumption DEF Init
<1>2. FramesOK
  BY DEF Init, FramesOK
<1> QED
  BY <1>1, <1>2 DEF IInv, ArrayOK

-----------------------------------------------------------------------------
(***************************************************************************)
(* The steps.  Every step of Next is a method that leaves the array b, the *)
(* next callback of a loop that begins or goes on, or a loop left early.   *)
(***************************************************************************)
Positional == {"set", "length", "fill", "splice", "slice", "own", "join"}

Itself == {"pushItself", "unshiftItself"}

\* What a method may make of the array.
Sound(method, b) ==
  /\ \/ Good(b)
     \/ b.fault = "length" /\ b.len = -1
  /\ b.fault = "bounds" => method \in Positional
  /\ b.fault = "freed" => method \in Itself /\ arr.len + arr.len > arr.alloc

Calls == \E method, b, r : Do(method, b, r) /\ Sound(method, b)

\* A loop that may call back for an index beyond f.k, or below it.
FrameStart == [kind : Kinds, k : Int, len : 0..LoopLen, val : Cells, out : Seq(Cells)]

Startable(f) ==
  f \in FrameStart /\ f.k >= -1 /\ (f.kind = "reduceRight" => f.k <= f.len)

Upward == LiveLoops \cup {"map", "filter", "reduce"}

Begins == \E f \in FrameStart :
  /\ Startable(f) /\ Running /\ arr.len <= LoopLen
  /\ f.kind \in Upward => f.k = -1
  /\ Continue(f, frames)

GoesOn == \E f \in FrameStart :
  /\ Running /\ frames # <<>>
  /\ f.kind = Top.kind /\ f.k = Top.k /\ f.len = Top.len
  /\ Continue(f, Below)

Leaves == \E r : Running /\ frames # <<>> /\ Top.kind \notin Upward /\ Leave(r)

LEMMA RunningGood == IInv /\ Running => Good(arr) /\ arr.fault = "none" /\ arr.len \in Nat
  BY DEF IInv, ArrayOK, Running, Good, Sized

\* The methods that do not call back.
LEMMA CallsAreSound ==
  ASSUME IInv, Running
  PROVE  /\ \A i \in Indices, v \in Vals : Sound("set", Store(arr, i, v))
         /\ \A n \in Indices : Sound("length", SetLength(arr, n))
         /\ \A n \in Indices : Sound("delete", Erase(arr, n))
         /\ \A n \in Indices : Sound("own", OwnCell(arr, n))
         /\ \A vs \in Args : Sound("push", PushDense(arr, vs))
                             /\ Sound("unshift", UnshiftDense(arr, vs))
         /\ Sound("pushItself", PushOwn(arr)) /\ Sound("unshiftItself", UnshiftOwn(arr))
         /\ Sound("pop", PopDense(arr)) /\ Sound("shift", ShiftDense(arr))
         /\ Sound("reverse", Reversed(arr))
         /\ \A v \in Vals, s, e \in Starts : Sound("fill", Filled(arr, v, s, e))
         /\ \A s, n \in Int, vs \in Args : Sound("splice", Spliced(arr, s, n, vs))
         /\ \A why \in {"bounds", "abort"}, method \in Positional :
              Sound(method, Failed(arr, why))
         /\ \A method : Sound(method, arr) /\ Sound(method, Failed(arr, "abort"))
<1>1. Good(arr) /\ arr.fault = "none"
  BY RunningGood
<1>2. Indices \subseteq Int /\ Starts \subseteq Int /\ \A vs \in Args : vs \in Seq(Vals)
  BY ArgumentsAssumption
<1>0. \A vs \in Args : vs \in Seq(Written)
  BY <1>2, ValsWritten, SeqMonotonic
<1>13. Sound("pushItself", PushOwn(arr)) /\ Sound("unshiftItself", UnshiftOwn(arr))
  BY <1>1, OwnGood DEF Sound, Itself
<1>3. \A i \in Indices, v \in Vals : Sound("set", Store(arr, i, v))
  BY <1>1, <1>2, StoreGood, ValsWritten DEF Sound, Positional
<1>4. \A n \in Indices : Sound("length", SetLength(arr, n))
  BY <1>1, <1>2, SetLengthGood DEF Sound, Positional
<1>5. \A n \in Indices : Sound("delete", Erase(arr, n))
  BY <1>1, <1>2, EraseGood DEF Sound
<1>6. \A n \in Indices : Sound("own", OwnCell(arr, n))
  BY <1>1, FailedGood DEF Sound, Positional, OwnCell, Faults
<1>7. \A vs \in Args : Sound("push", PushDense(arr, vs))
                       /\ Sound("unshift", UnshiftDense(arr, vs))
  BY <1>0, <1>1, PushGood, UnshiftGood DEF Sound
<1>8. Sound("pop", PopDense(arr)) /\ Sound("shift", ShiftDense(arr))
      /\ Sound("reverse", Reversed(arr))
  BY <1>1, PopGood, ShiftGood, ReversedGood DEF Sound
<1>9. \A v \in Vals, s, e \in Starts : Sound("fill", Filled(arr, v, s, e))
  BY <1>1, <1>2, FilledGood DEF Sound, Positional
<1>10. \A s, n \in Int, vs \in Args : Sound("splice", Spliced(arr, s, n, vs))
  BY <1>1, <1>2, SplicedGood DEF Sound, Positional
<1>11. \A why \in {"bounds", "abort"}, method \in Positional :
         Sound(method, Failed(arr, why))
  BY <1>1, FailedGood DEF Sound, Faults
<1>12. \A method : Sound(method, arr) /\ Sound(method, Failed(arr, "abort"))
  BY <1>1, FailedGood DEF Sound, Faults
<1> QED
  BY <1>3, <1>4, <1>5, <1>6, <1>7, <1>8, <1>9, <1>10, <1>11, <1>12, <1>13

\* The loop that is on top of the stack can go on.
LEMMA TopFrame ==
  ASSUME IInv, frames # <<>>
  PROVE  /\ Top \in Frame /\ Below \in Seq(Frame)
         /\ Len(frames) \in Nat \ {0} /\ Len(Below) = Len(frames) - 1
         /\ \A d \in 1..Len(Below) : Below[d] = frames[d]
         /\ arr.len <= LoopLen
         /\ Top.kind \notin LiveLoops => Top.k < Top.len
<1>1. frames \in Seq(Frame) /\ Len(frames) \in Nat \ {0}
  BY DEF IInv, FramesOK
<1>2. Len(frames) \in 1..Len(frames)
  BY <1>1
<1>3. Top \in Frame /\ (Top.kind \notin LiveLoops => Top.k < Top.len) /\ arr.len <= LoopLen
  BY <1>1, <1>2 DEF IInv, FramesOK, Top
<1>4. /\ Below \in Seq(Frame) /\ Len(Below) = Len(frames) - 1
      /\ \A d \in 1..Len(Below) : Below[d] = frames[d]
  <2> DEFINE n == Len(frames) - 1
  <2>1. n \in Nat /\ \A i \in 1..n : frames[i] \in Frame
    BY <1>1
  <2>2. /\ SubSeq(frames, 1, n) \in Seq(Frame)
        /\ Len(SubSeq(frames, 1, n)) = IF 1 <= n THEN n - 1 + 1 ELSE 0
        /\ \A i \in 1..(n - 1 + 1) : SubSeq(frames, 1, n)[i] = frames[1 + i - 1]
    BY <2>1, SubSeqProperties
  <2>3. Below = SubSeq(frames, 1, n)
    BY DEF Below
  <2> HIDE DEF n
  <2>4. n - 1 + 1 = n /\ \A i \in 1..n : 1 + i - 1 = i
    BY <2>1
  <2>5. n = Len(frames) - 1
    BY DEF n
  <2> QED
    BY <2>1, <2>2, <2>3, <2>4, <2>5
<1> QED
  BY <1>1, <1>3, <1>4

LEMMA ValuesAreCells ==
  /\ \A v \in Single : v \in Vals /\ v \in Cells
  /\ Vals \subseteq Cells /\ Undef \in Cells /\ Garbage \in Cells
<1>1. ASSUME NEW vs \in Args \ {<<>>} PROVE vs[1] \in Vals
  <2>1. vs \in Seq(Vals) /\ vs # <<>>
    BY ArgumentsAssumption
  <2>2. 1 \in 1..Len(vs)
    BY <2>1
  <2> QED
    BY <2>1, <2>2
<1> QED
  BY <1>1 DEF Single, Cells

LEMMA BeginsIs ==
  ASSUME IInv,
         \/ \E kind \in Kinds : LoopBegin(kind)
         \/ \E v \in Single : ReduceBegin(v)
         \/ ReduceRightBegin
  PROVE  Begins
<1>1. Running /\ arr.len <= LoopLen
  BY DEF LoopBegin, ReduceBegin, ReduceRightBegin
<1>2. Good(arr) /\ arr.len \in 0..LoopLen
  BY <1>1, RunningGood, ArgumentsAssumption
<1>3. ASSUME NEW kind \in Kinds, NEW out \in Seq(Cells)
      PROVE  /\ Begun(kind, out) \in FrameStart
             /\ Begun(kind, out).kind = kind
             /\ Begun(kind, out).k = IF kind = "reduceRight" THEN arr.len ELSE -1
             /\ kind = "reduceRight" => Begun(kind, out).len = arr.len
             /\ Startable(Begun(kind, out))
  <2>1. Undef \in Cells /\ 0 \in 0..LoopLen
    BY ArgumentsAssumption DEF Cells
  <2>2. Begun(kind, out) \in FrameStart
    BY <1>2, <2>1 DEF Begun, FrameStart
  <2> QED
    BY <1>2, <2>2 DEF Begun, Startable, LiveLoops
<1>4. ASSUME NEW kind \in Kinds, LoopBegin(kind) PROVE Begins
  <2> DEFINE out == IF kind = "map" THEN [p \in 1..arr.len |-> Garbage] ELSE <<>>
  <2>1. out \in Seq(Cells)
    BY <1>2, ValuesAreCells
  <2>2. kind # "reduceRight" /\ Continue(Begun(kind, out), frames)
    BY <1>4 DEF LoopBegin
  <2> HIDE DEF out
  <2> QED
    BY <1>1, <1>3, <2>1, <2>2 DEF Begins
<1>5. ASSUME NEW v \in Single, ReduceBegin(v) PROVE Begins
  <2>1. <<v>> \in Seq(Cells) /\ "reduce" \in Kinds
    BY ValuesAreCells DEF Kinds
  <2>2. Continue(Begun("reduce", <<v>>), frames)
    BY <1>5 DEF ReduceBegin
  <2> QED
    BY <1>1, <1>3, <2>1, <2>2 DEF Begins
<1>6. ASSUME ReduceRightBegin PROVE Begins
  <2> DEFINE out == <<Read(arr, arr.len - 1)>>
             b == Begun("reduceRight", out)
             f == [b EXCEPT !.k = arr.len - 1]
  <2>1. out \in Seq(Cells) /\ "reduceRight" \in Kinds
    BY <1>2, ReadWritten DEF Kinds, Written
  <2>2. Continue(f, frames) /\ arr.len > 0
    BY <1>6 DEF ReduceRightBegin
  <2> HIDE DEF out
  <2>3. b \in FrameStart /\ b.kind = "reduceRight" /\ b.len = arr.len
    BY <1>3, <2>1
  <2> HIDE DEF b
  <2>4. f \in FrameStart /\ f.k = arr.len - 1 /\ f.kind = b.kind /\ f.len = b.len
    BY <1>2, <2>3 DEF FrameStart
  <2> HIDE DEF f
  <2>5. Startable(f) /\ f.kind \notin Upward
    BY <1>2, <2>2, <2>3, <2>4 DEF Startable, Upward, LiveLoops
  <2> QED
    BY <1>1, <2>2, <2>4, <2>5 DEF Begins
<1> QED
  BY <1>4, <1>5, <1>6

\* A loop that goes on with what it has gathered.
LEMMA GoesOnWith ==
  ASSUME IInv, Running, frames # <<>>, NEW out \in Seq(Cells), GoOnWith(out)
  PROVE  GoesOn
<1> DEFINE f == [Top EXCEPT !.out = out]
<1>1. Top \in Frame
  BY TopFrame
<1>2. f \in FrameStart /\ f.kind = Top.kind /\ f.k = Top.k /\ f.len = Top.len
  BY <1>1 DEF Frame, FrameStart
<1>3. Continue(f, Below)
  BY DEF GoOnWith
<1> HIDE DEF f
<1> QED
  BY <1>2, <1>3 DEF GoesOn

LEMMA ReturnsAre ==
  ASSUME IInv,
         \/ ForEachReturn \/ IteratorNext \/ JoinReturn
         \/ \E v \in Single : MapReturn(v) \/ ReduceReturn(v) \/ ReduceRightReturn(v)
         \/ \E accepts \in BOOLEAN :
              \/ EveryReturn(accepts) \/ SomeReturn(accepts) \/ FindReturn(accepts)
              \/ FindIndexReturn(accepts) \/ FilterReturn(accepts)
  PROVE  GoesOn \/ Leaves
<1>1. ASSUME NEW kind, Returning(kind), GoOn PROVE GoesOn
  <2>1. Running /\ frames # <<>> /\ Top \in Frame
    BY <1>1, TopFrame DEF Returning
  <2>2. Top \in FrameStart /\ Continue(Top, Below)
    BY <1>1, <2>1 DEF GoOn, Frame, FrameStart
  <2> QED
    BY <2>1, <2>2 DEF GoesOn
<1>2. ASSUME NEW kind, Returning(kind), NEW out \in Seq(Cells), GoOnWith(out) PROVE GoesOn
  BY <1>2, GoesOnWith DEF Returning
<1>3. ASSUME NEW kind, Returning(kind), kind \notin Upward, NEW r, Leave(r) PROVE Leaves
  BY <1>3 DEF Returning, Leaves
<1>4. ASSUME NEW kind, Returning(kind) PROVE Top.out \in Seq(Cells) /\ Top.val \in Cells
  BY <1>4, TopFrame DEF Returning, Frame
<1>5. CASE ForEachReturn \/ IteratorNext \/ JoinReturn
  BY <1>1, <1>5 DEF ForEachReturn, IteratorNext, JoinReturn
<1>6. ASSUME NEW v \in Single, MapReturn(v) \/ ReduceReturn(v) \/ ReduceRightReturn(v)
      PROVE  GoesOn
  <2>1. v \in Cells
    BY ValuesAreCells
  <2>2. CASE MapReturn(v)
    <3>1. Returning("map") /\ GoOnWith([Top.out EXCEPT ![Top.k + 1] = v])
      BY <2>2 DEF MapReturn
    <3>2. [Top.out EXCEPT ![Top.k + 1] = v] \in Seq(Cells)
      <4>1. Top.out \in Seq(Cells)
        BY <1>4, <3>1
      <4>2. CASE Top.k + 1 \in 1..Len(Top.out)
        BY <2>1, <4>1, <4>2, ExceptSeq
      <4>3. CASE Top.k + 1 \notin DOMAIN Top.out
        <5>1. [Top.out EXCEPT ![Top.k + 1] = v] = Top.out
          BY <4>1, <4>3
        <5> QED
          BY <4>1, <5>1
      <4> QED
        BY <4>1, <4>2, <4>3
    <3> QED
      BY <1>2, <3>1, <3>2
  <2>3. CASE ReduceReturn(v) \/ ReduceRightReturn(v)
    <3>1. <<v>> \in Seq(Cells)
      BY <2>1
    <3> QED
      BY <1>2, <2>3, <3>1 DEF ReduceReturn, ReduceRightReturn
  <2> QED
    BY <1>6, <2>2, <2>3
<1>7. ASSUME NEW accepts \in BOOLEAN, EveryReturn(accepts) \/ SomeReturn(accepts)
                                      \/ FindReturn(accepts) \/ FindIndexReturn(accepts)
      PROVE  GoesOn \/ Leaves
  <2>1. \A kind \in {"every", "some", "find", "findIndex"} : kind \notin Upward
    BY DEF Upward, LiveLoops
  <2> QED
    BY <1>1, <1>3, <1>7, <2>1 DEF EveryReturn, SomeReturn, FindReturn, FindIndexReturn
<1>8. ASSUME NEW accepts \in BOOLEAN, FilterReturn(accepts) PROVE GoesOn
  <2>1. Returning("filter")
    BY <1>8 DEF FilterReturn
  <2> DEFINE out == IF accepts THEN Append(Top.out, Top.val) ELSE Top.out
  <2>2. out \in Seq(Cells)
    BY <1>4, <2>1
  <2>3. GoOnWith(out)
    BY <1>8 DEF FilterReturn
  <2> HIDE DEF out
  <2> QED
    BY <1>2, <2>1, <2>2, <2>3
<1> QED
  BY <1>5, <1>6, <1>7, <1>8

LEMMA NextIs ==
  ASSUME IInv, Next
  PROVE  Calls \/ Begins \/ GoesOn \/ Leaves
<1>1. Vals \subseteq Written /\ \A v \in Single : v \in Vals
  BY ValsWritten, ValuesAreCells
<1>2. ASSUME NEW i \in Indices, NEW v \in Single, Set(i, v) PROVE Calls
  BY <1>1, <1>2, CallsAreSound DEF Set, Do, Calls
<1>3. ASSUME NEW n \in Indices, Length(n) \/ Delete(n) \/ Own(n) PROVE Calls
  BY <1>3, CallsAreSound DEF Length, Delete, Own, Do, Calls
<1>4. ASSUME NEW vs \in Args, Push(vs) \/ Unshift(vs) \/ Concat(vs) PROVE Calls
  BY <1>4, CallsAreSound DEF Push, Unshift, Concat, Ask, Do, Calls
<1>18. ASSUME PushItself \/ UnshiftItself PROVE Calls
  BY <1>18, CallsAreSound DEF PushItself, UnshiftItself, Do, Calls
<1>5. ASSUME Pop \/ Shift \/ Reversal \/ From PROVE Calls
  BY <1>5, CallsAreSound DEF Pop, Shift, Reversal, From, Ask, Do, Calls
<1>6. ASSUME NEW v \in Single, NEW s \in Starts, NEW e \in Starts, Fill(v, s, e)
      PROVE  Calls
  BY <1>1, <1>6, CallsAreSound DEF Fill, Do, Calls
<1>7. ASSUME NEW s \in Starts, NEW n \in Counts, NEW vs \in Args, Splice(s, n, vs)
      PROVE  Calls
  <2>1. Running
    BY <1>7 DEF Splice, Do
  <2>2. arr.len \in Nat
    BY <2>1, RunningGood
  <2>3. Relative(arr, s) \in Int
    BY <2>2, ArgumentsAssumption DEF Relative
  <2>4. CutCount(arr, Relative(arr, s), n) \in Int
    BY <2>2, <2>3, ArgumentsAssumption DEF CutCount
  <2>5. Sound("splice", Spliced(arr, Relative(arr, s),
                                CutCount(arr, Relative(arr, s), n), vs))
    BY <2>1, <2>3, <2>4, CallsAreSound
  <2> QED
    BY <1>7, <2>5 DEF Splice, Calls
<1>8. ASSUME NEW s \in Starts, NEW e \in Starts, Slice(s, e) PROVE Calls
  <2>1. Running
    BY <1>8 DEF Slice, Do
  <2>2. Sound("slice", arr) /\ Sound("slice", Failed(arr, "bounds"))
    BY <2>1, CallsAreSound DEF Positional
  <2>3. \E b, r : b \in {arr, Failed(arr, "bounds")} /\ Do("slice", b, r)
    BY <1>8 DEF Slice
  <2> QED
    BY <2>2, <2>3 DEF Calls
<1>9. ASSUME NEW v \in Single, IndexOf(v) \/ \E k \in Starts : LastIndexOf(v, k)
      PROVE  Calls
  <2>1. \E method, r : Do(method, arr, r)
    BY <1>9 DEF IndexOf, LastIndexOf, Ask
  <2> QED
    BY <2>1, CallsAreSound DEF Do, Calls
<1>10. ASSUME NEW v \in Single, ReduceRightOfEmpty(v) PROVE Calls
  BY <1>10, CallsAreSound DEF ReduceRightOfEmpty, Ask, Do, Calls
<1>11. ASSUME ReduceAborts PROVE Calls
  BY <1>11, CallsAreSound DEF ReduceAborts, Do, Calls
<1>12. ASSUME NEW kind \in Kinds, LoopBegin(kind) PROVE Begins
  BY <1>12, BeginsIs
<1>13. ASSUME NEW v \in Single, ReduceBegin(v) PROVE Begins
  BY <1>13, BeginsIs
<1>14. ASSUME ReduceRightBegin PROVE Begins
  BY <1>14, BeginsIs
<1>15. ASSUME ForEachReturn \/ IteratorNext \/ JoinReturn PROVE GoesOn \/ Leaves
  BY <1>15, ReturnsAre
<1>16. ASSUME NEW v \in Single, MapReturn(v) \/ ReduceReturn(v) \/ ReduceRightReturn(v)
       PROVE  GoesOn \/ Leaves
  BY <1>16, ReturnsAre
<1>17. ASSUME NEW accepts \in BOOLEAN,
              \/ EveryReturn(accepts) \/ SomeReturn(accepts) \/ FindReturn(accepts)
              \/ FindIndexReturn(accepts) \/ FilterReturn(accepts)
       PROVE  GoesOn \/ Leaves
  BY <1>17, ReturnsAre
<1> QED
  BY <1>2, <1>3, <1>4, <1>5, <1>6, <1>7, <1>8, <1>9, <1>10, <1>11, <1>12, <1>13,
     <1>14, <1>15, <1>16, <1>17, <1>18, Zenon DEF Next

-----------------------------------------------------------------------------
\* The indices ahead of a loop, and the one it goes to.

LEMMA AheadInside ==
  ASSUME NEW f, Startable(f), arr.len \in 0..LoopLen, NEW k \in Ahead(arr, f)
  PROVE  /\ k \in 0..LoopLen
         /\ f.kind \notin LiveLoops => k < f.len
         /\ f.kind \notin LiveLoops \cup {"join"} => k < arr.len
<1>1. f.k \in Int /\ f.k >= -1 /\ f.len \in 0..LoopLen /\ LoopLen \in Nat
      /\ f.kind \in Kinds /\ (f.kind = "reduceRight" => f.k <= f.len)
  BY ArgumentsAssumption DEF Startable, FrameStart
<1>2. CASE f.kind \in LiveLoops
  BY <1>1, <1>2 DEF Ahead
<1>3. CASE f.kind = "join"
  BY <1>1, <1>3 DEF Ahead, LiveLoops
<1>4. CASE f.kind = "reduceRight"
  BY <1>1, <1>4 DEF Ahead, LiveLoops
<1>5. CASE f.kind \notin LiveLoops \cup {"join", "reduceRight"}
  BY <1>1, <1>5 DEF Ahead
<1> QED
  BY <1>2, <1>3, <1>4, <1>5

LEMMA NearestIsAhead ==
  ASSUME NEW f, Startable(f), arr.len \in 0..LoopLen, Ahead(arr, f) # {}
  PROVE  /\ Nearest(f, Ahead(arr, f)) \in Ahead(arr, f)
         /\ f.kind # "reduceRight" =>
              \A i \in Ahead(arr, f) : Nearest(f, Ahead(arr, f)) <= i
<1>1. Ahead(arr, f) \in SUBSET (0..LoopLen) /\ LoopLen \in Nat
  BY AheadInside, ArgumentsAssumption
<1> DEFINE is == Ahead(arr, f)
<1>2. CASE f.kind # "reduceRight"
  <2>1. is \in SUBSET Nat
    BY <1>1
  <2> HIDE DEF is
  <2>2. \E n \in is : \A m \in is : n <= m
    BY <2>1, LeastNatural DEF is
  <2> QED
    BY <1>2, <2>2 DEF Nearest, is
<1>3. CASE f.kind = "reduceRight"
  <2> DEFINE back == {LoopLen - i : i \in is}
  <2>1. back \in SUBSET Nat /\ back # {}
    BY <1>1
  <2> HIDE DEF back
  <2>2. PICK n \in back : \A m \in back : n <= m
    BY <2>1, LeastNatural
  <2>3. PICK i \in is : n = LoopLen - i
    BY <2>2 DEF back
  <2>4. ASSUME NEW j \in is PROVE j <= i
    <3>1. LoopLen - j \in back
      BY DEF back
    <3>2. LoopLen - i <= LoopLen - j
      BY <2>2, <2>3, <3>1
    <3>3. i \in 0..LoopLen /\ j \in 0..LoopLen
      BY <1>1
    <3> QED
      BY <1>1, <3>2, <3>3
  <2> HIDE DEF is
  <2> QED
    BY <1>3, <2>3, <2>4 DEF Nearest, is
<1> QED
  BY <1>2, <1>3

\* The frame of f at index k.
At(f, k) == [f EXCEPT !.k = k, !.val = Kept(f, Seen(arr.mem[k]))]

LEMMA FrameAt ==
  ASSUME NEW f, Startable(f), Good(arr), arr.len \in 0..LoopLen, NEW k \in Ahead(arr, f)
  PROVE  /\ At(f, k) \in Frame /\ At(f, k).k = k
         /\ At(f, k).kind = f.kind /\ At(f, k).len = f.len
<1>1. /\ k \in 0..LoopLen
      /\ f.kind \notin LiveLoops \cup {"join"} => k < arr.len
  BY AheadInside
<1>2. Kept(f, Seen(arr.mem[k])) \in Cells
  <2>1. CASE f.kind \in {"find", "filter"}
    <3>1. k < arr.len
      BY <1>1, <2>1 DEF LiveLoops
    <3>2. arr.mem[k] \in Cells
      BY <1>1, <3>1 DEF Good, Sized, Contained, Arrs
    <3> QED
      BY <2>1, <3>2, ValuesAreCells DEF Kept, Seen
  <2>2. CASE f.kind \notin {"find", "filter"}
    BY <2>2, ValuesAreCells DEF Kept
  <2> QED
    BY <2>1, <2>2
<1>3. f \in FrameStart
  BY DEF Startable
<1> QED
  BY <1>1, <1>2, <1>3 DEF At, FrameStart, Frame

\* What Continue does, with what it knows of the index it goes to.
LEMMA ContinueIs ==
  ASSUME NEW f, Startable(f), Good(arr), arr.len \in 0..LoopLen,
         NEW below, Continue(f, below)
  PROVE  \/ /\ UNCHANGED <<arr, culprit>>
            /\ \E k \in Ahead(arr, f) :
                 /\ frames' = Append(below, At(f, k))
                 /\ f.kind # "reduceRight" => \A i \in Ahead(arr, f) : k <= i
         \/ /\ Ahead(arr, f) = {} /\ frames' = below
            /\ \/ UNCHANGED <<arr, culprit>>
               \/ arr' = Failed(arr, "bounds") /\ culprit' = "join"
<1>1. CASE Ahead(arr, f) # {}
  BY <1>1, NearestIsAhead DEF Continue, At
<1>2. CASE Ahead(arr, f) = {}
  BY <1>2 DEF Continue
<1> QED
  BY <1>1, <1>2

\* The frames and the array after a loop went on, over frames that are in order.
LEMMA ContinueKeeps ==
  ASSUME NEW f, Startable(f), Good(arr), arr.len \in 0..LoopLen,
         NEW below \in Seq(Frame), Continue(f, below),
         \A d \in 1..Len(below) :
           below[d].kind \notin LiveLoops => below[d].k < below[d].len
  PROVE  IInv'
<1>1. CASE \E k \in Ahead(arr, f) : frames' = Append(below, At(f, k))
                                    /\ UNCHANGED <<arr, culprit>>
  <2>1. PICK k \in Ahead(arr, f) : frames' = Append(below, At(f, k)) /\ arr' = arr
    BY <1>1
  <2>2. At(f, k) \in Frame /\ At(f, k).k = k /\ At(f, k).kind = f.kind
        /\ At(f, k).len = f.len
    BY FrameAt
  <2>3. At(f, k).kind \notin LiveLoops => At(f, k).k < At(f, k).len
    BY <2>2, AheadInside
  <2>4. frames' \in Seq(Frame)
    BY <2>1, <2>2
  <2>5. ASSUME NEW d \in 1..Len(frames')
        PROVE  frames'[d].kind \notin LiveLoops => frames'[d].k < frames'[d].len
    <3>1. CASE d = Len(below) + 1
      BY <2>1, <2>2, <2>3, <3>1
    <3>2. CASE d \in 1..Len(below)
      BY <2>1, <2>2, <3>2
    <3> QED
      BY <2>1, <2>2, <3>1, <3>2
  <2>6. FramesOK'
    BY <2>1, <2>4, <2>5 DEF FramesOK
  <2>7. ArrayOK'
    BY <2>1 DEF ArrayOK, Good, Sized, Contained
  <2> QED
    BY <2>6, <2>7 DEF IInv
<1>2. CASE frames' = below /\ (UNCHANGED <<arr, culprit>>
                               \/ arr' = Failed(arr, "bounds"))
  <2>1. Good(arr') /\ arr'.len = arr.len
    BY <1>2, FailedGood DEF Faults
  <2>2. FramesOK'
    BY <1>2, <2>1 DEF FramesOK
  <2> QED
    BY <2>1, <2>2 DEF IInv, ArrayOK, Good, Sized, Contained
<1>3. \/ UNCHANGED <<arr, culprit>>
         /\ \E k \in Ahead(arr, f) : frames' = Append(below, At(f, k))
      \/ /\ frames' = below
         /\ \/ UNCHANGED <<arr, culprit>>
            \/ arr' = Failed(arr, "bounds")
  BY ContinueIs
<1> QED
  BY <1>1, <1>2, <1>3

LEMMA CallsKeep ==
  ASSUME IInv, Calls
  PROVE  IInv'
<1>1. PICK method, b, r : Do(method, b, r) /\ Sound(method, b)
  BY DEF Calls
<1>2. Running /\ frames' = frames
      /\ b.len <= IF frames = <<>> THEN MaxLen ELSE LoopLen
  BY <1>1 DEF Do
<1>3. Good(arr) /\ arr.fault = "none" /\ arr.len \in Nat
  BY <1>2, RunningGood
<1>4. ArrayOK' /\ (arr'.len = b.len \/ arr'.len = arr.len \/ arr'.len = -1)
  <2>1. CASE b.fault = "none"
    <3>1. arr' = b
      BY <1>1, <2>1 DEF Do
    <3>2. Good(b)
      BY <1>1, <2>1 DEF Sound
    <3> QED
      BY <3>1, <3>2 DEF ArrayOK, Good, Sized, Contained
  <2>2. CASE b.fault # "none" /\ Good(b)
    <3>1. b.len \in Nat /\ b.fault \in Faults
      BY <2>2 DEF Good, Sized, Arrs
    <3>2. arr' = [arr EXCEPT !.fault = b.fault, !.len = arr.len]
      <4>1. arr' = [arr EXCEPT !.fault = b.fault,
                               !.len = IF b.len < 0 THEN -1 ELSE arr.len]
        BY <1>1, <2>2 DEF Do
      <4>2. (IF b.len < 0 THEN -1 ELSE arr.len) = arr.len
        BY <3>1
      <4> QED
        BY <4>1, <4>2
    <3>3. arr' \in Arrs /\ arr'.len = arr.len /\ arr'.alloc = arr.alloc
          /\ arr'.mem = arr.mem
      BY <1>3, <3>1, <3>2 DEF Good, Sized, Arrs
    <3> QED
      BY <1>3, <3>3 DEF ArrayOK, Good, Sized, Contained
  <2>3. CASE b.fault = "length" /\ b.len = -1
    <3>1. arr' = [arr EXCEPT !.fault = "length", !.len = -1]
      BY <1>1, <2>3 DEF Do
    <3>2. arr' \in Arrs /\ arr'.len = -1 /\ arr'.alloc = arr.alloc
          /\ arr'.mem = arr.mem /\ arr'.fault = "length"
      <4>1. arr \in Arrs /\ -1 \in Int /\ "length" \in Faults
        BY <1>3 DEF Good, Sized, Faults
      <4> QED
        BY <3>1, <4>1 DEF Arrs
    <3>3. [arr' EXCEPT !.len = 0].len = 0 /\ [arr' EXCEPT !.len = 0].mem = arr.mem
          /\ [arr' EXCEPT !.len = 0].alloc = arr.alloc /\ [arr' EXCEPT !.len = 0] \in Arrs
      BY <3>2 DEF Arrs
    <3>4. Sized([arr' EXCEPT !.len = 0])
      BY <1>3, <3>3 DEF Good, Sized
    <3> QED
      BY <3>2, <3>4 DEF ArrayOK
  <2> QED
    BY <1>1, <2>1, <2>2, <2>3 DEF Sound
<1>5. FramesOK'
  BY <1>2, <1>4, ArgumentsAssumption DEF IInv, FramesOK
<1> QED
  BY <1>4, <1>5 DEF IInv

\* A loop that goes on may be started where it stands.
LEMMA GoesOnIs ==
  ASSUME IInv, GoesOn
  PROVE  \E f \in FrameStart :
           /\ Startable(f) /\ Good(arr) /\ arr.len \in 0..LoopLen /\ frames # <<>>
           /\ f.kind = Top.kind /\ f.k = Top.k /\ f.len = Top.len
           /\ Continue(f, Below)
<1>1. PICK f \in FrameStart :
        /\ Running /\ frames # <<>>
        /\ f.kind = Top.kind /\ f.k = Top.k /\ f.len = Top.len
        /\ Continue(f, Below)
  BY DEF GoesOn
<1>2. Top \in Frame /\ arr.len <= LoopLen
      /\ (Top.kind \notin LiveLoops => Top.k < Top.len)
  BY <1>1, TopFrame
<1>3. Startable(f)
  BY <1>1, <1>2, ArgumentsAssumption DEF Startable, Frame, LiveLoops
<1>4. Good(arr) /\ arr.len \in 0..LoopLen
  BY <1>1, <1>2, RunningGood, ArgumentsAssumption
<1> QED
  BY <1>1, <1>3, <1>4

LEMMA BeginsIsStartable ==
  ASSUME IInv, Begins
  PROVE  \E f \in FrameStart :
           /\ Startable(f) /\ Good(arr) /\ arr.len \in 0..LoopLen
           /\ f.kind \in Upward => f.k = -1
           /\ Continue(f, frames)
  BY RunningGood, ArgumentsAssumption DEF Begins

LEMMA NextKeeps ==
  ASSUME IInv, [Next]_vars
  PROVE  IInv'
<1>1. CASE Calls
  BY <1>1, CallsKeep
<1>2. CASE Begins
  <2>1. /\ frames \in Seq(Frame)
        /\ \A d \in 1..Len(frames) :
             frames[d].kind \notin LiveLoops => frames[d].k < frames[d].len
    BY DEF IInv, FramesOK
  <2> QED
    BY <1>2, <2>1, BeginsIsStartable, ContinueKeeps
<1>3. CASE GoesOn
  <2>1. frames # <<>>
    BY <1>3 DEF GoesOn
  <2>2. Below \in Seq(Frame) /\ Len(Below) = Len(frames) - 1
        /\ \A d \in 1..Len(Below) : Below[d] = frames[d]
    BY <2>1, TopFrame
  <2>3. \A d \in 1..Len(Below) :
          Below[d].kind \notin LiveLoops => Below[d].k < Below[d].len
    BY <2>2 DEF IInv, FramesOK
  <2> QED
    BY <1>3, <2>2, <2>3, GoesOnIs, ContinueKeeps
<1>4. CASE Leaves
  <2>1. frames # <<>> /\ frames' = Below /\ arr' = arr
    BY <1>4 DEF Leaves, Leave
  <2>2. Below \in Seq(Frame) /\ Len(Below) = Len(frames) - 1 /\ arr.len <= LoopLen
        /\ \A d \in 1..Len(Below) : Below[d] = frames[d]
    BY <2>1, TopFrame
  <2>3. \A d \in 1..Len(Below) :
          Below[d].kind \notin LiveLoops => Below[d].k < Below[d].len
    BY <2>2 DEF IInv, FramesOK
  <2>4. FramesOK'
    BY <2>1, <2>2, <2>3 DEF FramesOK
  <2>5. ArrayOK'
    BY <2>1 DEF IInv, ArrayOK, Good, Sized, Contained
  <2> QED
    BY <2>4, <2>5 DEF IInv
<1>5. CASE UNCHANGED vars
  BY <1>5 DEF vars, IInv, ArrayOK, FramesOK, Good, Sized, Contained
<1> QED
  BY <1>1, <1>2, <1>3, <1>4, <1>5, NextIs

LEMMA Invariance == Spec => []IInv
  BY InitIInv, NextKeeps, PTL DEF Spec

LEMMA IInvImplies == IInv => ArrayInv
<1> SUFFICES ASSUME IInv PROVE ArrayInv
  OBVIOUS
<1>1. WellFormed([arr EXCEPT !.len = IF @ < 0 THEN 0 ELSE @])
  <2>1. CASE Good(arr)
    <3>1. arr.len \in Nat /\ arr \in Arrs
      BY <2>1 DEF Good, Sized
    <3>2. [arr EXCEPT !.len = IF @ < 0 THEN 0 ELSE @] = arr
      BY <3>1 DEF Arrs
    <3> QED
      BY <2>1, <3>2 DEF Good, Sized, Arrs, WellFormed, Faults
  <2>2. CASE ~Good(arr)
    <3>1. Sized([arr EXCEPT !.len = 0]) /\ arr.len = -1
      BY <2>2 DEF IInv, ArrayOK
    <3>2. [arr EXCEPT !.len = IF @ < 0 THEN 0 ELSE @] = [arr EXCEPT !.len = 0]
      BY <3>1
    <3> QED
      BY <3>1, <3>2 DEF Sized, Arrs, WellFormed, Faults
  <2> QED
    BY <2>1, <2>2
<1>2. \A d \in DOMAIN frames : frames[d].kind \in Kinds /\ frames[d].k \in 0..MaxLen
  <2>1. \A d \in DOMAIN frames : frames[d] \in Frame
    BY DEF IInv, FramesOK
  <2>2. \A i \in 0..LoopLen : i \in 0..MaxLen
    BY ArgumentsAssumption
  <2>3. \A d \in DOMAIN frames : frames[d].kind \in Kinds /\ frames[d].k \in 0..LoopLen
    BY <2>1 DEF Frame
  <2> QED
    BY <2>2, <2>3
<1>3. ElementsAreWritten
  BY RunningGood DEF ElementsAreWritten, Good
<1> QED
  BY <1>1, <1>2, <1>3 DEF ArrayInv, TypeOK

(***************************************************************************)
(* Whatever calls and callbacks come in whatever order, as long as the     *)
(* process is well the elements of the array are in its block, and none is *)
(* memory nobody wrote.                                                    *)
(***************************************************************************)
THEOREM ElementsStayInside == Spec => []ArrayInv
  BY Invariance, IInvImplies, PTL

\* What OnlyPositionsOrItselfFail says of a step.
Astray ==
  /\ arr'.fault = "bounds" => culprit' \in Positional
  /\ arr'.fault = "freed" => culprit' \in Itself /\ arr.len + arr.len > arr.alloc

(***************************************************************************)
(* Only a method that names a position, or a join whose array shrank under *)
(* it, leaves the block, and only an array pushed or unshifted onto itself *)
(* reads the block it has freed.                                           *)
(***************************************************************************)
THEOREM OnlyPositionsOrItselfGoAstray == Spec => OnlyPositionsOrItselfFail
<1>1. ASSUME IInv, Next PROVE Astray
  <2>1. CASE Calls
    <3>1. PICK method, b, r : Do(method, b, r) /\ Sound(method, b)
      BY <2>1 DEF Calls
    <3>2. Good(arr) /\ arr.fault = "none"
      <4>1. Running
        BY <3>1 DEF Do
      <4> QED
        BY <1>1, <4>1, RunningGood
    <3>3. CASE b.fault = "none"
      BY <3>1, <3>3 DEF Do, Astray
    <3>4. CASE b.fault # "none"
      <4>1. culprit' = method
            /\ arr' = [arr EXCEPT !.fault = b.fault,
                                  !.len = IF b.len < 0 THEN -1 ELSE arr.len]
        BY <3>1, <3>4 DEF Do
      <4>2. arr'.fault = b.fault
        BY <3>2, <4>1 DEF Good, Sized, Arrs
      <4> QED
        BY <3>1, <4>1, <4>2 DEF Sound, Astray
    <3> QED
      BY <3>3, <3>4
  <2>2. ASSUME NEW f, NEW below, Startable(f), Good(arr), arr.len \in 0..LoopLen,
               Continue(f, below), arr.fault = "none"
        PROVE  Astray
    <3>1. UNCHANGED arr \/ (culprit' = "join" /\ arr' = Failed(arr, "bounds"))
      BY <2>2, ContinueIs
    <3>2. Failed(arr, "bounds").fault = "bounds"
      BY <2>2, FailedGood DEF Faults
    <3> QED
      BY <2>2, <3>1, <3>2 DEF Positional, Astray
  <2>3. CASE Begins
    <3>1. arr.fault = "none"
      BY <2>3 DEF Begins, Running
    <3>2. PICK f \in FrameStart : Startable(f) /\ Good(arr) /\ arr.len \in 0..LoopLen
                                  /\ Continue(f, frames)
      BY <1>1, <2>3, BeginsIsStartable
    <3> QED
      BY <2>2, <3>1, <3>2
  <2>4. CASE GoesOn
    <3>1. arr.fault = "none"
      BY <2>4 DEF GoesOn, Running
    <3>2. PICK f \in FrameStart : Startable(f) /\ Good(arr) /\ arr.len \in 0..LoopLen
                                  /\ Continue(f, Below)
      BY <1>1, <2>4, GoesOnIs
    <3> QED
      BY <2>2, <3>1, <3>2
  <2>5. CASE Leaves
    BY <2>5 DEF Leaves, Leave, Running, Astray
  <2> QED
    BY <1>1, <2>1, <2>3, <2>4, <2>5, NextIs
<1>2. IInv /\ [Next]_vars => [Astray]_vars
  BY <1>1
<1>3. OnlyPositionsOrItselfFail <=> [][Astray]_vars
  BY PTL DEF OnlyPositionsOrItselfFail, Astray, Positional, Itself
<1> QED
  BY <1>2, <1>3, Invariance, PTL DEF Spec

\* What LoopsSeeWhatIsThere says of a step.
SeesWhatIsThere ==
  frames' # frames =>
    /\ \A d \in DOMAIN frames' :
         (d \in DOMAIN frames => frames[d] # frames'[d]) => StaysWithin(frames'[d])
    /\ SkipsNothing

\* Nothing that a loop reaches lies between the index it leaves and the nearest.
LEMMA NothingBetween ==
  ASSUME NEW f, Startable(f), arr.len \in 0..LoopLen, f.kind \in Upward,
         NEW goes \in Int, \A i \in Ahead(arr, f) : goes <= i,
         NEW i \in (f.k + 1)..(goes - 1), i < arr.len
  PROVE  f.kind \notin LiveLoops /\ i >= f.len
<1>1. i \notin Ahead(arr, f) /\ f.k \in Int /\ f.len \in Int /\ i \in Int /\ f.k < i
      /\ arr.len \in Int
  BY DEF Startable, FrameStart
<1>2. CASE f.kind \in LiveLoops
  <2>1. Ahead(arr, f) = (f.k + 1)..(arr.len - 1)
    BY <1>2, <1>1 DEF Ahead, LiveLoops
  <2>2. i \in (f.k + 1)..(arr.len - 1)
    BY <1>1
  <2> QED
    BY <1>1, <2>1, <2>2
<1>3. CASE f.kind \in {"map", "filter", "reduce"}
  BY <1>1, <1>3 DEF Ahead, LiveLoops
<1> QED
  BY <1>2, <1>3 DEF Upward

LEMMA BeginsSees == IInv /\ Begins => SeesWhatIsThere
<1> SUFFICES ASSUME IInv, Begins, frames' # frames PROVE SeesWhatIsThere
  BY DEF SeesWhatIsThere
<1>1. PICK f \in FrameStart :
        /\ Startable(f) /\ Good(arr) /\ arr.len \in 0..LoopLen
        /\ f.kind \in Upward => f.k = -1
        /\ Continue(f, frames)
  BY BeginsIsStartable
<1>2. PICK k \in Ahead(arr, f) :
        /\ frames' = Append(frames, At(f, k))
        /\ f.kind # "reduceRight" => \A i \in Ahead(arr, f) : k <= i
  BY <1>1, ContinueIs
<1>3. At(f, k).k = k /\ At(f, k).kind = f.kind /\ At(f, k).len = f.len /\ k \in 0..LoopLen
  BY <1>1, FrameAt, AheadInside
<1>4. /\ frames \in Seq(Frame) /\ Len(frames) \in Nat /\ Len(frames') = Len(frames) + 1
      /\ frames'[Len(frames) + 1] = At(f, k)
      /\ DOMAIN frames' = 1..(Len(frames) + 1) /\ DOMAIN frames = 1..Len(frames)
      /\ \A d \in 1..Len(frames) : frames'[d] = frames[d]
  <2>1. frames \in Seq(Frame)
    BY DEF IInv, FramesOK
  <2> QED
    BY <1>1, <1>2, <2>1, FrameAt
<1>5. StaysWithin(At(f, k))
  BY <1>1, <1>3, AheadInside DEF StaysWithin
<1>6. SkipsNothing
  <2>1. SUFFICES ASSUME At(f, k).kind \in Upward,
                        NEW i \in (-1 + 1)..(k - 1), i < arr.len
                 PROVE  At(f, k).kind \notin LiveLoops /\ i >= At(f, k).len
    BY <1>3, <1>4 DEF SkipsNothing, Upward
  <2>2. f.k = -1 /\ f.kind \in Upward /\ f.kind # "reduceRight"
    BY <1>1, <1>3, <2>1 DEF Upward, LiveLoops
  <2>3. k \in Int /\ i \in (f.k + 1)..(k - 1) /\ \A j \in Ahead(arr, f) : k <= j
    BY <1>2, <1>3, <2>1, <2>2, ArgumentsAssumption
  <2>4. f.kind \notin LiveLoops /\ i >= f.len
    BY <1>1, <2>1, <2>2, <2>3, NothingBetween
  <2> QED
    BY <1>3, <2>4
<1> QED
  BY <1>4, <1>5, <1>6 DEF SeesWhatIsThere

LEMMA GoesOnSees == IInv /\ GoesOn => SeesWhatIsThere
<1> SUFFICES ASSUME IInv, GoesOn, frames' # frames PROVE SeesWhatIsThere
  BY DEF SeesWhatIsThere
<1>1. PICK f \in FrameStart :
        /\ Startable(f) /\ Good(arr) /\ arr.len \in 0..LoopLen /\ frames # <<>>
        /\ f.kind = Top.kind /\ f.k = Top.k /\ f.len = Top.len
        /\ Continue(f, Below)
  BY GoesOnIs
<1>2. /\ Below \in Seq(Frame) /\ Len(frames) \in Nat \ {0}
      /\ Len(Below) = Len(frames) - 1
      /\ \A d \in 1..Len(Below) : Below[d] = frames[d]
  BY <1>1, TopFrame
<1>3. \/ \E k \in Ahead(arr, f) :
           /\ frames' = Append(Below, At(f, k))
           /\ f.kind # "reduceRight" => \A i \in Ahead(arr, f) : k <= i
      \/ Ahead(arr, f) = {} /\ frames' = Below
  BY <1>1, ContinueIs
<1>4. CASE \E k \in Ahead(arr, f) :
             /\ frames' = Append(Below, At(f, k))
             /\ f.kind # "reduceRight" => \A i \in Ahead(arr, f) : k <= i
  <2>1. PICK k \in Ahead(arr, f) :
          /\ frames' = Append(Below, At(f, k))
          /\ f.kind # "reduceRight" => \A i \in Ahead(arr, f) : k <= i
    BY <1>4
  <2>2. At(f, k) \in Frame /\ At(f, k).k = k /\ At(f, k).kind = f.kind
        /\ At(f, k).len = f.len /\ k \in 0..LoopLen
    BY <1>1, FrameAt, AheadInside
  <2>3. /\ Len(frames') = Len(frames) /\ frames'[Len(frames)] = At(f, k)
        /\ DOMAIN frames' = 1..Len(frames)
        /\ \A d \in 1..(Len(frames) - 1) : frames'[d] = frames[d]
    BY <1>2, <2>1, <2>2
  <2>4. StaysWithin(At(f, k))
    BY <1>1, <2>2, AheadInside DEF StaysWithin
  <2>5. SkipsNothing
    <3>1. SUFFICES ASSUME Top.kind \in Upward,
                          NEW i \in (Top.k + 1)..(k - 1), i < arr.len
                   PROVE  Top.kind \notin LiveLoops /\ i >= Top.len
      BY <1>2, <2>2, <2>3 DEF SkipsNothing, Upward
    <3>2. f.kind \in Upward /\ f.kind # "reduceRight"
      BY <1>1, <3>1 DEF Upward, LiveLoops
    <3>3. k \in Int /\ i \in (f.k + 1)..(k - 1) /\ \A j \in Ahead(arr, f) : k <= j
      BY <1>1, <2>1, <2>2, <3>1, <3>2, ArgumentsAssumption
    <3>4. f.kind \notin LiveLoops /\ i >= f.len
      BY <1>1, <3>1, <3>2, <3>3, NothingBetween
    <3> QED
      BY <1>1, <3>4
  <2>6. ASSUME NEW d \in DOMAIN frames', d \in DOMAIN frames => frames[d] # frames'[d]
        PROVE  StaysWithin(frames'[d])
    <3>1. d \in 1..Len(frames) /\ (d = Len(frames) \/ d \in 1..(Len(frames) - 1))
      BY <1>2, <2>3
    <3>2. DOMAIN frames = 1..Len(frames)
      BY DEF IInv, FramesOK
    <3> QED
      BY <2>3, <2>4, <2>6, <3>1, <3>2
  <2> QED
    BY <2>5, <2>6 DEF SeesWhatIsThere
<1>5. CASE Ahead(arr, f) = {} /\ frames' = Below
  <2>1. Len(frames') < Len(frames) /\ ~(Len(frames') > Len(frames))
    BY <1>2, <1>5
  <2>2. SkipsNothing
    <3>1. SUFFICES ASSUME Top.kind \in Upward,
                          NEW i \in (Top.k + 1)..(arr.len - 1), i < arr.len
                   PROVE  Top.kind \notin LiveLoops /\ i >= Top.len
      BY <2>1 DEF SkipsNothing, Upward
    <3>2. f.kind \in Upward /\ i \in (f.k + 1)..(arr.len - 1) /\ arr.len \in Int
          /\ \A j \in Ahead(arr, f) : arr.len <= j
      BY <1>1, <1>5, <3>1, ArgumentsAssumption
    <3>3. f.kind \notin LiveLoops /\ i >= f.len
      BY <1>1, <3>1, <3>2, NothingBetween
    <3> QED
      BY <1>1, <3>3
  <2>3. ASSUME NEW d \in DOMAIN frames', d \in DOMAIN frames => frames[d] # frames'[d]
        PROVE  StaysWithin(frames'[d])
    <3>1. d \in 1..Len(Below) /\ d \in 1..Len(frames)
      BY <1>2, <1>5
    <3>2. DOMAIN frames = 1..Len(frames)
      BY DEF IInv, FramesOK
    <3> QED
      BY <1>2, <1>5, <2>3, <3>1, <3>2
  <2> QED
    BY <2>2, <2>3 DEF SeesWhatIsThere
<1> QED
  BY <1>3, <1>4, <1>5

LEMMA LeavesSees == IInv /\ Leaves => SeesWhatIsThere
<1> SUFFICES ASSUME IInv, Leaves PROVE SeesWhatIsThere
  OBVIOUS
<1>1. frames # <<>> /\ frames' = Below /\ Top.kind \notin Upward
  BY DEF Leaves, Leave
<1>2. /\ Below \in Seq(Frame) /\ Len(frames) \in Nat \ {0}
      /\ Len(Below) = Len(frames) - 1
      /\ \A d \in 1..Len(Below) : Below[d] = frames[d]
  BY <1>1, TopFrame
<1>3. SkipsNothing
  <2>1. ~(Len(frames') > Len(frames))
    BY <1>1, <1>2
  <2> QED
    BY <1>1, <2>1 DEF SkipsNothing, Upward
<1>4. \A d \in DOMAIN frames' : d \in DOMAIN frames /\ frames[d] = frames'[d]
  <2>1. DOMAIN frames = 1..Len(frames)
    BY DEF IInv, FramesOK
  <2> QED
    BY <1>1, <1>2, <2>1
<1> QED
  BY <1>3, <1>4 DEF SeesWhatIsThere

(***************************************************************************)
(* However its callbacks change the array, a loop is called back only for  *)
(* what is there, and passes over nothing it should have seen.             *)
(***************************************************************************)
THEOREM LoopsSee == Spec => LoopsSeeWhatIsThere
<1>1. ASSUME IInv, Next PROVE SeesWhatIsThere
  <2>1. CASE Calls
    BY <2>1 DEF Calls, Do, SeesWhatIsThere
  <2> QED
    BY <1>1, <2>1, NextIs, BeginsSees, GoesOnSees, LeavesSees
<1>2. IInv /\ [Next]_vars => [SeesWhatIsThere]_vars
  BY <1>1
<1>3. LoopsSeeWhatIsThere <=> [][SeesWhatIsThere]_vars
  BY PTL DEF LoopsSeeWhatIsThere, SeesWhatIsThere
<1> QED
  BY <1>2, <1>3, Invariance, PTL DEF Spec

-----------------------------------------------------------------------------
(***************************************************************************)
(* What a program sees of an array: its length, and what [[Get]] answers   *)
(* of an index.                                                            *)
(***************************************************************************)
LEMMA SeenOnce ==
  /\ \A x : Seen(Seen(x)) = Seen(x)
  /\ \A v \in Vals : Seen(v) = v
  /\ Seen(Hole) = Undef /\ Seen(Undef) = Undef
  BY ArrayAssumption DEF Seen

LEMMA ReadIsSeen ==
  ASSUME NEW a, Good(a), NEW j \in Int
  PROVE  /\ Read(a, j) = IF 0 <= j /\ j < a.len THEN Seen(a.mem[j]) ELSE Undef
         /\ Seen(Read(a, j)) = Read(a, j)
<1>1. a.len \in Nat
  BY DEF Good, Sized
<1>2. Read(a, j) = IF 0 <= j /\ j < a.len THEN Seen(a.mem[j]) ELSE Undef
  BY <1>1 DEF Read, Present
<1> QED
  BY <1>2, SeenOnce

LEMMA GrowReads ==
  ASSUME NEW a, Good(a), NEW amount \in Nat
  PROVE  \A j \in 0..(a.len - 1) : Grow(a, amount).mem[j] = a.mem[j]
<1>1. CASE a.len + amount <= a.alloc
  BY <1>1 DEF Grow
<1>2. CASE ~(a.len + amount <= a.alloc)
  <2> DEFINE n == a.len + amount + Slack
  <2>1. Grow(a, amount).mem = [i \in 0..(n - 1) |-> IF i < a.len THEN a.mem[i] ELSE Garbage]
    BY <1>2 DEF Grow, Array, Block
  <2>2. a.len \in Nat /\ n \in Nat /\ a.len <= n
    BY ArrayAssumption DEF Good, Sized
  <2> HIDE DEF n
  <2> QED
    BY <2>1, <2>2
<1> QED
  BY <1>1, <1>2

\* The block a store is made to.
LEMMA GrowForGood ==
  ASSUME NEW a, Good(a), a.fault = "none", NEW index \in Int
  PROVE  LET b == GrowFor(a, index)
         IN  /\ Good(b) /\ b.len = a.len /\ b.fault = "none"
             /\ \A j \in 0..(a.len - 1) : b.mem[j] = a.mem[j]
             /\ index <= a.len => index < b.alloc
<1>0. a.len \in Nat /\ a.alloc \in Nat /\ a.len <= a.alloc
  BY DEF Good, Sized, Arrs, Contained
<1>1. CASE index >= a.alloc
  <2> DEFINE more == index - a.alloc + 1
  <2>1. more \in Nat /\ (index <= a.len => index < a.len + more)
    BY <1>0, <1>1
  <2>2. GrowFor(a, index) = Grow(a, more)
    BY <1>1 DEF GrowFor
  <2> HIDE DEF more
  <2>3. /\ Good(Grow(a, more)) /\ Grow(a, more).len = a.len
        /\ Grow(a, more).fault = "none" /\ a.len + more <= Grow(a, more).alloc
        /\ \A j \in 0..(a.len - 1) : Grow(a, more).mem[j] = a.mem[j]
    BY <2>1, GrowGood, GrowReads
  <2>4. Grow(a, more).alloc \in Nat /\ more \in Nat
    BY <2>1, <2>3 DEF Good, Sized, Arrs
  <2>5. index <= a.len => index < Grow(a, more).alloc
    BY <1>0, <2>1, <2>3, <2>4
  <2> QED
    BY <2>2, <2>3, <2>5
<1>2. CASE ~(index >= a.alloc)
  BY <1>0, <1>2 DEF GrowFor
<1> QED
  BY <1>1, <1>2

LEMMA StoreReads ==
  ASSUME NEW a, Good(a), a.fault = "none", NEW index \in Int, NEW v \in Written
  PROVE  /\ index \in 0..a.len => Store(a, index, v).fault = "none"
         /\ Store(a, index, v).fault = "none" =>
              /\ index >= 0
              /\ Store(a, index, v).len = IF index >= a.len THEN index + 1 ELSE a.len
              /\ \A j \in Int : Read(Store(a, index, v), j) =
                                  IF j = index THEN Seen(v) ELSE Read(a, j)
<1> DEFINE b == GrowFor(a, index)
<1>1. Good(b) /\ b.len = a.len /\ b.fault = "none"
      /\ (\A j \in 0..(a.len - 1) : b.mem[j] = a.mem[j])
      /\ (index <= a.len => index < b.alloc)
  BY GrowForGood
<1>2. b.len \in Nat /\ b.alloc \in Nat /\ b.len <= b.alloc /\ a.len \in Nat
  BY <1>1 DEF Good, Sized, Arrs, Contained
<1>3. CASE index \notin 0..(b.alloc - 1)
  <2>1. Store(a, index, v) = Failed(a, "bounds")
    BY <1>3 DEF Store
  <2>2. Store(a, index, v).fault = "bounds"
    BY <2>1, FailedGood DEF Faults
  <2> QED
    BY <1>1, <1>2, <1>3, <2>2
<1>4. CASE index \in 0..(b.alloc - 1)
  <2> DEFINE c == Paint(b, b.len, index, Hole)
             d == Paint(c, index, index + 1, v)
             n == IF index >= b.len THEN index + 1 ELSE b.len
             e == [d EXCEPT !.len = n]
  <2>0. Hole \in Cells /\ v \in Cells
    BY DEF Cells, Written
  <2>1. /\ Sized(c) /\ c.alloc = b.alloc /\ c.fault = b.fault
        /\ \A i \in 0..(b.alloc - 1) :
             c.mem[i] = IF b.len <= i /\ i < index THEN Hole ELSE b.mem[i]
    BY <1>1, <1>2, <1>4, <2>0, PaintSized DEF Good
  <2>2. /\ Sized(d) /\ d.alloc = c.alloc /\ d.fault = c.fault
        /\ \A i \in 0..(c.alloc - 1) :
             d.mem[i] = IF index <= i /\ i < index + 1 THEN v ELSE c.mem[i]
    <3> HIDE DEF b, c
    <3>1. index + 1 \in Int
      OBVIOUS
    <3> QED
      BY <2>0, <2>1, <3>1, PaintSized
  <2>3. Store(a, index, v) = e
    BY <1>4 DEF Store
  <2>4. n \in Nat /\ n <= b.alloc /\ index < n
        /\ n = (IF index >= a.len THEN index + 1 ELSE a.len)
    BY <1>1, <1>2, <1>4
  <2> HIDE DEF d, n
  <2>5. e.fault = "none" /\ e.len = n /\ e.mem = d.mem
    BY <1>1, <2>1, <2>2, <2>4, LenSized
  <2> HIDE DEF e
  <2>6. ASSUME NEW j \in Int
        PROVE  Read(e, j) = IF j = index THEN Seen(v) ELSE Read(a, j)
    <3>1. Good(e)
      BY <2>3, <2>5, StoreGood
    <3>2. Read(e, j) = IF 0 <= j /\ j < n THEN Seen(d.mem[j]) ELSE Undef
      BY <2>5, <3>1, ReadIsSeen
    <3>3. Read(a, j) = IF 0 <= j /\ j < a.len THEN Seen(a.mem[j]) ELSE Undef
      BY ReadIsSeen
    <3>4. CASE j = index
      <4>1. d.mem[j] = v
        BY <1>4, <2>1, <2>2, <3>4
      <4> QED
        BY <1>4, <2>4, <3>2, <3>4, <4>1
    <3>5. CASE j # index /\ 0 <= j /\ j < n
      <4>1. j \in 0..(b.alloc - 1)
        BY <1>2, <2>4, <3>5
      <4>2. d.mem[j] = IF b.len <= j /\ j < index THEN Hole ELSE b.mem[j]
        BY <1>4, <2>1, <2>2, <3>5, <4>1
      <4>3. CASE j < a.len
        <5>1. d.mem[j] = b.mem[j] /\ b.mem[j] = a.mem[j]
          BY <1>1, <1>2, <3>5, <4>2, <4>3
        <5> QED
          BY <3>2, <3>3, <3>5, <4>3, <5>1
      <4>4. CASE ~(j < a.len)
        <5>1. d.mem[j] = Hole
          BY <1>1, <1>2, <1>4, <2>4, <3>5, <4>2, <4>4
        <5> QED
          BY <3>2, <3>3, <3>5, <4>4, <5>1, SeenOnce
      <4> QED
        BY <4>3, <4>4
    <3>6. CASE j # index /\ ~(0 <= j /\ j < n)
      <4>1. ~(0 <= j /\ j < a.len)
        BY <1>2, <1>4, <2>4, <3>6
      <4> QED
        BY <3>2, <3>3, <3>6, <4>1
    <3> QED
      BY <3>4, <3>5, <3>6
  <2> QED
    BY <1>4, <2>3, <2>4, <2>5, <2>6
<1> QED
  BY <1>3, <1>4

LEMMA EraseReads ==
  ASSUME NEW a, Good(a), NEW index \in Int
  PROVE  /\ Erase(a, index).len = a.len
         /\ \A j \in Int : Read(Erase(a, index), j) =
                             IF j = index THEN Undef ELSE Read(a, j)
<1>0. a.len \in Nat /\ a.alloc \in Nat /\ a.len <= a.alloc /\ Hole \in Cells
      /\ index + 1 \in Int
  BY DEF Good, Sized, Arrs, Contained, Cells
<1>1. CASE Present(a, index)
  <2> DEFINE b == Paint(a, index, index + 1, Hole)
  <2>1. /\ b.len = a.len
        /\ \A i \in 0..(a.alloc - 1) :
             b.mem[i] = IF index <= i /\ i < index + 1 THEN Hole ELSE a.mem[i]
    BY <1>0, PaintSized DEF Good
  <2>2. Erase(a, index) = b
    BY <1>1 DEF Erase
  <2>3. Good(b)
    BY <2>2, EraseGood
  <2> HIDE DEF b
  <2>4. ASSUME NEW j \in Int
        PROVE  Read(b, j) = IF j = index THEN Undef ELSE Read(a, j)
    <3>1. /\ Read(b, j) = IF 0 <= j /\ j < a.len THEN Seen(b.mem[j]) ELSE Undef
          /\ Read(a, j) = IF 0 <= j /\ j < a.len THEN Seen(a.mem[j]) ELSE Undef
      BY <2>1, <2>3, ReadIsSeen
    <3>2. CASE 0 <= j /\ j < a.len
      <4>1. b.mem[j] = IF j = index THEN Hole ELSE a.mem[j]
        BY <1>0, <2>1, <3>2
      <4> QED
        BY <3>1, <3>2, <4>1, SeenOnce
    <3>3. CASE ~(0 <= j /\ j < a.len)
      BY <3>1, <3>3
    <3> QED
      BY <3>2, <3>3
  <2> QED
    BY <2>1, <2>2, <2>4
<1>2. CASE ~Present(a, index)
  <2>1. Erase(a, index) = a
    BY <1>2 DEF Erase
  <2>2. Read(a, index) = Undef
    BY <1>2 DEF Read
  <2> QED
    BY <2>1, <2>2
<1> QED
  BY <1>1, <1>2

LEMMA CarryReads ==
  ASSUME NEW a, Good(a), a.fault = "none", NEW from \in Int, NEW to \in Int
  PROVE  /\ to \in 0..a.len => Carry(a, from, to).fault = "none"
         /\ Carry(a, from, to).fault = "none" =>
              /\ Carry(a, from, to).len =
                   IF to >= a.len /\ from \in 0..(a.len - 1) THEN to + 1 ELSE a.len
              /\ \A j \in Int : Read(Carry(a, from, to), j) =
                                  IF j = to THEN Read(a, from) ELSE Read(a, j)
<1>1. CASE Present(a, from)
  <2>1. Carry(a, from, to) = Store(a, to, Read(a, from))
    BY <1>1 DEF Carry
  <2>2. Read(a, from) \in Written /\ Seen(Read(a, from)) = Read(a, from)
    BY ReadWritten, ReadIsSeen
  <2>3. from \in 0..(a.len - 1)
    BY <1>1 DEF Present
  <2> QED
    BY <2>1, <2>2, <2>3, StoreReads
<1>2. CASE ~Present(a, from)
  <2>1. Carry(a, from, to) = Erase(a, to)
    BY <1>2 DEF Carry
  <2>2. Read(a, from) = Undef
    BY <1>2 DEF Read
  <2>3. from \notin 0..(a.len - 1)
    BY <1>2 DEF Present
  <2>4. Erase(a, to).fault = "none" /\ Erase(a, to).len = a.len
        /\ \A j \in Int : Read(Erase(a, to), j) = IF j = to THEN Undef ELSE Read(a, j)
    BY EraseReads, EraseGood
  <2> QED
    BY <2>1, <2>2, <2>3, <2>4
<1> QED
  BY <1>1, <1>2

LEMMA CutToReads ==
  ASSUME NEW a, Good(a), NEW n \in Nat, n <= a.len
  PROVE  \A j \in Int : Read(CutTo(a, n), j) = IF j < n THEN Read(a, j) ELSE Undef
<1> DEFINE c == Paint(a, n, a.len, Garbage)
           d == CutTo(a, n)
<1>1. Garbage \in Cells /\ a.len \in Nat /\ a.alloc \in Nat /\ a.len <= a.alloc
  BY DEF Cells, Good, Sized, Arrs, Contained
<1>2. /\ Sized(c) /\ c.alloc = a.alloc /\ c.fault = a.fault
      /\ \A i \in 0..(a.alloc - 1) :
           c.mem[i] = IF n <= i /\ i < a.len THEN Garbage ELSE a.mem[i]
  <2>1. Sized(a) /\ n \in Int /\ a.len \in Int
    BY <1>1 DEF Good
  <2> QED
    BY <1>1, <2>1, PaintSized
<1>3. d = [c EXCEPT !.len = n]
  BY DEF CutTo
<1> HIDE DEF c
<1>4. d.mem = c.mem /\ d.len = n /\ Good(d)
  BY <1>2, <1>3, LenSized, CutToGood
<1> HIDE DEF d
<1>5. ASSUME NEW j \in Int PROVE Read(d, j) = IF j < n THEN Read(a, j) ELSE Undef
  <2>1. /\ Read(d, j) = IF 0 <= j /\ j < n THEN Seen(c.mem[j]) ELSE Undef
        /\ Read(a, j) = IF 0 <= j /\ j < a.len THEN Seen(a.mem[j]) ELSE Undef
    BY <1>4, ReadIsSeen
  <2>2. 0 <= j /\ j < n => c.mem[j] = a.mem[j] /\ j < a.len
    BY <1>1, <1>2
  <2> QED
    BY <2>1, <2>2
<1> QED
  BY <1>5 DEF d

LEMMA SetLengthReads ==
  ASSUME NEW a, Good(a), a.fault = "none", NEW n \in Int,
         SetLength(a, n).fault = "none"
  PROVE  /\ n >= 0 /\ SetLength(a, n).len = n
         /\ \A j \in Int : Read(SetLength(a, n), j) = IF j < n THEN Read(a, j) ELSE Undef
<1> DEFINE b == IF n > a.alloc THEN Grow(a, n - a.alloc + 1) ELSE a
<1>1. n >= 0
  <2>1. SUFFICES ASSUME n < 0 PROVE FALSE
    OBVIOUS
  <2> QED
    BY <2>1 DEF SetLength, Failed, Good, Sized, Arrs
<1>2. Good(b) /\ b.fault = "none" /\ b.len = a.len
      /\ \A j \in 0..(a.len - 1) : b.mem[j] = a.mem[j]
  <2>1. n > a.alloc => n - a.alloc + 1 \in Nat
    BY <1>1 DEF Good, Sized, Arrs
  <2> QED
    BY <2>1, GrowGood, GrowReads
<1>3. SetLength(a, n) =
        IF n > b.alloc THEN Failed(a, "bounds")
        ELSE IF n < b.len THEN CutTo(b, n)
        ELSE [Paint(b, b.len, n, Hole) EXCEPT !.len = n]
  BY <1>1 DEF SetLength
<1>4. b.len \in Nat /\ b.alloc \in Nat /\ n \in Nat
  BY <1>1, <1>2 DEF Good, Sized, Arrs
<1> HIDE DEF b
<1>5. ~(n > b.alloc)
  <2>1. Failed(a, "bounds").fault = "bounds"
    BY FailedGood DEF Faults
  <2> QED
    BY <1>3, <2>1
<1>6. ASSUME NEW j \in Int PROVE Read(b, j) = Read(a, j)
  <2>1. /\ Read(b, j) = IF 0 <= j /\ j < b.len THEN Seen(b.mem[j]) ELSE Undef
        /\ Read(a, j) = IF 0 <= j /\ j < a.len THEN Seen(a.mem[j]) ELSE Undef
    BY <1>2, ReadIsSeen
  <2>2. 0 <= j /\ j < a.len => b.mem[j] = a.mem[j]
    BY <1>2, <1>4
  <2> QED
    BY <1>2, <2>1, <2>2
<1>7. CASE n < b.len
  <2>1. SetLength(a, n) = CutTo(b, n)
    BY <1>3, <1>5, <1>7
  <2>2. CutTo(b, n).len = n
        /\ \A j \in Int : Read(CutTo(b, n), j) = IF j < n THEN Read(b, j) ELSE Undef
    BY <1>2, <1>4, <1>7, CutToGood, CutToReads
  <2> QED
    BY <1>1, <1>6, <2>1, <2>2
<1>8. CASE ~(n < b.len)
  <2> DEFINE c == Paint(b, b.len, n, Hole)
             d == SetLength(a, n)
  <2>1. Hole \in Cells
    BY DEF Cells
  <2>2. /\ Sized(c) /\ c.alloc = b.alloc /\ c.fault = b.fault
        /\ \A i \in 0..(b.alloc - 1) :
             c.mem[i] = IF b.len <= i /\ i < n THEN Hole ELSE b.mem[i]
    <3>1. Sized(b) /\ b.len \in Int
      BY <1>2, <1>4 DEF Good
    <3> QED
      BY <2>1, <3>1, PaintSized
  <2>3. d = [c EXCEPT !.len = n]
    BY <1>3, <1>5, <1>8
  <2> HIDE DEF c
  <2>4. d.mem = c.mem /\ d.len = n /\ Good(d)
    <3>1. d.mem = c.mem /\ d.len = n
      BY <1>4, <2>2, <2>3, LenSized
    <3>2. Good(d)
      BY SetLengthGood
    <3> QED
      BY <3>1, <3>2
  <2> HIDE DEF d
  <2>5. ASSUME NEW j \in Int PROVE Read(d, j) = IF j < n THEN Read(b, j) ELSE Undef
    <3>1. /\ Read(d, j) = IF 0 <= j /\ j < n THEN Seen(c.mem[j]) ELSE Undef
          /\ Read(b, j) = IF 0 <= j /\ j < b.len THEN Seen(b.mem[j]) ELSE Undef
      BY <1>2, <2>4, ReadIsSeen
    <3>2. 0 <= j /\ j < n => c.mem[j] = IF b.len <= j THEN Hole ELSE b.mem[j]
      BY <1>4, <1>5, <2>2
    <3> QED
      BY <1>4, <1>8, <3>1, <3>2, SeenOnce
  <2> QED
    BY <1>1, <1>6, <2>4, <2>5 DEF d
<1> QED
  BY <1>7, <1>8

-----------------------------------------------------------------------------
(***************************************************************************)
(* The array after each turn of a loop.                                    *)
(***************************************************************************)
LEMMA UpTo ==
  ASSUME NEW n \in Nat, NEW S, 0 \in S, \A p \in 1..n : p - 1 \in S => p \in S
  PROVE  \A p \in 0..n : p \in S
<1> DEFINE R == {p \in 0..n : p \notin S}
<1>1. SUFFICES ASSUME R # {} PROVE FALSE
  OBVIOUS
<1>2. PICK p \in R : \A q \in R : p <= q
  <2>1. R \in SUBSET Nat
    OBVIOUS
  <2> HIDE DEF R
  <2> QED
    BY <1>1, <2>1, LeastNatural
<1>3. p # 0
  BY <1>2
<1>4. p \in 1..n /\ p - 1 \in 0..n /\ ~(p <= p - 1)
  BY <1>2, <1>3
<1> QED
  BY <1>2, <1>4

\* f[p] is the array after p turns of a loop over a.
History(f, a, turns) ==
  /\ f[0] = a
  /\ \A p \in 1..Len(turns) : f[p] = Continued(f[p - 1], turns[p])

LEMMA LoopHasHistory ==
  ASSUME NEW a, NEW turns, Len(turns) \in Nat
  PROVE  \E f : History(f, a, turns) /\ Looped(a, turns) = f[Len(turns)]
<1> DEFINE n == Len(turns)
           f == CHOOSE h : Runs(h, a, turns, n)
<1>1. Runs(f, a, turns, n)
  BY HistoryExists
<1>2. Looped(a, turns) = f[n]
  BY DEF Looped, Runs
<1> HIDE DEF f
<1>3. f[0] = a /\ \A p \in 1..n : f[p] = Continued(f[p - 1], turns[p])
  BY <1>1 DEF Runs
<1> QED
  BY <1>2, <1>3 DEF History

\* Every history ends with what the loop ends with.
LEMMA HistoryEnds ==
  ASSUME NEW a, NEW turns, Len(turns) \in Nat, NEW f, History(f, a, turns)
  PROVE  Looped(a, turns) = f[Len(turns)]
<1>1. PICK g : History(g, a, turns) /\ Looped(a, turns) = g[Len(turns)]
  BY LoopHasHistory
<1> DEFINE S == {p \in 0..Len(turns) : f[p] = g[p]}
<1>2. 0 \in S
  BY <1>1 DEF History
<1>3. \A p \in 1..Len(turns) : p - 1 \in S => p \in S
  BY <1>1 DEF History
<1>4. \A p \in 0..Len(turns) : p \in S
  <2> HIDE DEF S
  <2> QED
    BY <1>2, <1>3, UpTo
<1> QED
  BY <1>1, <1>4

\* The loop over two sequences of turns is the loop over the second after the
\* loop over the first.
LEMMA LoopedOn ==
  ASSUME NEW a, NEW t \in Seq(Turns), NEW u \in Seq(Turns)
  PROVE  Looped(a, t \o u) = Looped(Looped(a, t), u)
<1> DEFINE k == Len(t)
           m == Len(u)
<1>1. k \in Nat /\ m \in Nat /\ Len(t \o u) = k + m
      /\ (\A p \in 1..k : (t \o u)[p] = t[p])
      /\ (\A p \in 1..m : (t \o u)[k + p] = u[p])
  <2>1. /\ Len(t \o u) = k + m
        /\ \A i \in 1..(k + m) : (t \o u)[i] = IF i <= k THEN t[i] ELSE u[i - k]
    BY ConcatProperties
  <2>2. k \in Nat /\ m \in Nat
    OBVIOUS
  <2> HIDE DEF k, m
  <2>3. /\ \A p \in 1..k : p \in 1..(k + m) /\ p <= k
        /\ \A p \in 1..m : k + p \in 1..(k + m) /\ ~(k + p <= k) /\ k + p - k = p
    BY <2>2
  <2> QED
    BY <2>1, <2>2, <2>3
<1>2. PICK f : History(f, a, t \o u) /\ Looped(a, t \o u) = f[k + m]
  <2>1. Len(t \o u) \in Nat /\ Len(t \o u) = k + m
    BY <1>1
  <2>2. PICK g : History(g, a, t \o u) /\ Looped(a, t \o u) = g[Len(t \o u)]
    BY <2>1, LoopHasHistory
  <2>3. Looped(a, t \o u) = g[k + m]
    BY <2>1, <2>2, Zenon
  <2> QED
    BY <2>2, <2>3
<1>3. History(f, a, t)
  <2>1. \A p \in 1..k : p \in 1..(k + m)
    BY <1>1
  <2> QED
    BY <1>1, <1>2, <2>1 DEF History
<1>4. Looped(a, t) = f[k]
  BY <1>1, <1>3, HistoryEnds
<1> DEFINE g == [q \in 0..m |-> f[k + q]]
<1>5. History(g, f[k], u) /\ g[m] = f[k + m]
  <2>1. g[0] = f[k] /\ g[m] = f[k + m]
    BY <1>1
  <2>2. ASSUME NEW p \in 1..m PROVE g[p] = Continued(g[p - 1], u[p])
    <3>1. k + p \in 1..(k + m) /\ k + p - 1 = k + (p - 1) /\ p \in 0..m /\ p - 1 \in 0..m
      BY <1>1
    <3>2. f[k + p] = Continued(f[k + p - 1], (t \o u)[k + p])
      BY <1>1, <1>2, <3>1 DEF History
    <3> QED
      BY <1>1, <3>1, <3>2
  <2> QED
    BY <2>1, <2>2 DEF History
<1> HIDE DEF g
<1>6. Looped(f[k], u) = g[m]
  BY <1>1, <1>5, HistoryEnds
<1> QED
  BY <1>2, <1>4, <1>5, <1>6

LEMMA HistoryGood ==
  ASSUME NEW a, Good(a), a.fault = "none", NEW turns \in Seq(Turns), NEW f,
         History(f, a, turns)
  PROVE  \A p \in 0..Len(turns) : Good(f[p]) /\ f[p].fault \in {"none", "bounds"}
<1> DEFINE n == Len(turns)
           S == {p \in 0..n : Good(f[p]) /\ f[p].fault \in {"none", "bounds"}}
<1>1. n \in Nat
  OBVIOUS
<1>2. 0 \in S
  BY DEF History
<1>3. ASSUME NEW p \in 1..n, p - 1 \in S PROVE p \in S
  <2>1. f[p] = Continued(f[p - 1], turns[p]) /\ turns[p] \in Turns
    BY DEF History
  <2>2. Good(f[p]) /\ f[p].fault \in {"none", "bounds"}
    BY <1>3, <2>1, PerformGood DEF Continued
  <2> QED
    BY <2>2
<1>4. \A p \in 0..n : p \in S
  <2> HIDE DEF S
  <2> QED
    BY <1>1, <1>2, <1>3, UpTo
<1> QED
  BY <1>4

\* Every turn of the loop was taken.
AllTaken(f, turns) ==
  /\ \A p \in 0..Len(turns) : f[p].fault = "none"
  /\ \A p \in 1..Len(turns) : f[p] = Perform(f[p - 1], turns[p])

\* An array that is not lost at the end never was.
LEMMA AliveThroughout ==
  ASSUME NEW a, NEW turns, Len(turns) \in Nat, NEW f, History(f, a, turns),
         Looped(a, turns).fault = "none"
  PROVE  AllTaken(f, turns)
<1> DEFINE n == Len(turns)
           S == {q \in 0..n : f[n - q].fault = "none"}
<1>1. 0 \in S
  <2>1. f[n].fault = "none" /\ n - 0 = n
    BY HistoryEnds
  <2> QED
    BY <2>1
<1>2. ASSUME NEW q \in 1..n, q - 1 \in S PROVE q \in S
  <2> DEFINE p == n - (q - 1)
  <2>1. p \in 1..n /\ p - 1 = n - q /\ f[p].fault = "none"
    BY <1>2
  <2>2. f[p] = Continued(f[p - 1], turns[p])
    BY <2>1 DEF History
  <2>3. f[p - 1].fault = "none"
    BY <2>1, <2>2 DEF Continued
  <2> QED
    BY <2>1, <2>3
<1>3. \A q \in 0..n : q \in S
  <2> HIDE DEF S
  <2> QED
    BY <1>1, <1>2, UpTo
<1>4. ASSUME NEW p \in 0..n PROVE f[p].fault = "none"
  <2>1. n - p \in 0..n /\ n - (n - p) = p
    OBVIOUS
  <2> QED
    BY <1>3, <2>1
<1>5. ASSUME NEW p \in 1..n PROVE f[p] = Perform(f[p - 1], turns[p])
  <2>1. p - 1 \in 0..n
    OBVIOUS
  <2> QED
    BY <1>4, <2>1 DEF History, Continued
<1> QED
  BY <1>4, <1>5 DEF AllTaken

\* What a turn does.
LEMMA TurnsPerform ==
  ASSUME NEW a, NEW k, NEW j, NEW v
  PROVE  /\ Perform(a, Storing(k, v)) = Store(a, k, v)
         /\ Perform(a, Carrying(j, k)) = Carry(a, j, k)
         /\ Perform(a, Erasing(k)) = Erase(a, k)
         /\ Perform(a, Passing) = a
  BY DEF Perform, Storing, Carrying, Erasing, Passing, Turn

-----------------------------------------------------------------------------
(***************************************************************************)
(* The loops of fill and splice, by what a program sees afterwards.        *)
(***************************************************************************)

\* The turns of those loops.
PutAt(s, vals)       == [p \in 1..Len(vals) |-> Storing(s + p - 1, vals[p])]
MovesDown(s, n, m, d) == [p \in 1..d |-> Carrying(s + p - 1 + n, s + p - 1 + m)]
MovesUp(a, up, d)     == [p \in 1..d |-> Carrying(a.len - p, a.len - p + up)]
FreesBelow(hi, e)     == [p \in 1..e |-> Erasing(hi - p)]

\* Stores to indices that follow one another, from one the array has or its end.
LEMMA StoresRead ==
  ASSUME NEW a, Good(a), a.fault = "none", NEW s \in 0..a.len,
         NEW vals \in Seq(Written)
  PROVE  LET m == Len(vals)
             b == Looped(a, PutAt(s, vals))
         IN  /\ Good(b) /\ b.fault = "none"
             /\ b.len = IF s + m > a.len THEN s + m ELSE a.len
             /\ \A j \in Int : Read(b, j) = IF s <= j /\ j < s + m
                                            THEN Seen(vals[j - s + 1]) ELSE Read(a, j)
<1> DEFINE m == Len(vals)
           turns == [p \in 1..m |-> Storing(s + p - 1, vals[p])]
<1>1. m \in Nat /\ a.len \in Nat /\ s \in Nat /\ \A p \in 1..m : vals[p] \in Written
  BY DEF Good, Sized
<1>2. turns \in Seq(Turns) /\ Len(turns) = m
      /\ \A p \in 1..m : turns[p] = Storing(s + p - 1, vals[p])
  <2>1. ASSUME NEW p \in 1..m PROVE Storing(s + p - 1, vals[p]) \in Turns
    <3>1. s + p - 1 \in Int /\ vals[p] \in Written /\ 0 \in Int
      BY <1>1
    <3> QED
      BY <3>1 DEF Storing, Turn, Turns
  <2> QED
    BY <1>1, <2>1
<1> HIDE DEF turns
<1>3. PICK f : History(f, a, turns) /\ Looped(a, turns) = f[m]
  BY <1>1, <1>2, LoopHasHistory
<1>4. \A p \in 0..m : Good(f[p])
  BY <1>2, <1>3, HistoryGood
<1> DEFINE Stored(b, p) ==
             /\ b.fault = "none"
             /\ b.len = IF s + p > a.len THEN s + p ELSE a.len
             /\ \A j \in Int : Read(b, j) = IF s <= j /\ j < s + p
                                            THEN Seen(vals[j - s + 1]) ELSE Read(a, j)
           S == {p \in 0..m : Stored(f[p], p)}
<1>5. 0 \in S
  <2>1. f[0] = a
    BY <1>3 DEF History
  <2> QED
    BY <1>1, <2>1
<1>6. ASSUME NEW p \in 1..m, p - 1 \in S PROVE p \in S
  <2> DEFINE b == f[p - 1]
             k == s + p - 1
  <2>1. k \in Int /\ k \in 0..b.len /\ vals[p] \in Written
    BY <1>1, <1>6
  <2>2. Good(b) /\ b.fault = "none"
    BY <1>1, <1>4, <1>6
  <2>3. f[p] = Store(b, k, vals[p])
    <3>1. f[p] = Continued(b, turns[p])
      BY <1>2, <1>3 DEF History
    <3>2. turns[p] = Storing(k, vals[p])
      BY <1>2
    <3> QED
      BY <2>2, <3>1, <3>2, TurnsPerform DEF Continued
  <2>4. /\ b.len = IF k > a.len THEN k ELSE a.len
        /\ \A j \in Int : Read(b, j) = IF s <= j /\ j < k
                                       THEN Seen(vals[j - s + 1]) ELSE Read(a, j)
    <3>1. s + (p - 1) = k
      BY <1>1
    <3> QED
      BY <1>6, <3>1
  <2>5. k = s + p - 1 /\ p = k - s + 1 /\ s <= k
    BY <1>1
  <2> HIDE DEF b, k
  <2>6. /\ Store(b, k, vals[p]).fault = "none"
        /\ Store(b, k, vals[p]).len = IF k >= b.len THEN k + 1 ELSE b.len
        /\ \A j \in Int : Read(Store(b, k, vals[p]), j) =
                            IF j = k THEN Seen(vals[p]) ELSE Read(b, j)
    BY <2>1, <2>2, StoreReads
  <2>7. f[p].len = IF s + p > a.len THEN s + p ELSE a.len
    BY <1>1, <2>1, <2>3, <2>4, <2>5, <2>6
  <2>8. ASSUME NEW j \in Int
        PROVE  Read(f[p], j) = IF s <= j /\ j < s + p
                               THEN Seen(vals[j - s + 1]) ELSE Read(a, j)
    <3>1. Read(f[p], j) = IF j = k THEN Seen(vals[p]) ELSE Read(b, j)
      BY <2>3, <2>6
    <3>2. Read(b, j) = IF s <= j /\ j < k THEN Seen(vals[j - s + 1]) ELSE Read(a, j)
      BY <2>4
    <3>3. CASE j = k
      BY <2>1, <2>5, <3>1, <3>3
    <3>4. CASE j # k
      <4>1. (s <= j /\ j < s + p) <=> (s <= j /\ j < k)
        BY <1>1, <2>1, <2>5, <3>4
      <4> QED
        BY <3>1, <3>2, <3>4, <4>1
    <3> QED
      BY <3>3, <3>4
  <2>9. p \in 0..m
    BY <1>1
  <2> QED
    BY <2>3, <2>6, <2>7, <2>8, <2>9
<1>7. \A p \in 0..m : p \in S
  <2> HIDE DEF S
  <2> QED
    BY <1>1, <1>5, <1>6, UpTo
<1>8. m \in 0..m
  BY <1>1
<1>9. Stored(f[m], m) /\ Good(f[m])
  BY <1>4, <1>7, <1>8
<1>10. Looped(a, PutAt(s, vals)) = f[m]
  BY <1>3 DEF turns, PutAt
<1> QED
  BY <1>9, <1>10

\* The tail moves down, first element first.
LEMMA CarriesDownRead ==
  ASSUME NEW a, Good(a), a.fault = "none", NEW s \in Nat, NEW n \in Nat, NEW m \in Nat,
         m < n, NEW d \in Nat, s + n + d <= a.len
  PROVE  LET b == Looped(a, MovesDown(s, n, m, d))
         IN  /\ Good(b) /\ b.fault = "none" /\ b.len = a.len
             /\ \A j \in Int : Read(b, j) = IF s + m <= j /\ j < s + m + d
                                            THEN Read(a, j - m + n) ELSE Read(a, j)
<1> DEFINE turns == [p \in 1..d |-> Carrying(s + p - 1 + n, s + p - 1 + m)]
<1>1. a.len \in Nat
  BY DEF Good, Sized
<1>2. turns \in Seq(Turns) /\ Len(turns) = d
      /\ \A p \in 1..d : turns[p] = Carrying(s + p - 1 + n, s + p - 1 + m)
  <2>1. ASSUME NEW p \in 1..d PROVE Carrying(s + p - 1 + n, s + p - 1 + m) \in Turns
    <3>1. s + p - 1 + n \in Int /\ s + p - 1 + m \in Int
      OBVIOUS
    <3> QED
      BY <3>1, CarryingType
  <2> QED
    BY <2>1
<1> HIDE DEF turns
<1>3. PICK f : History(f, a, turns) /\ Looped(a, turns) = f[d]
  BY <1>2, LoopHasHistory
<1>4. \A p \in 0..d : Good(f[p])
  BY <1>2, <1>3, HistoryGood
<1> DEFINE Moved(b, p) ==
             /\ b.fault = "none" /\ b.len = a.len
             /\ \A j \in Int : Read(b, j) = IF s + m <= j /\ j < s + m + p
                                            THEN Read(a, j - m + n) ELSE Read(a, j)
           S == {p \in 0..d : Moved(f[p], p)}
<1>5. 0 \in S
  <2>1. f[0] = a
    BY <1>3 DEF History
  <2> QED
    BY <2>1
<1>6. ASSUME NEW p \in 1..d, p - 1 \in S PROVE p \in S
  <2> DEFINE b == f[p - 1]
             from == s + p - 1 + n
             to == s + p - 1 + m
  <2>1. from \in Int /\ to \in Int /\ to \in 0..a.len /\ to < a.len
        /\ from = to - m + n /\ ~(from < s + m + (p - 1))
        /\ to = s + m + (p - 1) /\ to + 1 = s + m + p
    BY <1>1
  <2>2. Good(b) /\ b.fault = "none" /\ b.len = a.len
        /\ \A j \in Int : Read(b, j) = IF s + m <= j /\ j < s + m + (p - 1)
                                       THEN Read(a, j - m + n) ELSE Read(a, j)
    BY <1>4, <1>6
  <2>3. f[p] = Carry(b, from, to)
    <3>1. f[p] = Continued(b, turns[p])
      BY <1>2, <1>3 DEF History
    <3>2. turns[p] = Carrying(from, to)
      BY <1>2
    <3> QED
      BY <2>2, <3>1, <3>2, TurnsPerform DEF Continued
  <2> HIDE DEF b, from, to
  <2>4. /\ Carry(b, from, to).fault = "none"
        /\ Carry(b, from, to).len =
             IF to >= b.len /\ from \in 0..(b.len - 1) THEN to + 1 ELSE b.len
        /\ \A j \in Int : Read(Carry(b, from, to), j) =
                            IF j = to THEN Read(b, from) ELSE Read(b, j)
    <3>1. to \in 0..b.len
      BY <2>1, <2>2
    <3> QED
      BY <2>1, <2>2, <3>1, CarryReads
  <2>5. f[p].len = a.len
    BY <1>1, <2>1, <2>2, <2>3, <2>4
  <2>6. Read(b, from) = Read(a, from)
    BY <2>1, <2>2
  <2>7. ASSUME NEW j \in Int
        PROVE  Read(f[p], j) = IF s + m <= j /\ j < s + m + p
                               THEN Read(a, j - m + n) ELSE Read(a, j)
    <3>1. Read(f[p], j) = IF j = to THEN Read(a, from) ELSE Read(b, j)
      BY <2>3, <2>4, <2>6
    <3>2. CASE j = to
      <4>1. j - m + n = from /\ s + m <= j /\ j < s + m + p
        BY <2>1, <3>2
      <4> QED
        BY <3>1, <3>2, <4>1
    <3>3. CASE j # to
      <4>1. (s + m <= j /\ j < s + m + p) <=> (s + m <= j /\ j < s + m + (p - 1))
        BY <2>1, <3>3
      <4> QED
        BY <2>2, <3>1, <3>3, <4>1
    <3> QED
      BY <3>2, <3>3
  <2> QED
    BY <2>3, <2>4, <2>5, <2>7
<1>7. \A p \in 0..d : p \in S
  <2> HIDE DEF S
  <2> QED
    BY <1>5, <1>6, UpTo
<1>8. Moved(f[d], d) /\ Good(f[d])
  BY <1>4, <1>7
<1>9. Looped(a, MovesDown(s, n, m, d)) = f[d]
  BY <1>3 DEF turns, MovesDown
<1> QED
  BY <1>8, <1>9

\* The cells behind the tail are erased, last first.
LEMMA ErasesRead ==
  ASSUME NEW a, Good(a), a.fault = "none", NEW hi \in Int, NEW e \in Nat
  PROVE  LET b == Looped(a, FreesBelow(hi, e))
         IN  /\ Good(b) /\ b.fault = "none" /\ b.len = a.len
             /\ \A j \in Int : j < hi - e => Read(b, j) = Read(a, j)
<1> DEFINE turns == [p \in 1..e |-> Erasing(hi - p)]
<1>2. turns \in Seq(Turns) /\ Len(turns) = e
      /\ \A p \in 1..e : turns[p] = Erasing(hi - p)
  <2>1. ASSUME NEW p \in 1..e PROVE Erasing(hi - p) \in Turns
    <3>1. hi - p \in Int
      OBVIOUS
    <3> QED
      BY <3>1, ErasingType
  <2> QED
    BY <2>1
<1> HIDE DEF turns
<1>3. PICK f : History(f, a, turns) /\ Looped(a, turns) = f[e]
  BY <1>2, LoopHasHistory
<1>4. \A p \in 0..e : Good(f[p])
  BY <1>2, <1>3, HistoryGood
<1> DEFINE Freed(b) ==
             /\ b.fault = "none" /\ b.len = a.len
             /\ \A j \in Int : j < hi - e => Read(b, j) = Read(a, j)
           S == {p \in 0..e : Freed(f[p])}
<1>5. 0 \in S
  <2>1. f[0] = a
    BY <1>3 DEF History
  <2> QED
    BY <2>1
<1>6. ASSUME NEW p \in 1..e, p - 1 \in S PROVE p \in S
  <2> DEFINE b == f[p - 1]
             k == hi - p
  <2>1. Good(b) /\ Freed(b)
    BY <1>4, <1>6
  <2>2. f[p] = Erase(b, k)
    <3>1. turns[p] = Erasing(k)
      BY <1>2
    <3>2. f[p] = Continued(b, turns[p])
      BY <1>2, <1>3 DEF History
    <3>3. b.fault = "none"
      BY <2>1
    <3> HIDE DEF b, k
    <3>4. Perform(b, Erasing(k)) = Erase(b, k)
      BY TurnsPerform
    <3> QED
      BY <3>1, <3>2, <3>3, <3>4 DEF Continued
  <2>3. k \in Int /\ ~(k < hi - e)
    OBVIOUS
  <2> HIDE DEF b, k
  <2>4. /\ Erase(b, k).fault = "none" /\ Erase(b, k).len = a.len
        /\ \A j \in Int : Read(Erase(b, k), j) = IF j = k THEN Undef ELSE Read(b, j)
    BY <2>1, <2>3, EraseReads, EraseGood
  <2>5. Freed(f[p])
    BY <2>1, <2>2, <2>3, <2>4
  <2> QED
    BY <2>5
<1>7. \A p \in 0..e : p \in S
  <2> HIDE DEF S
  <2> QED
    BY <1>5, <1>6, UpTo
<1>8. Freed(f[e]) /\ Good(f[e])
  BY <1>4, <1>7
<1>9. Looped(a, FreesBelow(hi, e)) = f[e]
  BY <1>3 DEF turns, FreesBelow
<1> QED
  BY <1>8, <1>9

\* The tail moves up, last element first; the first store may leave the block.
LEMMA CarriesUpRead ==
  ASSUME NEW a, Good(a), a.fault = "none", NEW up \in Nat \ {0}, NEW d \in Nat,
         d <= a.len,
         Looped(a, MovesUp(a, up, d)).fault = "none"
  PROVE  LET b == Looped(a, MovesUp(a, up, d))
         IN  /\ Good(b) /\ a.len <= b.len
             /\ \A j \in Int : Read(b, j) = IF j >= a.len + up - d THEN Read(a, j - up)
                                            ELSE Read(a, j)
<1> DEFINE turns == [p \in 1..d |-> Carrying(a.len - p, a.len - p + up)]
<1>1. a.len \in Nat
  BY DEF Good, Sized
<1>2. turns \in Seq(Turns) /\ Len(turns) = d
      /\ \A p \in 1..d : turns[p] = Carrying(a.len - p, a.len - p + up)
  <2>1. ASSUME NEW p \in 1..d PROVE Carrying(a.len - p, a.len - p + up) \in Turns
    <3>1. a.len - p \in Int /\ a.len - p + up \in Int
      BY <1>1
    <3> QED
      BY <3>1, CarryingType
  <2> QED
    BY <2>1
<1> HIDE DEF turns
<1>3. PICK f : History(f, a, turns) /\ Looped(a, turns) = f[d]
  BY <1>2, LoopHasHistory
<1>4. \A p \in 0..d : Good(f[p])
  BY <1>2, <1>3, HistoryGood
<1>5. /\ \A p \in 0..d : f[p].fault = "none"
      /\ \A p \in 1..d : f[p] = Perform(f[p - 1], turns[p])
  <2>1. Looped(a, turns).fault = "none"
    BY DEF turns, MovesUp
  <2>2. AllTaken(f, turns)
    BY <1>2, <1>3, <2>1, AliveThroughout
  <2> QED
    BY <1>2, <2>2 DEF AllTaken
<1> DEFINE Moved(b, p) ==
             /\ b.len = IF p = 0 THEN a.len ELSE a.len + up
             /\ \A j \in Int : Read(b, j) = IF j >= a.len + up - p THEN Read(a, j - up)
                                            ELSE Read(a, j)
           S == {p \in 0..d : Moved(f[p], p)}
<1>6. 0 \in S
  <2>1. f[0] = a
    BY <1>3 DEF History
  <2>2. ASSUME NEW j \in Int, j >= a.len + up - 0 PROVE Read(a, j) = Read(a, j - up)
    <3>1. j - up \in Int /\ ~(j < a.len) /\ ~(j - up < a.len)
      BY <1>1, <2>2
    <3> QED
      BY <3>1, ReadIsSeen
  <2> QED
    BY <2>1, <2>2
<1>7. ASSUME NEW p \in 1..d, p - 1 \in S PROVE p \in S
  <2> DEFINE b == f[p - 1]
             from == a.len - p
             to == a.len - p + up
  <2>1. from \in Int /\ to \in Int /\ from \in 0..(a.len - 1)
        /\ from = to - up /\ ~(from >= a.len + up - (p - 1))
        /\ to + 1 = a.len + up - (p - 1) /\ to = a.len + up - p
        /\ (p = 1 => to = a.len + up - 1 /\ to >= a.len)
        /\ (p # 1 => to < a.len + up)
    <3> DEFINE size == a.len
    <3>1. size \in Nat /\ d <= size /\ up \in Nat /\ up >= 1 /\ p \in Nat /\ 1 <= p /\ p <= d
      BY <1>1
    <3> HIDE DEF size
    <3>2. from = size - p /\ to = size - p + up
      BY DEF size
    <3> HIDE DEF from, to
    <3>3. from \in Int /\ to \in Int /\ from \in 0..(size - 1) /\ from = to - up
      BY <3>1, <3>2
    <3>4. ~(from >= size + up - (p - 1)) /\ to + 1 = size + up - (p - 1)
          /\ to = size + up - p
      BY <3>1, <3>2
    <3>5. (p = 1 => to = size + up - 1 /\ to >= size) /\ (p # 1 => to < size + up)
      BY <3>1, <3>2
    <3> QED
      BY <3>3, <3>4, <3>5 DEF size
  <2>2. Good(b) /\ b.fault = "none"
        /\ b.len = (IF p - 1 = 0 THEN a.len ELSE a.len + up)
        /\ \A j \in Int : Read(b, j) = IF j >= a.len + up - (p - 1) THEN Read(a, j - up)
                                       ELSE Read(a, j)
    BY <1>4, <1>5, <1>7
  <2>3. f[p] = Carry(b, from, to) /\ f[p].fault = "none"
    <3>1. f[p] = Perform(b, turns[p]) /\ f[p].fault = "none"
      BY <1>5
    <3>2. turns[p] = Carrying(from, to)
      BY <1>2
    <3> QED
      BY <3>1, <3>2, TurnsPerform
  <2> HIDE DEF b, from, to
  <2>4. /\ f[p].len = IF to >= b.len /\ from \in 0..(b.len - 1) THEN to + 1 ELSE b.len
        /\ \A j \in Int : Read(f[p], j) = IF j = to THEN Read(b, from) ELSE Read(b, j)
    BY <2>1, <2>2, <2>3, CarryReads
  <2>5. f[p].len = a.len + up
    <3>1. CASE p = 1
      BY <1>1, <2>1, <2>2, <2>4, <3>1
    <3>2. CASE p # 1
      <4>1. b.len = a.len + up /\ ~(to >= b.len)
        BY <1>1, <2>1, <2>2, <3>2
      <4> QED
        BY <2>4, <4>1
    <3> QED
      BY <3>1, <3>2
  <2>6. Read(b, from) = Read(a, from)
    BY <2>1, <2>2
  <2>7. ASSUME NEW j \in Int
        PROVE  Read(f[p], j) = IF j >= a.len + up - p THEN Read(a, j - up) ELSE Read(a, j)
    <3>1. Read(f[p], j) = IF j = to THEN Read(a, from) ELSE Read(b, j)
      BY <2>4, <2>6
    <3>2. CASE j = to
      <4>1. j - up = from /\ j >= a.len + up - p
        BY <1>1, <2>1, <3>2
      <4> QED
        BY <3>1, <3>2, <4>1
    <3>3. CASE j # to
      <4>1. (j >= to) <=> (j >= to + 1)
        BY <2>1, <3>3
      <4>2. (j >= a.len + up - p) <=> (j >= a.len + up - (p - 1))
        BY <2>1, <4>1, Zenon
      <4> QED
        BY <2>2, <3>1, <3>3, <4>2
    <3> QED
      BY <3>2, <3>3
  <2> QED
    BY <2>5, <2>7
<1>8. \A p \in 0..d : p \in S
  <2> HIDE DEF S
  <2> QED
    BY <1>6, <1>7, UpTo
<1>9. Moved(f[d], d) /\ Good(f[d])
  BY <1>4, <1>8
<1>10. Looped(a, MovesUp(a, up, d)) = f[d]
  BY <1>3 DEF turns, MovesUp
<1>11. a.len <= f[d].len
  BY <1>1, <1>9
<1> HIDE DEF Moved
<1> QED
  BY <1>9, <1>10, <1>11 DEF Moved

\* The sequence an array shows.
LEMMA ContentsRead ==
  ASSUME NEW a, Good(a)
  PROVE  /\ Contents(a) \in Seq(Written) /\ Len(Contents(a)) = a.len
         /\ Contents(a) = [p \in 1..a.len |-> Read(a, p - 1)]
         /\ \A p \in 1..a.len : Contents(a)[p] = Read(a, p - 1)
<1>1. a.len \in Nat
  BY DEF Good, Sized
<1>2. ASSUME NEW p \in 1..a.len
      PROVE  Seen(a.mem[p - 1]) = Read(a, p - 1) /\ Read(a, p - 1) \in Written
  <2>1. p - 1 \in Int /\ 0 <= p - 1 /\ p - 1 < a.len
    BY <1>1
  <2> QED
    BY <2>1, ReadIsSeen, ReadWritten
<1>3. Contents(a) = [p \in 1..a.len |-> Seen(a.mem[p - 1])]
  BY DEF Contents
<1>4. Contents(a) = [p \in 1..a.len |-> Read(a, p - 1)]
  BY <1>2, <1>3
<1> QED
  BY <1>1, <1>2, <1>4

\* Two arrays of one length that answer alike show the same.
LEMMA SameContents ==
  ASSUME NEW a, Good(a), NEW n \in Nat, a.len = n, NEW c, c \in Seq(Written),
         Len(c) = n, \A j \in 0..(n - 1) : Read(a, j) = c[j + 1]
  PROVE  Contents(a) = c
<1>1. Contents(a) \in Seq(Written) /\ Len(Contents(a)) = Len(c)
  BY ContentsRead
<1>2. ASSUME NEW p \in 1..Len(Contents(a)) PROVE Contents(a)[p] = c[p]
  <2>1. p \in 1..n /\ p - 1 \in 0..(n - 1) /\ (p - 1) + 1 = p
    BY <1>1, <1>2
  <2> QED
    BY <2>1, ContentsRead
<1> QED
  BY <1>1, <1>2, SeqEqual

LEMMA LoopedNone ==
  ASSUME NEW a, NEW turns, Len(turns) = 0
  PROVE  Looped(a, turns) = a
<1>1. PICK f : History(f, a, turns) /\ Looped(a, turns) = f[Len(turns)]
  BY LoopHasHistory
<1> QED
  BY <1>1 DEF History

\* A relative position is never past the end.
LEMMA RelativeInside ==
  ASSUME NEW a, Good(a), NEW rel \in Int
  PROVE  Relative(a, rel) \in Int /\ Relative(a, rel) <= a.len
<1>1. a.len \in Nat
  BY DEF Good, Sized
<1> QED
  BY <1>1 DEF Relative

LEMMA FilledReads ==
  ASSUME NEW a, Good(a), a.fault = "none", NEW v \in Vals,
         NEW start \in Int, NEW end \in Int,
         Filled(a, v, start, end).fault = "none"
  PROVE  LET s == Relative(a, start)
             e == Relative(a, end)
             b == Filled(a, v, start, end)
         IN  /\ s < e => s >= 0
             /\ b.len = a.len
             /\ \A j \in Int : Read(b, j) = IF s <= j /\ j < e THEN v ELSE Read(a, j)
<1> DEFINE s == Relative(a, start)
           e == Relative(a, end)
           b == Filled(a, v, start, end)
           ks == Upwards(s, e)
           turns == [p \in DOMAIN ks |-> Storing(ks[p], v)]
<1>1. s \in Int /\ e \in Int /\ s <= a.len /\ e <= a.len /\ a.len \in Nat
  <2>1. a.len \in Nat
    BY DEF Good, Sized
  <2> QED
    BY <2>1, RelativeInside
<1>2. b = Looped(a, turns) /\ b.fault = "none"
  BY DEF Filled
<1> HIDE DEF s, e, b
<1>3. CASE e <= s
  <2>1. Len(turns) = 0
    BY <1>1, <1>3 DEF Upwards
  <2>2. b = a
    BY <1>2, <2>1, LoopedNone
  <2>3. ~(s < e) /\ \A j \in Int : ~(s <= j /\ j < e)
    BY <1>1, <1>3
  <2> QED
    BY <2>2, <2>3 DEF s, e, b
<1>4. CASE s < e
  <2> DEFINE m == e - s
             vals == [p \in 1..m |-> v]
  <2>1. m \in Nat /\ 1 \in 1..m /\ s + m = e
    BY <1>1, <1>4
  <2>2. ks = [p \in 1..m |-> s + p - 1]
    BY <1>1, <1>4 DEF Upwards
  <2>3. v \in Written /\ Seen(v) = v
    BY ValsWritten, SeenOnce
  <2>4. m = Len(vals) /\ vals \in Seq(Written) /\ \A p \in 1..m : vals[p] = v
    BY <2>1, <2>3
  <2> HIDE DEF m, ks, vals
  <2>5. turns = [p \in 1..m |-> Storing(s + p - 1, v)] /\ Len(turns) = m
    BY <2>1, <2>2
  <2>6. s >= 0
    <3>1. PICK f : History(f, a, turns) /\ Looped(a, turns) = f[Len(turns)]
      BY <2>1, <2>5, LoopHasHistory
    <3>2. AllTaken(f, turns)
      BY <1>2, <2>1, <2>5, <3>1, AliveThroughout
    <3>3. f[1] = Perform(f[1 - 1], turns[1]) /\ f[1].fault = "none" /\ f[0] = a
      BY <2>1, <2>5, <3>1, <3>2 DEF AllTaken, History
    <3>4. s + 1 - 1 = s /\ 1 - 1 = 0
      BY <1>1
    <3>5. turns[1] = Storing(s, v)
      BY <2>1, <2>5, <3>4
    <3>6. f[1] = Store(a, s, v)
      BY <3>3, <3>4, <3>5, TurnsPerform
    <3> QED
      BY <1>1, <2>3, <3>3, <3>6, StoreReads
  <2>7. turns = PutAt(s, vals)
    BY <2>4, <2>5 DEF PutAt
  <2>8. s \in 0..a.len
    BY <1>1, <2>6
  <2>9. /\ b.len = IF s + m > a.len THEN s + m ELSE a.len
        /\ \A j \in Int : Read(b, j) = IF s <= j /\ j < s + m
                                       THEN Seen(vals[j - s + 1]) ELSE Read(a, j)
    <3> HIDE DEF turns
    <3> QED
      BY <1>2, <2>4, <2>7, <2>8, StoresRead
  <2>10. b.len = a.len
    BY <1>1, <2>1, <2>9
  <2>11. ASSUME NEW j \in Int
         PROVE  Read(b, j) = IF s <= j /\ j < e THEN v ELSE Read(a, j)
    <3>1. s <= j /\ j < e => j - s + 1 \in 1..m
      BY <1>1, <2>1
    <3> QED
      BY <2>1, <2>3, <2>4, <2>9, <3>1
  <2> QED
    BY <2>6, <2>10, <2>11 DEF s, e, b
<1> QED
  BY <1>1, <1>3, <1>4

LEMMA EmptyGood ==
  Good(NewRaw(0)) /\ NewRaw(0).fault = "none" /\ NewRaw(0).len = 0
<1> DEFINE n == 0 + Spare
           mem == [i \in 0..(n - 1) |-> Garbage]
<1>1. n \in Nat /\ mem \in [0..(n - 1) -> Cells]
  BY ArrayAssumption DEF Cells
<1>2. NewRaw(0) = [len |-> 0, alloc |-> n, mem |-> mem, fault |-> "none"]
  BY DEF NewRaw, Array, Block
<1> HIDE DEF n, mem
<1>3. Sized(NewRaw(0))
  BY <1>1, <1>2, SizedRecord DEF Faults
<1>4. NewRaw(0).len = 0 /\ NewRaw(0).alloc = n /\ NewRaw(0).fault = "none"
  BY <1>2
<1>5. Contained(NewRaw(0))
  BY <1>1, <1>4 DEF Contained
<1> QED
  BY <1>3, <1>4, <1>5 DEF Good

\* The array splice answers: the elements it cuts out.
LEMMA CutReads ==
  ASSUME NEW a, Good(a), NEW s \in Nat, NEW n \in Nat, s + n <= a.len
  PROVE  Contents(Cut(a, s, n)) = [p \in 1..n |-> Read(a, s + p - 1)]
<1> DEFINE vals == [p \in 1..n |-> Read(a, s + p - 1)]
           none == NewRaw(0)
           b == Cut(a, s, n)
<1>0. a.len \in Nat
  BY DEF Good, Sized
<1>1. ASSUME NEW p \in 1..n
      PROVE  /\ s + p - 1 \in Int /\ Present(a, s + p - 1)
             /\ Read(a, s + p - 1) \in Written
             /\ Seen(Read(a, s + p - 1)) = Read(a, s + p - 1)
  <2>1. s + p - 1 \in Int /\ s + p - 1 \in 0..(a.len - 1)
    BY <1>0
  <2> QED
    BY <2>1, ReadWritten, ReadIsSeen DEF Present
<1>2. vals \in Seq(Written) /\ Len(vals) = n
      /\ \A p \in 1..n : vals[p] = Read(a, s + p - 1) /\ Seen(vals[p]) = vals[p]
  <2>1. \A p \in 1..n : Read(a, s + p - 1) \in Written
    BY <1>1
  <2>2. vals \in Seq(Written) /\ Len(vals) = n
    BY <2>1
  <2>3. \A p \in 1..n : vals[p] = Read(a, s + p - 1)
    OBVIOUS
  <2> HIDE DEF vals
  <2> QED
    BY <1>1, <2>2, <2>3
<1> HIDE DEF vals
<1>3. b = Looped(none, [p \in 1..n |-> Storing(0 + p - 1, vals[p])])
  <2>1. \A p \in 1..n : 0 + p - 1 = p - 1
    OBVIOUS
  <2>2. [p \in 1..n |-> IF Present(a, s + p - 1)
                        THEN Storing(p - 1, Read(a, s + p - 1)) ELSE Passing]
          = [p \in 1..n |-> Storing(0 + p - 1, vals[p])]
    BY <1>1, <1>2, <2>1
  <2> QED
    BY <2>2 DEF Cut
<1> HIDE DEF b
<1>4. Good(none) /\ none.fault = "none" /\ none.len = 0
  BY EmptyGood
<1> HIDE DEF none
<1>5. /\ Good(b)
      /\ b.len = IF 0 + n > none.len THEN 0 + n ELSE none.len
      /\ \A j \in Int : Read(b, j) = IF 0 <= j /\ j < 0 + n
                                     THEN Seen(vals[j - 0 + 1]) ELSE Read(none, j)
  <2>1. 0 \in 0..none.len
    BY <1>4
  <2>2. b = Looped(none, PutAt(0, vals))
    BY <1>2, <1>3 DEF PutAt
  <2>3. /\ Good(b)
        /\ b.len = IF 0 + Len(vals) > none.len THEN 0 + Len(vals) ELSE none.len
        /\ \A j \in Int : Read(b, j) = IF 0 <= j /\ j < 0 + Len(vals)
                                       THEN Seen(vals[j - 0 + 1]) ELSE Read(none, j)
    BY <1>2, <1>4, <2>1, <2>2, StoresRead
  <2> QED
    BY <1>2, <2>3
<1>6. b.len = n
  BY <1>4, <1>5
<1>7. ASSUME NEW j \in 0..(n - 1) PROVE Read(b, j) = vals[j + 1]
  <2>1. j \in Int /\ 0 <= j /\ j < 0 + n /\ j - 0 + 1 = j + 1 /\ j + 1 \in 1..n
    OBVIOUS
  <2> QED
    BY <1>2, <1>5, <2>1
<1>8. Contents(b) = vals
  BY <1>2, <1>5, <1>6, <1>7, SameContents
<1> QED
  BY <1>8 DEF vals, b

\* splice that cuts more than it puts moves the tail down.
LEMMA ClosingReads ==
  ASSUME NEW a, Good(a), a.fault = "none", NEW s \in Nat, NEW n \in Nat, NEW m \in Nat,
         m < n, s + n <= a.len
  PROVE  LET b == Looped(a, Closing(a, s, n, m))
         IN  /\ Good(b) /\ b.fault = "none" /\ b.len = a.len
             /\ \A j \in Int : j < s => Read(b, j) = Read(a, j)
             /\ \A j \in Int : s + m <= j /\ j < a.len - n + m =>
                                 Read(b, j) = Read(a, j - m + n)
<1> DEFINE end   == a.len - n
           d     == end - s
           down  == IF (s < 0) = (end < 0) THEN Upwards(s, end) ELSE <<>>
           freed == IF Unsigned(a.len) > Unsigned(end + m)
                    THEN Downwards(a.len, end + m) ELSE <<>>
           carries == [p \in DOMAIN down |-> Carrying(down[p] + n, down[p] + m)]
           erases  == [p \in DOMAIN freed |-> Erasing(freed[p] - 1)]
           e       == IF Unsigned(a.len) > Unsigned(end + m) THEN n - m ELSE 0
<1>1. a.len \in Nat
  BY DEF Good, Sized
<1>2. end \in Nat /\ d \in Nat /\ s + n + d <= a.len /\ s + n + d = a.len /\ s <= end
      /\ e \in Nat /\ a.len - e >= end + m
  BY <1>1
<1>3. carries = [p \in 1..d |-> Carrying(s + p - 1 + n, s + p - 1 + m)]
  <2>1. down = [p \in 1..d |-> s + p - 1]
    <3>1. (s < 0) = (end < 0)
      BY <1>2
    <3>2. ~(end < s)
      BY <1>2
    <3> QED
      BY <3>1, <3>2 DEF Upwards
  <2> QED
    BY <2>1
<1>4. erases = [p \in 1..e |-> Erasing(a.len - p)]
  <2>1. CASE Unsigned(a.len) > Unsigned(end + m)
    <3>1. ~(a.len < end + m) /\ a.len - (end + m) = n - m /\ e = n - m
      BY <1>1, <2>1
    <3>2. freed = [p \in 1..(n - m) |-> a.len - p + 1]
      BY <2>1, <3>1 DEF Downwards
    <3>3. \A p \in 1..(n - m) : freed[p] - 1 = a.len - p
      BY <1>1, <3>2
    <3>4. DOMAIN freed = 1..(n - m)
      BY <3>2
    <3> HIDE DEF freed, end, e
    <3> QED
      BY <3>1, <3>3, <3>4
  <2>2. CASE ~(Unsigned(a.len) > Unsigned(end + m))
    <3>1. freed = <<>> /\ e = 0
      BY <2>2
    <3> QED
      BY <3>1
  <2> QED
    BY <2>1, <2>2
<1>5. Closing(a, s, n, m) = carries \o erases
  BY DEF Closing
<1>6. carries \in Seq(Turns) /\ erases \in Seq(Turns)
  <2>1. \A p \in 1..d : s + p - 1 + n \in Int /\ s + p - 1 + m \in Int
    OBVIOUS
  <2>2. \A p \in 1..d : Carrying(s + p - 1 + n, s + p - 1 + m) \in Turns
    BY <2>1, CarryingType
  <2>3. \A p \in 1..e : a.len - p \in Int
    BY <1>1
  <2>4. \A p \in 1..e : Erasing(a.len - p) \in Turns
    BY <2>3, ErasingType
  <2> HIDE DEF carries, erases, d, e
  <2> QED
    BY <1>2, <1>3, <1>4, <2>2, <2>4
<1> HIDE DEF carries, erases, e
<1> DEFINE b == Looped(a, carries)
           c == Looped(a, Closing(a, s, n, m))
<1>7. c = Looped(b, erases)
  BY <1>5, <1>6, LoopedOn
<1>8. /\ Good(b) /\ b.fault = "none" /\ b.len = a.len
      /\ \A j \in Int : Read(b, j) = IF s + m <= j /\ j < s + m + d
                                     THEN Read(a, j - m + n) ELSE Read(a, j)
  <2>1. b = Looped(a, MovesDown(s, n, m, d))
    BY <1>3 DEF MovesDown
  <2>2. d \in Nat /\ s + n + d <= a.len
    BY <1>2
  <2> HIDE DEF b, c, d, down, freed, end
  <2> QED
    BY <2>1, <2>2, CarriesDownRead
<1> HIDE DEF b, c
<1>9. /\ Good(c) /\ c.fault = "none" /\ c.len = b.len
      /\ \A j \in Int : j < a.len - e => Read(c, j) = Read(b, j)
  <2>1. a.len \in Int
    BY <1>1
  <2>2. c = Looped(b, FreesBelow(a.len, e)) /\ e \in Nat
    BY <1>2, <1>4, <1>7 DEF FreesBelow
  <2> QED
    BY <1>8, <2>1, <2>2, ErasesRead
<1>10. ASSUME NEW j \in Int, j < s PROVE Read(c, j) = Read(a, j)
  <2>1. j < a.len - e /\ ~(s + m <= j)
    BY <1>1, <1>2, <1>10
  <2> QED
    BY <1>8, <1>9, <2>1
<1>11. ASSUME NEW j \in Int, s + m <= j, j < a.len - n + m
       PROVE  Read(c, j) = Read(a, j - m + n)
  <2>1. j < a.len - e /\ j < s + m + d
    BY <1>1, <1>2, <1>11
  <2> QED
    BY <1>8, <1>9, <1>11, <2>1
<1> QED
  BY <1>8, <1>9, <1>10, <1>11 DEF c

\* One that puts more than it cuts moves the tail up.
LEMMA OpeningReads ==
  ASSUME NEW a, Good(a), a.fault = "none", NEW s \in Nat, NEW n \in Nat, NEW m \in Nat,
         n < m, s + n <= a.len,
         Looped(a, Opening(a, s, n, m)).fault = "none"
  PROVE  LET b == Looped(a, Opening(a, s, n, m))
         IN  /\ Good(b) /\ a.len <= b.len
             /\ \A j \in Int : j < s => Read(b, j) = Read(a, j)
             /\ \A j \in Int : s + m <= j => Read(b, j) = Read(a, j - m + n)
<1> DEFINE d  == a.len - n - s
           up == m - n
           hs == Downwards(a.len - n, s)
           b == Looped(a, Opening(a, s, n, m))
<1>1. a.len \in Nat
  BY DEF Good, Sized
<1>2. d \in Nat /\ d <= a.len /\ up \in Nat \ {0} /\ ~(a.len - n < s)
      /\ a.len + up - d = s + m
  BY <1>1
<1>3. hs = [p \in 1..d |-> a.len - n - p + 1]
  BY <1>2 DEF Downwards
<1>4. Opening(a, s, n, m) = MovesUp(a, up, d)
  <2>1. Opening(a, s, n, m) =
          [p \in DOMAIN hs |-> Carrying(hs[p] + n - 1, hs[p] + m - 1)]
    BY DEF Opening
  <2>2. \A p \in 1..d : a.len - n - p + 1 + n - 1 = a.len - p
                        /\ a.len - n - p + 1 + m - 1 = a.len - p + up
    BY <1>1
  <2> HIDE DEF hs, d, up
  <2> QED
    BY <1>3, <2>1, <2>2 DEF MovesUp
<1> HIDE DEF d, up
<1>5. /\ Good(b) /\ a.len <= b.len
      /\ \A j \in Int : Read(b, j) = IF j >= a.len + up - d THEN Read(a, j - up)
                                     ELSE Read(a, j)
  BY <1>2, <1>4, CarriesUpRead
<1> HIDE DEF b
<1>6. ASSUME NEW j \in Int, j < s PROVE Read(b, j) = Read(a, j)
  <2>1. ~(j >= a.len + up - d)
    BY <1>2, <1>6
  <2> QED
    BY <1>5, <2>1
<1>7. ASSUME NEW j \in Int, s + m <= j PROVE Read(b, j) = Read(a, j - m + n)
  <2>1. j >= a.len + up - d
    BY <1>2, <1>7
  <2>2. j - up = j - m + n
    BY <1>2 DEF up
  <2> QED
    BY <1>5, <2>1, <2>2
<1> QED
  BY <1>5, <1>6, <1>7 DEF b

(***************************************************************************)
(* What splice leaves, when it cuts n elements at s and puts the m of vs:  *)
(* the elements before the position, those it was given, and those behind  *)
(* the cut.                                                                *)
(***************************************************************************)
SpliceShows(a, s, n, vs, m, d) ==
  /\ d.len = a.len - n + m
  /\ \A j \in 0..(a.len - n + m - 1) :
       Read(d, j) = IF j < s THEN Read(a, j)
                    ELSE IF j < s + m THEN vs[j - s + 1]
                    ELSE Read(a, j - m + n)

LEMMA SplicedReads ==
  ASSUME NEW a, Good(a), a.fault = "none", NEW s \in Nat, NEW n \in Nat,
         s + n <= a.len, NEW vs \in Seq(Vals), Spliced(a, s, n, vs).fault = "none"
  PROVE  SpliceShows(a, s, n, vs, Len(vs), Spliced(a, s, n, vs))
<1> DEFINE m == Len(vs)
           d == Spliced(a, s, n, vs)
           moves == IF m < n THEN Closing(a, s, n, m)
                    ELSE IF m > n THEN Opening(a, s, n, m) ELSE <<>>
           puts  == [p \in 1..m |-> Storing(s + p - 1, vs[p])]
           b     == Looped(a, moves)
           c     == Looped(a, moves \o puts)
           size  == a.len - n + m
<1>1. m \in Nat /\ a.len \in Nat /\ a.len \in Int /\ size \in Nat /\ s <= a.len
  <2>1. m \in Nat /\ a.len \in Nat
    BY DEF Good, Sized
  <2> QED
    BY <2>1
<1>2. moves \in Seq(Turns)
  BY <1>1, ClosingType, OpeningType
<1>3. puts \in Seq(Turns)
  <2>1. \A p \in 1..m : s + p - 1 \in Int /\ vs[p] \in Vals
    OBVIOUS
  <2>2. \A p \in 1..m : Storing(s + p - 1, vs[p]) \in Turns
    BY <2>1, StoringType
  <2> QED
    BY <1>1, <2>2
<1>4. vs \in Seq(Written) /\ \A p \in 1..m : vs[p] \in Vals
  <2>1. Vals \subseteq Written
    BY ValsWritten
  <2> QED
    BY <2>1, SeqMonotonic
<1>5. d = IF c.fault # "none" THEN c ELSE SetLength(c, size)
  BY DEF Spliced
<1>6. c.fault = "none" /\ d = SetLength(c, size) /\ d.fault = "none"
  BY <1>5
<1>7. m < n => moves = Closing(a, s, n, m)
  OBVIOUS
<1>8. n < m => moves = Opening(a, s, n, m)
  BY <1>1
<1>9. m = n => moves = <<>>
  BY <1>1
<1> HIDE DEF moves, m
<1>10. c = Looped(b, puts)
  <2> HIDE DEF puts
  <2> QED
    BY <1>2, <1>3, LoopedOn
<1>11. Good(b) /\ b.fault \in {"none", "bounds"}
  BY <1>2, LoopedGood
<1>12. b.fault = "none"
  <2> HIDE DEF b, c, puts
  <2>1. PICK f : History(f, b, puts) /\ Looped(b, puts) = f[Len(puts)]
    BY <1>3, LoopHasHistory
  <2>2. Len(puts) \in Nat
    BY <1>3
  <2>3. AllTaken(f, puts)
    BY <1>6, <1>10, <2>1, <2>2, AliveThroughout
  <2>4. f[0].fault = "none"
    BY <2>2, <2>3 DEF AllTaken
  <2> QED
    BY <2>1, <2>4 DEF History
<1>13. /\ s <= b.len
       /\ \A j \in Int : j < s => Read(b, j) = Read(a, j)
       /\ \A j \in Int : s + m <= j /\ j < size => Read(b, j) = Read(a, j - m + n)
  <2>1. CASE m < n
    <3>1. b = Looped(a, Closing(a, s, n, m))
      BY <1>7, <2>1
    <3> HIDE DEF b
    <3>2. /\ b.len = a.len
          /\ \A j \in Int : j < s => Read(b, j) = Read(a, j)
          /\ \A j \in Int : s + m <= j /\ j < a.len - n + m =>
                              Read(b, j) = Read(a, j - m + n)
      BY <1>1, <2>1, <3>1, ClosingReads
    <3> QED
      BY <1>1, <3>2
  <2>2. CASE n < m
    <3>1. b = Looped(a, Opening(a, s, n, m))
      BY <1>8, <2>2
    <3> HIDE DEF b
    <3>2. /\ Good(b) /\ a.len <= b.len
          /\ \A j \in Int : j < s => Read(b, j) = Read(a, j)
          /\ \A j \in Int : s + m <= j => Read(b, j) = Read(a, j - m + n)
      BY <1>1, <1>12, <2>2, <3>1, OpeningReads
    <3>3. s <= b.len
      BY <1>1, <3>2 DEF Good, Sized
    <3> QED
      BY <3>2, <3>3
  <2>3. CASE m = n
    <3>1. b = a
      BY <1>9, <2>3, LoopedNone
    <3>2. \A j \in Int : j - m + n = j
      BY <1>1, <2>3
    <3> QED
      BY <1>1, <3>1, <3>2
  <2> QED
    BY <1>1, <2>1, <2>2, <2>3
<1> HIDE DEF b
<1>14. /\ Good(c)
       /\ \A j \in Int : Read(c, j) = IF s <= j /\ j < s + m
                                      THEN Seen(vs[j - s + 1]) ELSE Read(b, j)
  <2>1. b.len \in Nat
    BY <1>11 DEF Good, Sized
  <2>2. s \in 0..b.len
    BY <1>13, <2>1
  <2>3. c = Looped(b, PutAt(s, vs))
    BY <1>10 DEF PutAt, m
  <2>4. m = Len(vs)
    BY DEF m
  <2> HIDE DEF c, puts
  <2> QED
    BY <1>4, <1>11, <1>12, <2>2, <2>3, <2>4, StoresRead
<1> HIDE DEF c, d, size, puts
<1>15. /\ d.len = size
       /\ \A j \in Int : Read(d, j) = IF j < size THEN Read(c, j) ELSE Undef
  <2>1. size \in Int /\ SetLength(c, size).fault = "none"
    BY <1>1, <1>6
  <2> QED
    BY <1>6, <1>14, <2>1, SetLengthReads
<1>16. ASSUME NEW j \in 0..(size - 1)
       PROVE  Read(d, j) = IF j < s THEN Read(a, j)
                           ELSE IF j < s + m THEN vs[j - s + 1]
                           ELSE Read(a, j - m + n)
  <2>1. j \in Int /\ j < size
    BY <1>1
  <2>2. Read(d, j) = Read(c, j)
    BY <1>15, <2>1
  <2>3. CASE j < s
    <3>1. ~(s <= j)
      BY <2>1, <2>3
    <3> QED
      BY <1>13, <1>14, <2>1, <2>2, <2>3, <3>1
  <2>4. CASE ~(j < s) /\ j < s + m
    <3>1. s <= j /\ j - s + 1 \in 1..m
      BY <1>1, <2>1, <2>4
    <3>2. Seen(vs[j - s + 1]) = vs[j - s + 1]
      BY <1>4, <3>1, SeenOnce
    <3> QED
      BY <1>14, <2>1, <2>2, <2>4, <3>1, <3>2
  <2>5. CASE ~(j < s) /\ ~(j < s + m)
    <3>1. s + m <= j
      BY <1>1, <2>1, <2>5
    <3> QED
      BY <1>13, <1>14, <2>1, <2>2, <2>5, <3>1
  <2> QED
    BY <2>3, <2>4, <2>5
<1>17. SpliceShows(a, s, n, vs, m, d)
  <2>1. d.len = a.len - n + m
    BY <1>15 DEF size
  <2>2. ASSUME NEW j \in 0..(a.len - n + m - 1)
        PROVE  Read(d, j) = IF j < s THEN Read(a, j)
                            ELSE IF j < s + m THEN vs[j - s + 1]
                            ELSE Read(a, j - m + n)
    <3>1. j \in 0..(size - 1)
      BY <1>1, SMTT(30) DEF size
    <3> QED
      BY <1>16, <3>1
  <2> QED
    BY <2>1, <2>2, Zenon DEF SpliceShows
<1> QED
  BY <1>17 DEF m, d

-----------------------------------------------------------------------------
(***************************************************************************)
(* What each method makes of the sequence an array shows.                  *)
(***************************************************************************)

\* c made as long as n.
Fit(c, n) == IF n <= Len(c) THEN SubSeq(c, 1, n)
             ELSE c \o [p \in 1..(n - Len(c)) |-> Undef]

\* A sequence made as long as n is one of n written values.
LEMMA FitSeq ==
  ASSUME NEW c \in Seq(Written), NEW n \in Nat
  PROVE  /\ Fit(c, n) \in Seq(Written) /\ Len(Fit(c, n)) = n
         /\ \A p \in 1..n : Fit(c, n)[p] = IF p <= Len(c) THEN c[p] ELSE Undef
<1>0. Len(c) \in Nat /\ Undef \in Written /\ \A p \in 1..Len(c) : c[p] \in Written
  BY ValsWritten
<1>1. CASE n <= Len(c)
  <2>1. 1 \in Int /\ n \in Int /\ \A i \in 1..n : c[i] \in Written
    BY <1>0, <1>1
  <2>2. /\ SubSeq(c, 1, n) \in Seq(Written)
        /\ Len(SubSeq(c, 1, n)) = IF 1 <= n THEN n - 1 + 1 ELSE 0
        /\ \A i \in 1..(n - 1 + 1) : SubSeq(c, 1, n)[i] = c[1 + i - 1]
    BY <2>1, SubSeqProperties
  <2>3. Fit(c, n) = SubSeq(c, 1, n)
    BY <1>1 DEF Fit
  <2>4. (IF 1 <= n THEN n - 1 + 1 ELSE 0) = n /\ n - 1 + 1 = n
        /\ \A p \in 1..n : 1 + p - 1 = p /\ p <= Len(c)
    BY <1>0, <1>1
  <2> QED
    BY <2>2, <2>3, <2>4
<1>2. CASE ~(n <= Len(c))
  <2> DEFINE k == n - Len(c)
             none == [p \in 1..k |-> Undef]
  <2>1. k \in Nat /\ Len(c) + k = n
    BY <1>0, <1>2
  <2>2. none \in Seq(Written) /\ Len(none) = k /\ \A p \in 1..k : none[p] = Undef
    BY <1>0, <2>1
  <2>3. Fit(c, n) = c \o none
    BY <1>2 DEF Fit
  <2> HIDE DEF k, none
  <2>4. /\ c \o none \in Seq(Written)
        /\ Len(c \o none) = Len(c) + Len(none)
        /\ \A i \in 1..(Len(c) + Len(none)) :
             (c \o none)[i] = IF i <= Len(c) THEN c[i] ELSE none[i - Len(c)]
    BY <2>2, ConcatProperties
  <2>5. ASSUME NEW p \in 1..n PROVE (c \o none)[p] = IF p <= Len(c) THEN c[p] ELSE Undef
    <3>1. ~(p <= Len(c)) => p - Len(c) \in 1..k
      BY <1>0, <2>1
    <3>2. p \in 1..(Len(c) + Len(none))
      BY <2>1, <2>2
    <3> QED
      BY <2>2, <2>4, <3>1, <3>2
  <2> QED
    BY <2>1, <2>2, <2>3, <2>4, <2>5
<1> QED
  BY <1>1, <1>2

\* A store that finds room lengthens the sequence with undefined and sets its element.
LEMMA StoreShows ==
  ASSUME NEW a, Good(a), a.fault = "none", NEW i \in Int, NEW v \in Vals,
         Store(a, i, v).fault = "none"
  PROVE  i >= 0 /\ Contents(Store(a, i, v)) =
           [Fit(Contents(a), IF i < Len(Contents(a)) THEN Len(Contents(a)) ELSE i + 1)
              EXCEPT ![i + 1] = v]
<1> DEFINE b == Store(a, i, v)
           n == IF i < a.len THEN a.len ELSE i + 1
           c == Contents(a)
           d == [Fit(c, n) EXCEPT ![i + 1] = v]
<1>1. v \in Written /\ Seen(v) = v /\ a.len \in Nat
  BY ValsWritten, SeenOnce DEF Good, Sized
<1>2. /\ i >= 0 /\ Good(b)
      /\ b.len = IF i >= a.len THEN i + 1 ELSE a.len
      /\ \A j \in Int : Read(b, j) = IF j = i THEN Seen(v) ELSE Read(a, j)
  BY <1>1, StoreReads, StoreGood
<1>3. n \in Nat /\ b.len = n /\ i + 1 \in 1..n
  BY <1>1, <1>2
<1>4. c \in Seq(Written) /\ Len(c) = a.len /\ \A p \in 1..a.len : c[p] = Read(a, p - 1)
  BY ContentsRead
<1> HIDE DEF b, c
<1>5. /\ Fit(c, n) \in Seq(Written) /\ Len(Fit(c, n)) = n
      /\ \A p \in 1..n : Fit(c, n)[p] = IF p <= Len(c) THEN c[p] ELSE Undef
  <2> HIDE DEF n
  <2> QED
    BY <1>3, <1>4, FitSeq
<1>6. d \in Seq(Written) /\ Len(d) = n
      /\ \A p \in 1..n : d[p] = IF p = i + 1 THEN v ELSE Fit(c, n)[p]
  <2> HIDE DEF n
  <2> DEFINE t == Fit(c, n)
  <2> HIDE DEF t
  <2>1. t \in Seq(Written) /\ Len(t) = n /\ i + 1 \in 1..Len(t)
    BY <1>3, <1>5 DEF t
  <2>2. /\ [t EXCEPT ![i + 1] = v] \in Seq(Written)
        /\ Len([t EXCEPT ![i + 1] = v]) = Len(t)
        /\ \A j \in 1..Len(t) : [t EXCEPT ![i + 1] = v][j] = IF j = i + 1 THEN v ELSE t[j]
    BY <1>1, <2>1, ExceptSeq
  <2> QED
    BY <2>1, <2>2 DEF t
<1> HIDE DEF d
<1>7. ASSUME NEW j \in 0..(n - 1) PROVE Read(b, j) = d[j + 1]
  <2>1. j \in Int /\ j + 1 \in 1..n /\ (j + 1 = i + 1 <=> j = i) /\ (j + 1) - 1 = j
        /\ (j + 1 <= a.len <=> j < a.len) /\ 0 <= j
    BY <1>1, <1>3
  <2>2. CASE j = i
    BY <1>1, <1>2, <1>6, <2>1, <2>2
  <2>3. CASE j # i /\ j < a.len
    <3>1. d[j + 1] = c[j + 1] /\ j + 1 \in 1..a.len
      BY <1>1, <1>4, <1>5, <1>6, <2>1, <2>3
    <3>2. c[j + 1] = Read(a, j)
      BY <1>4, <2>1, <3>1
    <3> QED
      BY <1>2, <2>1, <2>3, <3>1, <3>2
  <2>4. CASE j # i /\ ~(j < a.len)
    <3>1. d[j + 1] = Undef
      BY <1>4, <1>5, <1>6, <2>1, <2>4
    <3>2. Read(a, j) = Undef
      BY <2>1, <2>4, ReadIsSeen
    <3> QED
      BY <1>2, <2>1, <2>4, <3>1, <3>2
  <2> QED
    BY <2>2, <2>3, <2>4
<1>8. Contents(b) = d
  <2> HIDE DEF n
  <2> QED
    BY <1>2, <1>3, <1>6, <1>7, SameContents
<1> QED
  BY <1>2, <1>4, <1>8 DEF b, c, d

\* A new length cuts the sequence or fills it up.
LEMMA LengthShows ==
  ASSUME NEW a, Good(a), a.fault = "none", NEW n \in Int,
         SetLength(a, n).fault = "none"
  PROVE  n >= 0 /\ Contents(SetLength(a, n)) = Fit(Contents(a), n)
<1> DEFINE b == SetLength(a, n)
           c == Contents(a)
<1>1. /\ n >= 0 /\ b.len = n
      /\ \A j \in Int : Read(b, j) = IF j < n THEN Read(a, j) ELSE Undef
  BY SetLengthReads
<1>2. Good(b) /\ n \in Nat /\ a.len \in Nat
  BY <1>1, SetLengthGood DEF Good, Sized
<1>3. c \in Seq(Written) /\ Len(c) = a.len /\ \A p \in 1..a.len : c[p] = Read(a, p - 1)
  BY ContentsRead
<1> HIDE DEF b, c
<1>4. /\ Fit(c, n) \in Seq(Written) /\ Len(Fit(c, n)) = n
      /\ \A p \in 1..n : Fit(c, n)[p] = IF p <= Len(c) THEN c[p] ELSE Undef
  BY <1>2, <1>3, FitSeq
<1>5. ASSUME NEW j \in 0..(n - 1) PROVE Read(b, j) = Fit(c, n)[j + 1]
  <2>1. j \in Int /\ j + 1 \in 1..n /\ (j + 1) - 1 = j /\ j < n
        /\ (j + 1 <= a.len <=> j < a.len) /\ 0 <= j
    BY <1>2
  <2>2. CASE j < a.len
    <3>1. j + 1 \in 1..a.len
      BY <1>2, <2>1, <2>2
    <3> QED
      BY <1>1, <1>3, <1>4, <2>1, <2>2, <3>1
  <2>3. CASE ~(j < a.len)
    <3>1. Read(a, j) = Undef
      BY <2>1, <2>3, ReadIsSeen
    <3> QED
      BY <1>1, <1>3, <1>4, <2>1, <2>3, <3>1
  <2> QED
    BY <2>2, <2>3
<1>6. Contents(b) = Fit(c, n)
  BY <1>1, <1>2, <1>4, <1>5, SameContents
<1> QED
  BY <1>1, <1>6 DEF b, c

\* An erased index is undefined.
LEMMA EraseShows ==
  ASSUME NEW a, Good(a), NEW i \in Int
  PROVE  Contents(Erase(a, i)) =
           [p \in DOMAIN Contents(a) |-> IF p = i + 1 THEN Undef ELSE Contents(a)[p]]
<1> DEFINE b == Erase(a, i)
           c == Contents(a)
           d == [p \in DOMAIN c |-> IF p = i + 1 THEN Undef ELSE c[p]]
<1>1. Good(b) /\ b.len = a.len /\ a.len \in Nat
      /\ \A j \in Int : Read(b, j) = IF j = i THEN Undef ELSE Read(a, j)
  BY EraseGood, EraseReads DEF Good, Sized
<1>2. c \in Seq(Written) /\ Len(c) = a.len /\ \A p \in 1..a.len : c[p] = Read(a, p - 1)
  BY ContentsRead
<1> HIDE DEF b, c
<1>3. DOMAIN c = 1..a.len /\ Undef \in Written /\ \A p \in 1..a.len : c[p] \in Written
  BY <1>2, ValsWritten
<1>4. d \in Seq(Written) /\ Len(d) = a.len
      /\ \A p \in 1..a.len : d[p] = IF p = i + 1 THEN Undef ELSE c[p]
  BY <1>1, <1>3
<1> HIDE DEF d
<1>5. ASSUME NEW j \in 0..(a.len - 1) PROVE Read(b, j) = d[j + 1]
  <2>1. j \in Int /\ j + 1 \in 1..a.len /\ (j + 1) - 1 = j /\ (j + 1 = i + 1 <=> j = i)
    BY <1>1
  <2>2. d[j + 1] = IF j = i THEN Undef ELSE c[j + 1]
    BY <1>4, <2>1
  <2>3. c[j + 1] = Read(a, j)
    BY <1>2, <2>1
  <2> QED
    BY <1>1, <2>1, <2>2, <2>3
<1>6. Contents(b) = d
  BY <1>1, <1>4, <1>5, SameContents
<1> QED
  BY <1>6 DEF b, c, d

\* ws is what a program sees of the cells vs.
Shows(vs, ws) == Len(ws) = Len(vs) /\ \A p \in 1..Len(vs) : Seen(vs[p]) = ws[p]

\* push appends, whether or not the block had room.
LEMMA PushShows ==
  ASSUME NEW a, Good(a), a.fault = "none", NEW vs \in Seq(Written),
         NEW ws \in Seq(Written), Shows(vs, ws)
  PROVE  Contents(PushDense(a, vs)) = Contents(a) \o ws
<1> DEFINE b == Grow(a, Len(vs))
           m == [i \in DOMAIN b.mem |->
                   IF b.len <= i /\ i < b.len + Len(vs) THEN vs[i - b.len + 1] ELSE b.mem[i]]
           d == PushDense(a, vs)
           c == Contents(a)
           n == a.len + Len(vs)
<1>1. /\ Good(b) /\ b.len = a.len /\ a.len + Len(vs) <= b.alloc /\ b.fault = "none"
      /\ \A j \in 0..(a.len - 1) : b.mem[j] = a.mem[j]
  <2>1. Len(vs) \in Nat
    OBVIOUS
  <2>2. /\ Good(b) /\ b.len = a.len /\ a.len + Len(vs) <= b.alloc
        /\ b.fault = a.fault \/ b.fault = "none"
    BY <2>1, GrowGood
  <2>3. \A j \in 0..(a.len - 1) : b.mem[j] = a.mem[j]
    BY <2>1, GrowReads
  <2> QED
    BY <2>2, <2>3
<1>2. d = [[b EXCEPT !.mem = m] EXCEPT !.len = b.len + Len(vs)]
  BY <1>1 DEF PushDense, Write
<1>3. b.mem \in [0..(b.alloc - 1) -> Cells] /\ b.len \in Nat /\ b.alloc \in Nat
      /\ a.len \in Nat /\ Len(vs) \in Nat /\ n \in Nat /\ b \in Arrs
  BY <1>1 DEF Good, Sized, Arrs
<1>4. Good(d) /\ d.len = n
  BY PushGood
<1> HIDE DEF b
<1>5. d.mem = m
  <2> HIDE DEF m
  <2> QED
    BY <1>2, <1>3 DEF Arrs
<1>6. ASSUME NEW j \in 0..(n - 1)
      PROVE  m[j] = IF j < a.len THEN a.mem[j] ELSE vs[j - a.len + 1]
  <2>1. j \in 0..(b.alloc - 1) /\ j < b.len + Len(vs)
    BY <1>1, <1>3
  <2>2. m[j] = IF b.len <= j THEN vs[j - b.len + 1] ELSE b.mem[j]
    BY <1>3, <2>1
  <2>3. j < a.len => j \in 0..(a.len - 1)
    BY <1>3
  <2> HIDE DEF m
  <2> QED
    BY <1>1, <1>3, <2>1, <2>2, <2>3
<1> HIDE DEF m, d, n
<1>7. c \in Seq(Written) /\ Len(c) = a.len /\ \A p \in 1..a.len : c[p] = Read(a, p - 1)
  BY ContentsRead
<1> HIDE DEF c
<1>8. Len(ws) = Len(vs) /\ \A p \in 1..Len(vs) : Seen(vs[p]) = ws[p]
  BY DEF Shows
<1>12. /\ c \o ws \in Seq(Written)
       /\ Len(c \o ws) = Len(c) + Len(ws)
       /\ \A i \in 1..(Len(c) + Len(ws)) :
            (c \o ws)[i] = IF i <= Len(c) THEN c[i] ELSE ws[i - Len(c)]
  BY <1>7, ConcatProperties
<1>9. /\ c \o ws \in Seq(Written)
      /\ Len(c \o ws) = Len(c) + Len(vs)
      /\ \A i \in 1..(Len(c) + Len(vs)) :
           (c \o ws)[i] = IF i <= Len(c) THEN c[i] ELSE ws[i - Len(c)]
  BY <1>8, <1>12
<1>10. Len(c \o ws) = n /\ n = a.len + Len(vs)
  BY <1>7, <1>9 DEF n
<1>11. ASSUME NEW j \in 0..(n - 1) PROVE Read(d, j) = (c \o ws)[j + 1]
  <2> DEFINE k == a.len
             l == Len(vs)
  <2>0. k \in Nat /\ l \in Nat /\ Len(c) = k /\ n = k + l
    BY <1>3, <1>7, <1>10
  <2> HIDE DEF k, l
  <2>5. j \in Int /\ 0 <= j /\ j < n /\ (j + 1) - 1 = j /\ j + 1 \in 1..(k + l)
    BY <2>0
  <2>6. (j + 1 <= k <=> j < k) /\ j + 1 - k = j - k + 1
    BY <2>0
  <2>1. j \in Int /\ 0 <= j /\ j < n /\ j + 1 \in 1..(Len(c) + Len(vs)) /\ (j + 1) - 1 = j
        /\ (j + 1 <= Len(c) <=> j < a.len) /\ j + 1 - Len(c) = j - a.len + 1
    BY <2>0, <2>5, <2>6, Zenon DEF k, l
  <2>2. Read(d, j) = Seen(m[j])
    BY <1>4, <1>5, <2>1, ReadIsSeen
  <2>3. CASE j < a.len
    <3>1. (c \o ws)[j + 1] = c[j + 1] /\ j + 1 \in 1..a.len
      BY <1>3, <1>9, <2>1, <2>3
    <3>2. Read(a, j) = Seen(a.mem[j])
      BY <2>1, <2>3, ReadIsSeen
    <3>3. c[j + 1] = Read(a, j)
      BY <1>7, <2>1, <3>1
    <3> QED
      BY <1>6, <2>2, <2>3, <3>1, <3>2, <3>3
  <2>4. CASE ~(j < a.len)
    <3>1. (c \o ws)[j + 1] = ws[j - a.len + 1]
      BY <1>9, <2>1, <2>4
    <3>0. j < a.len + Len(vs) /\ j \in Int
      BY <1>10, <2>1
    <3>2. j - a.len + 1 \in 1..Len(vs)
      BY <1>3, <2>4, <3>0
    <3> QED
      BY <1>6, <1>8, <2>2, <2>4, <3>1, <3>2
  <2> QED
    BY <2>3, <2>4
<1>13. Contents(d) = c \o ws
  BY <1>3, <1>4, <1>9, <1>10, <1>11, SameContents
<1> QED
  BY <1>13 DEF c, d

\* An array that reads as one sequence, then another, is the two of them.
LEMMA JoinShows ==
  ASSUME NEW d, Good(d), NEW s \in Seq(Written), NEW t \in Seq(Written),
         d.len = Len(s) + Len(t),
         \A j \in 0..(Len(s) - 1) : Read(d, j) = s[j + 1],
         \A j \in 0..(Len(t) - 1) : Read(d, Len(s) + j) = t[j + 1]
  PROVE  Contents(d) = s \o t
<1> DEFINE n == Len(s) + Len(t)
<1>1. /\ s \o t \in Seq(Written) /\ Len(s \o t) = n /\ n \in Nat
      /\ \A i \in 1..n : (s \o t)[i] = IF i <= Len(s) THEN s[i] ELSE t[i - Len(s)]
  BY ConcatProperties
<1>2. ASSUME NEW j \in 0..(n - 1) PROVE Read(d, j) = (s \o t)[j + 1]
  <2>0. Len(s) \in Nat /\ Len(t) \in Nat
    OBVIOUS
  <2>1. CASE j < Len(s)
    <3>1. j \in 0..(Len(s) - 1) /\ j + 1 \in 1..n /\ j + 1 <= Len(s)
      BY <2>0, <2>1
    <3> QED
      BY <1>1, <3>1
  <2>2. CASE ~(j < Len(s))
    <3>1. j - Len(s) \in 0..(Len(t) - 1) /\ j + 1 \in 1..n /\ ~(j + 1 <= Len(s))
          /\ Len(s) + (j - Len(s)) = j /\ (j - Len(s)) + 1 = j + 1 - Len(s)
      BY <2>0, <2>2
    <3>2. Read(d, Len(s) + (j - Len(s))) = t[(j - Len(s)) + 1]
      BY <3>1
    <3> QED
      BY <1>1, <3>1, <3>2
  <2> QED
    BY <2>1, <2>2
<1> HIDE DEF n
<1> QED
  BY <1>1, <1>2, SameContents DEF n

\* What part of an array reads.
LEMMA PartReads ==
  ASSUME NEW a, Good(a), NEW lo \in Nat, NEW hi \in Nat, lo <= hi, hi <= a.len
  PROVE  LET s == SubSeq(Contents(a), lo + 1, hi)
         IN  /\ s \in Seq(Written) /\ Len(s) = hi - lo
             /\ \A j \in 0..(hi - lo - 1) : s[j + 1] = Read(a, lo + j)
<1> DEFINE c == Contents(a)
           s == SubSeq(c, lo + 1, hi)
<1>1. c \in Seq(Written) /\ Len(c) = a.len /\ a.len \in Nat
      /\ \A p \in 1..a.len : c[p] = Read(a, p - 1)
  BY ContentsRead DEF Good, Sized
<1> HIDE DEF c
<1>2. \A i \in (lo + 1)..hi : i \in 1..a.len /\ c[i] \in Written
  BY <1>1
<1>3. /\ s \in Seq(Written)
      /\ Len(s) = IF lo + 1 <= hi THEN hi - (lo + 1) + 1 ELSE 0
      /\ \A i \in 1..(hi - (lo + 1) + 1) : s[i] = c[lo + 1 + i - 1]
  BY <1>2, SubSeqProperties
<1> HIDE DEF s
<1>4. Len(s) = hi - lo
  BY <1>3
<1>5. ASSUME NEW j \in 0..(hi - lo - 1) PROVE s[j + 1] = Read(a, lo + j)
  <2>1. j + 1 \in 1..(hi - (lo + 1) + 1) /\ lo + 1 + (j + 1) - 1 = lo + j + 1
        /\ lo + j + 1 \in 1..a.len /\ (lo + j + 1) - 1 = lo + j
    BY <1>1
  <2> QED
    BY <1>1, <1>3, <2>1
<1> QED
  BY <1>3, <1>4, <1>5 DEF s, c

\* pop and shift take one end; of nothing they take undefined.
LEMMA PopShows ==
  ASSUME NEW a, Good(a), a.fault = "none"
  PROVE  /\ Contents(a) = <<>> <=> a.len = 0
         /\ a.len = 0 => PopDense(a) = a /\ ShiftDense(a) = a /\ Read(a, a.len - 1) = Undef
                         /\ Read(a, 0) = Undef
         /\ a.len # 0 =>
              /\ Contents(PopDense(a)) = SubSeq(Contents(a), 1, Len(Contents(a)) - 1)
              /\ Contents(a)[Len(Contents(a))] = Read(a, a.len - 1)
              /\ Contents(a)[1] = Read(a, 0)
<1>1. Contents(a) \in Seq(Written) /\ Len(Contents(a)) = a.len /\ a.len \in Nat
      /\ \A p \in 1..a.len : Contents(a)[p] = Read(a, p - 1)
  BY ContentsRead DEF Good, Sized
<1>2. Contents(a) = <<>> <=> a.len = 0
  BY <1>1
<1>3. ASSUME a.len = 0
      PROVE  PopDense(a) = a /\ ShiftDense(a) = a /\ Read(a, a.len - 1) = Undef
             /\ Read(a, 0) = Undef
  BY <1>3 DEF PopDense, ShiftDense, Read, Present
<1>4. ASSUME a.len # 0
      PROVE  /\ Contents(PopDense(a)) = SubSeq(Contents(a), 1, Len(Contents(a)) - 1)
             /\ Contents(a)[Len(Contents(a))] = Read(a, a.len - 1)
             /\ Contents(a)[1] = Read(a, 0)
  <2> DEFINE n == a.len - 1
             s == SubSeq(Contents(a), 0 + 1, n)
             d == CutTo(a, n)
  <2>1. n \in Nat /\ n <= a.len /\ a.len \in 1..a.len /\ 1 \in 1..a.len
    BY <1>1, <1>4
  <2>2. PopDense(a) = d
    BY <1>4 DEF PopDense
  <2>3. Good(d) /\ d.len = n /\ \A j \in Int : Read(d, j) = IF j < n THEN Read(a, j) ELSE Undef
    BY <2>1, CutToGood, CutToReads
  <2>4. s \in Seq(Written) /\ Len(s) = n /\ \A j \in 0..(n - 1) : s[j + 1] = Read(a, 0 + j)
    <3> HIDE DEF n
    <3>1. 0 \in Nat /\ 0 <= n /\ n - 0 = n /\ n - 0 - 1 = n - 1
      BY <2>1
    <3>2. /\ s \in Seq(Written) /\ Len(s) = n - 0
          /\ \A j \in 0..(n - 0 - 1) : s[j + 1] = Read(a, 0 + j)
      BY <2>1, <3>1, PartReads
    <3> QED
      BY <3>1, <3>2
  <2>7. s = SubSeq(Contents(a), 1, Len(Contents(a)) - 1)
    BY <1>1
  <2>8. Contents(a)[Len(Contents(a))] = Read(a, a.len - 1) /\ Contents(a)[1] = Read(a, 0)
    <3>1. 1 - 1 = 0
      OBVIOUS
    <3> QED
      BY <1>1, <2>1, <3>1
  <2> HIDE DEF n, s, d
  <2>5. \A j \in 0..(n - 1) : Read(d, j) = s[j + 1]
    <3>1. ASSUME NEW j \in 0..(n - 1) PROVE j < n /\ j \in Int /\ 0 + j = j
      BY <2>1
    <3> QED
      BY <2>3, <2>4, <3>1
  <2>6. Contents(d) = s
    BY <2>1, <2>3, <2>4, <2>5, SameContents
  <2> QED
    BY <2>2, <2>6, <2>7, <2>8
<1> QED
  BY <1>2, <1>3, <1>4, Zenon

\* shift leaves the rest, moved down by one.
LEMMA ShiftShows ==
  ASSUME NEW a, Good(a), a.fault = "none", a.len # 0
  PROVE  Contents(ShiftDense(a)) = Tail(Contents(a))
<1> DEFINE n == a.len - 1
           m == [i \in DOMAIN a.mem |->
                   IF 0 <= i /\ i < 0 + (a.len - 1) THEN a.mem[i - 0 + 1] ELSE a.mem[i]]
           b == [a EXCEPT !.mem = m]
           c == Contents(a)
           d == ShiftDense(a)
<1>1. a.len \in Nat /\ n \in Nat /\ a.len = n + 1 /\ a.len <= a.alloc /\ a.alloc \in Nat
      /\ a.mem \in [0..(a.alloc - 1) -> Cells]
  BY DEF Good, Sized, Contained, Arrs
<1>2. c \in Seq(Written) /\ Len(c) = a.len /\ \A p \in 1..a.len : c[p] = Read(a, p - 1)
  BY ContentsRead
<1>3. d = CutTo(b, n)
  BY DEF ShiftDense, Move
<1>4. ASSUME NEW i \in 0..(a.alloc - 1)
      PROVE  m[i] = IF i < n THEN a.mem[i + 1] ELSE a.mem[i]
  BY <1>1
<1>5. ASSUME NEW i \in 0..(a.alloc - 1)
      PROVE  m[i] \in Cells /\ (i < a.len => m[i] # Garbage)
  <2>1. \A j \in 0..(a.len - 1) : a.mem[j] # Garbage
    BY DEF Good, Contained
  <2>2. CASE i < n
    <3>1. i + 1 \in 0..(a.len - 1) /\ i + 1 \in 0..(a.alloc - 1)
      BY <1>1, <2>2
    <3> QED
      BY <1>1, <1>4, <2>1, <2>2, <3>1
  <2>3. CASE ~(i < n)
    <3>1. i < a.len => i \in 0..(a.len - 1)
      BY <1>1
    <3> QED
      BY <1>1, <1>4, <2>1, <2>3, <3>1
  <2> QED
    BY <2>2, <2>3
<1>6. m \in [0..(a.alloc - 1) -> Cells]
  BY <1>1, <1>5
<1> HIDE DEF m
<1>7. Sized(b) /\ b.alloc = a.alloc /\ b.mem = m /\ b.len = a.len
  BY <1>6, MemSized DEF Good
<1> HIDE DEF b
<1>8. Good(b)
  <2>1. \A i \in 0..(b.len - 1) : i \in 0..(a.alloc - 1) /\ i < a.len
    BY <1>1, <1>7
  <2> QED
    BY <1>1, <1>5, <1>7, <2>1 DEF Good, Contained
<1> HIDE DEF n, c, d
<1>9. Good(d) /\ d.len = n /\ \A j \in Int : Read(d, j) = IF j < n THEN Read(b, j) ELSE Undef
  <2>1. n <= b.len
    BY <1>1, <1>7
  <2> QED
    BY <1>1, <1>3, <1>8, <2>1, CutToGood, CutToReads
<1>10. /\ Tail(c) \in Seq(Written) /\ Len(Tail(c)) = n
       /\ \A i \in 1..n : Tail(c)[i] = c[i + 1]
  <2>1. c # <<>> /\ Len(c) - 1 = n
    BY <1>1, <1>2
  <2> QED
    BY <1>2, <2>1, HeadTailProperties
<1>11. ASSUME NEW j \in 0..(n - 1) PROVE Read(d, j) = Tail(c)[j + 1]
  <2>1. j \in Int /\ 0 <= j /\ j < n /\ j < b.len /\ j \in 0..(a.alloc - 1) /\ j + 1 \in 1..n
        /\ j + 1 + 1 \in 1..a.len /\ (j + 1 + 1) - 1 = j + 1 /\ j + 1 \in Int
        /\ 0 <= j + 1 /\ j + 1 < a.len
    BY <1>1, <1>7
  <2>2. Read(d, j) = Seen(m[j])
    BY <1>7, <1>8, <1>9, <2>1, ReadIsSeen
  <2>3. m[j] = a.mem[j + 1]
    BY <1>4, <2>1
  <2>4. Read(a, j + 1) = Seen(a.mem[j + 1])
    BY <2>1, ReadIsSeen
  <2>5. Tail(c)[j + 1] = Read(a, j + 1)
    BY <1>2, <1>10, <2>1
  <2> QED
    BY <2>2, <2>3, <2>4, <2>5
<1>12. Contents(d) = Tail(c)
  BY <1>1, <1>9, <1>10, <1>11, SameContents
<1> QED
  BY <1>12 DEF c, d

\* unshift puts its arguments in front.
LEMMA UnshiftShows ==
  ASSUME NEW a, Good(a), a.fault = "none", NEW vs \in Seq(Written),
         NEW ws \in Seq(Written), Shows(vs, ws)
  PROVE  Contents(UnshiftDense(a, vs)) = ws \o Contents(a)
<1> DEFINE b == Grow(a, Len(vs))
           k == Len(vs)
           moved == [i \in DOMAIN b.mem |->
                       IF Len(vs) <= i /\ i < Len(vs) + b.len
                       THEN b.mem[i - Len(vs) + 0] ELSE b.mem[i]]
           m == [i \in DOMAIN moved |->
                   IF 0 <= i /\ i < 0 + Len(vs) THEN vs[i - 0 + 1] ELSE moved[i]]
           n == b.len + Len(vs)
           d == UnshiftDense(a, vs)
           c == Contents(a)
<1>1. /\ Good(b) /\ b.len = a.len /\ a.len + k <= b.alloc /\ b.fault = "none"
      /\ \A j \in 0..(a.len - 1) : b.mem[j] = a.mem[j]
  <2>1. Len(vs) \in Nat
    OBVIOUS
  <2>2. /\ Good(b) /\ b.len = a.len /\ a.len + Len(vs) <= b.alloc
        /\ b.fault = a.fault \/ b.fault = "none"
    BY <2>1, GrowGood
  <2>3. \A j \in 0..(a.len - 1) : b.mem[j] = a.mem[j]
    BY <2>1, GrowReads
  <2> QED
    BY <2>2, <2>3
<1>2. d = [[b EXCEPT !.mem = m] EXCEPT !.len = n]
  <2> DEFINE e == Move(b, Len(vs), 0, b.len)
  <2>1. e = [b EXCEPT !.mem = moved]
    BY DEF Move
  <2>2. e.mem = moved /\ [e EXCEPT !.mem = m] = [b EXCEPT !.mem = m]
    BY <1>1, <2>1 DEF Good, Sized, Arrs
  <2>3. d = [Write(e, 0, vs) EXCEPT !.len = n]
    BY DEF UnshiftDense
  <2>4. Write(e, 0, vs) = [e EXCEPT !.mem = m]
    BY <2>2 DEF Write
  <2> QED
    BY <2>2, <2>3, <2>4
<1>3. b.mem \in [0..(b.alloc - 1) -> Cells] /\ b.len \in Nat /\ b.alloc \in Nat
      /\ a.len \in Nat /\ k \in Nat /\ b \in Arrs
  BY <1>1 DEF Good, Sized, Arrs
<1>4. Good(d) /\ d.len = a.len + k
  BY UnshiftGood
<1> HIDE DEF b
<1>5. d.mem = m
  <2> HIDE DEF m, d
  <2> QED
    BY <1>2, <1>3 DEF Arrs
<1>6. ASSUME NEW j \in 0..(k - 1) PROVE m[j] = vs[j + 1]
  BY <1>1, <1>3
<1>7. ASSUME NEW j \in 0..(a.len - 1) PROVE m[k + j] = a.mem[j]
  <2>1. k + j \in 0..(b.alloc - 1) /\ k <= k + j /\ k + j < k + b.len /\ ~(k + j < 0 + k)
        /\ (k + j) - k + 0 = j
    BY <1>1, <1>3
  <2>2. m[k + j] = b.mem[j]
    BY <1>3, <2>1
  <2> HIDE DEF m, k
  <2> QED
    BY <1>1, <2>2
<1> HIDE DEF m, d
<1>8. c \in Seq(Written) /\ Len(c) = a.len /\ \A p \in 1..a.len : c[p] = Read(a, p - 1)
  BY ContentsRead
<1>10. Len(ws) = k /\ \A p \in 1..k : Seen(vs[p]) = ws[p]
  BY DEF Shows
<1> HIDE DEF c, k
<1>11. ASSUME NEW j \in 0..(k - 1) PROVE Read(d, j) = ws[j + 1]
  <2>1. j \in Int /\ 0 <= j /\ j < d.len /\ j + 1 \in 1..k
    BY <1>3, <1>4
  <2>2. Read(d, j) = Seen(m[j])
    BY <1>4, <1>5, <2>1, ReadIsSeen
  <2> QED
    BY <1>6, <1>10, <2>1, <2>2
<1>12. ASSUME NEW j \in 0..(a.len - 1) PROVE Read(d, k + j) = c[j + 1]
  <2>1. k + j \in Int /\ 0 <= k + j /\ k + j < d.len /\ j + 1 \in 1..a.len
        /\ (j + 1) - 1 = j /\ j \in Int /\ 0 <= j /\ j < a.len
    BY <1>3, <1>4
  <2>2. Read(d, k + j) = Seen(m[k + j])
    BY <1>4, <1>5, <2>1, ReadIsSeen
  <2>3. Read(a, j) = Seen(a.mem[j])
    BY <2>1, ReadIsSeen
  <2>4. c[j + 1] = Read(a, j)
    BY <1>8, <2>1
  <2> QED
    BY <1>7, <2>2, <2>3, <2>4
<1>13. d.len = Len(ws) + Len(c)
  BY <1>3, <1>4, <1>8, <1>10
<1>14. Contents(d) = ws \o c
  BY <1>4, <1>8, <1>10, <1>11, <1>12, <1>13, JoinShows
<1> QED
  BY <1>14 DEF c, d

\* Arguments are what they show; the array's own cells show its contents.
LEMMA ArgumentsShow ==
  ASSUME NEW vs \in Seq(Vals)
  PROVE  vs \in Seq(Written) /\ Shows(vs, vs)
<1>1. \A p \in 1..Len(vs) : vs[p] \in Vals
  OBVIOUS
<1>2. \A p \in 1..Len(vs) : Seen(vs[p]) = vs[p]
  BY <1>1, SeenOnce
<1>3. vs \in Seq(Written)
  BY ValsWritten, SeqMonotonic
<1> QED
  BY <1>2, <1>3 DEF Shows

LEMMA OwnShows ==
  ASSUME NEW a, Good(a), a.fault = "none", ~(a.len + a.len > a.alloc)
  PROVE  /\ Contents(PushOwn(a)) = Contents(a) \o Contents(a)
         /\ Contents(UnshiftOwn(a)) = Contents(a) \o Contents(a)
<1> DEFINE vs == OwnArgs(a)
           ws == Contents(a)
<1>1. vs \in Seq(Written) /\ Len(vs) = a.len /\ a.len \in Nat
      /\ \A p \in 1..a.len : vs[p] = a.mem[p - 1]
  BY OwnArgsWritten
<1>2. ws \in Seq(Written) /\ Len(ws) = a.len
  BY ContentsRead
<1>3. \A p \in 1..a.len : Seen(a.mem[p - 1]) = ws[p]
  BY DEF Contents
<1>4. PushOwn(a) = PushDense(a, vs) /\ UnshiftOwn(a) = UnshiftDense(a, vs)
  BY DEF PushOwn, UnshiftOwn
<1> HIDE DEF vs, ws
<1>5. Shows(vs, ws)
  BY <1>1, <1>2, <1>3 DEF Shows
<1>6. Contents(PushDense(a, vs)) = Contents(a) \o ws
  BY <1>1, <1>2, <1>5, PushShows
<1>7. Contents(UnshiftDense(a, vs)) = ws \o Contents(a)
  BY <1>1, <1>2, <1>5, UnshiftShows
<1> QED
  BY <1>4, <1>6, <1>7 DEF ws

\* reverse turns the sequence round; the middle element stays.
LEMMA ReversedShows ==
  ASSUME NEW a, Good(a), a.fault = "none"
  PROVE  Contents(Reversed(a)) =
           [p \in 1..Len(Contents(a)) |-> Contents(a)[(Len(Contents(a)) - p) + 1]]
<1> DEFINE c == Contents(a)
           d == Reversed(a)
           n == a.len
           r == [p \in 1..n |-> c[(n - p) + 1]]
           m == [i \in DOMAIN a.mem |->
                   IF i < a.len /\ 2 * i + 1 # a.len THEN Seen(a.mem[a.len - 1 - i])
                                                     ELSE a.mem[i]]
<1>1. n \in Nat /\ a.alloc \in Nat /\ n <= a.alloc
      /\ a.mem \in [0..(a.alloc - 1) -> Cells] /\ a \in Arrs
  BY DEF Good, Sized, Contained, Arrs
<1>2. c \in Seq(Written) /\ Len(c) = n /\ \A p \in 1..n : c[p] = Read(a, p - 1)
  BY ContentsRead
<1>3. d = [a EXCEPT !.mem = m]
  BY DEF Reversed
<1>4. Good(d) /\ d.len = n
  BY ReversedGood
<1>5. d.mem = m
  <2> HIDE DEF m, d
  <2> QED
    BY <1>1, <1>3 DEF Arrs
<1>6. ASSUME NEW j \in 0..(n - 1)
      PROVE  m[j] = IF 2 * j + 1 # n THEN Seen(a.mem[n - 1 - j]) ELSE a.mem[j]
  BY <1>1
<1> HIDE DEF m, d, c
<1>7. r \in Seq(Written) /\ Len(r) = n /\ \A p \in 1..n : r[p] = c[(n - p) + 1]
  <2> HIDE DEF n
  <2>1. \A p \in 1..n : (n - p) + 1 \in 1..n /\ c[(n - p) + 1] \in Written
    BY <1>1, <1>2
  <2>2. r \in [1..n -> Written]
    BY <2>1
  <2>3. r \in Seq(Written) /\ Len(r) = n
    BY <1>1, <2>2
  <2> QED
    BY <2>3
<1> HIDE DEF r
<1>8. ASSUME NEW j \in 0..(n - 1) PROVE Read(d, j) = r[j + 1]
  <2>1. j \in Int /\ 0 <= j /\ j < n /\ j + 1 \in 1..n /\ (n - (j + 1)) + 1 = n - j
        /\ n - j \in 1..n /\ (n - j) - 1 = n - 1 - j /\ n - 1 - j \in Int
        /\ 0 <= n - 1 - j /\ n - 1 - j < n
    BY <1>1, SMTT(30)
  <2>2. Read(d, j) = Seen(m[j])
    BY <1>4, <1>5, <2>1, ReadIsSeen
  <2>3. Read(a, n - 1 - j) = Seen(a.mem[n - 1 - j])
    BY <2>1, ReadIsSeen
  <2>4. r[j + 1] = Read(a, n - 1 - j)
    BY <1>2, <1>7, <2>1
  <2>5. CASE 2 * j + 1 # n
    BY <1>6, <2>2, <2>3, <2>4, <2>5, SeenOnce
  <2>6. CASE 2 * j + 1 = n
    <3>1. n - 1 - j = j
      BY <1>1, <2>6
    <3> QED
      BY <1>6, <2>2, <2>3, <2>4, <2>6, <3>1
  <2> QED
    BY <2>5, <2>6
<1>9. Contents(d) = r
  BY <1>1, <1>4, <1>7, <1>8, SameContents
<1> QED
  BY <1>2, <1>9 DEF r, c, d

\* A position as a sequence counts it: not before its start.
NotBefore(x) == IF x < 0 THEN 0 ELSE x

\* fill sets the elements between two positions.
LEMMA FilledShows ==
  ASSUME NEW a, Good(a), a.fault = "none", NEW v \in Vals,
         NEW start \in Int, NEW end \in Int,
         Filled(a, v, start, end).fault = "none"
  PROVE  Contents(Filled(a, v, start, end)) =
           [p \in DOMAIN Contents(a) |->
              IF NotBefore(Relative(a, start)) < p /\ p <= NotBefore(Relative(a, end))
              THEN v ELSE Contents(a)[p]]
<1> DEFINE s == Relative(a, start)
           e == Relative(a, end)
           b == Filled(a, v, start, end)
           c == Contents(a)
           n == a.len
           lo == NotBefore(s)
           hi == NotBefore(e)
           d == [p \in DOMAIN c |-> IF lo < p /\ p <= hi THEN v ELSE c[p]]
<1>1. s \in Int /\ e \in Int /\ n \in Nat /\ v \in Written
  BY RelativeInside, ValsWritten DEF Good, Sized
<1>2. b.len = n /\ \A j \in Int : Read(b, j) = IF s <= j /\ j < e THEN v ELSE Read(a, j)
  BY FilledReads
<1>3. Good(b)
  BY FilledGood
<1>4. c \in Seq(Written) /\ Len(c) = n /\ \A p \in 1..n : c[p] = Read(a, p - 1)
  BY ContentsRead
<1>5. \A j \in 0..(n - 1) : (lo < j + 1 <=> s <= j) /\ (j + 1 <= hi <=> j < e)
  <2> HIDE DEF s, e
  <2> QED
    BY <1>1 DEF NotBefore
<1> HIDE DEF s, e, b, c, lo, hi
<1>6. DOMAIN c = 1..n /\ \A p \in 1..n : c[p] \in Written
  BY <1>1, <1>4
<1>7. d \in Seq(Written) /\ Len(d) = n
      /\ \A p \in 1..n : d[p] = IF lo < p /\ p <= hi THEN v ELSE c[p]
  BY <1>1, <1>6
<1> HIDE DEF d, n
<1>8. ASSUME NEW j \in 0..(n - 1) PROVE Read(b, j) = d[j + 1]
  <2>1. j \in Int /\ j + 1 \in 1..n /\ (j + 1) - 1 = j
    BY <1>1
  <2>2. c[j + 1] = Read(a, j)
    BY <1>4, <2>1
  <2>3. d[j + 1] = IF lo < j + 1 /\ j + 1 <= hi THEN v ELSE c[j + 1]
    BY <1>7, <2>1
  <2>4. Read(b, j) = IF s <= j /\ j < e THEN v ELSE Read(a, j)
    BY <1>2, <2>1
  <2>5. (lo < j + 1 <=> s <= j) /\ (j + 1 <= hi <=> j < e)
    BY <1>5
  <2> QED
    BY <2>2, <2>3, <2>4, <2>5, Zenon
<1>9. Contents(b) = d
  BY <1>1, <1>2, <1>3, <1>7, <1>8, SameContents
<1> QED
  BY <1>9 DEF d, b, c, lo, hi, s, e

\* splice from a position within the sequence: its head, the arguments, its tail;
\* and what is cut out is what stood between.
LEMMA SplicedShows ==
  ASSUME NEW a, Good(a), a.fault = "none", NEW s \in Nat, NEW n \in Nat,
         s + n <= a.len, NEW vs \in Seq(Vals), Spliced(a, s, n, vs).fault = "none"
  PROVE  /\ Contents(Spliced(a, s, n, vs)) =
              (SubSeq(Contents(a), 1, s) \o vs) \o SubSeq(Contents(a), s + n + 1, a.len)
         /\ Contents(Cut(a, s, n)) = SubSeq(Contents(a), s + 1, s + n)
<1> DEFINE d == Spliced(a, s, n, vs)
           k == Len(vs)
           c == Contents(a)
           x == SubSeq(c, 1, s)
           y == SubSeq(c, s + n + 1, a.len)
           z == SubSeq(c, s + 1, s + n)
           r == Contents(Cut(a, s, n))
<1>1. a.len \in Nat /\ k \in Nat
  BY DEF Good, Sized
<1>2. d.len = a.len - n + k
      /\ \A j \in 0..(a.len - n + k - 1) :
           Read(d, j) = IF j < s THEN Read(a, j)
                        ELSE IF j < s + k THEN vs[j - s + 1]
                        ELSE Read(a, j - k + n)
  <2>1. SpliceShows(a, s, n, vs, k, d)
    BY SplicedReads
  <2> HIDE DEF d, k
  <2> QED
    BY <2>1 DEF SpliceShows
<1>3. Good(d)
  BY SplicedGood
<1>4. x \in Seq(Written) /\ Len(x) = s /\ \A j \in 0..(s - 1) : x[j + 1] = Read(a, j)
  <2>1. 0 \in Nat /\ 0 <= s /\ s <= a.len /\ s - 0 = s /\ s - 0 - 1 = s - 1 /\ 0 + 1 = 1
    BY <1>1
  <2>2. \A j \in 0..(s - 1) : 0 + j = j
    OBVIOUS
  <2>3. LET u == SubSeq(Contents(a), 0 + 1, s)
        IN  /\ u \in Seq(Written) /\ Len(u) = s - 0
            /\ \A j \in 0..(s - 0 - 1) : u[j + 1] = Read(a, 0 + j)
    BY <2>1, PartReads
  <2> QED
    BY <2>1, <2>2, <2>3
<1>5. y \in Seq(Written) /\ Len(y) = a.len - (s + n)
      /\ \A j \in 0..(a.len - (s + n) - 1) : y[j + 1] = Read(a, s + n + j)
  <2>1. s + n \in Nat
    OBVIOUS
  <2> DEFINE lo == s + n
  <2>2. lo \in Nat /\ lo <= a.len /\ a.len \in Nat /\ a.len <= a.len
    BY <1>1
  <2>3. LET u == SubSeq(Contents(a), lo + 1, a.len)
        IN  /\ u \in Seq(Written) /\ Len(u) = a.len - lo
            /\ \A j \in 0..(a.len - lo - 1) : u[j + 1] = Read(a, lo + j)
    <3> HIDE DEF lo, k, c, x, y, z, r, d
    <3> QED
      BY <2>2, PartReads
  <2> QED
    BY <2>3
<1>6. z \in Seq(Written) /\ Len(z) = n /\ \A j \in 0..(n - 1) : z[j + 1] = Read(a, s + j)
  <2>1. s + n \in Nat /\ s <= s + n /\ (s + n) - s = n /\ (s + n) - s - 1 = n - 1
    OBVIOUS
  <2>2. LET u == SubSeq(Contents(a), s + 1, s + n)
        IN  /\ u \in Seq(Written) /\ Len(u) = (s + n) - s
            /\ \A j \in 0..((s + n) - s - 1) : u[j + 1] = Read(a, s + j)
    BY <2>1, PartReads
  <2>3. z \in Seq(Written) /\ Len(z) = (s + n) - s
        /\ \A j \in 0..((s + n) - s - 1) : z[j + 1] = Read(a, s + j)
    BY <2>2
  <2> HIDE DEF z
  <2> QED
    BY <2>1, <2>3
<1>7. r = [p \in 1..n |-> Read(a, s + p - 1)]
  BY CutReads
<1>8. vs \in Seq(Written) /\ Len(vs) = k
  <2>1. vs \in Seq(Written)
    BY ValsWritten, SeqMonotonic
  <2> QED
    BY <2>1
<1> HIDE DEF d, k, c, x, y, z, r
<1>9. /\ x \o vs \in Seq(Written) /\ Len(x \o vs) = s + k
      /\ \A i \in 1..(s + k) : (x \o vs)[i] = IF i <= s THEN x[i] ELSE vs[i - s]
  BY <1>4, <1>8, ConcatProperties
<1>10. ASSUME NEW j \in 0..(s + k - 1) PROVE Read(d, j) = (x \o vs)[j + 1]
  <2>1. j \in 0..(a.len - n + k - 1) /\ j + 1 \in 1..(s + k) /\ (j + 1) - s = j - s + 1
        /\ (j + 1 <= s <=> j < s) /\ j < s + k /\ (j < s => j \in 0..(s - 1))
    BY <1>1
  <2>2. Read(d, j) = IF j < s THEN Read(a, j) ELSE vs[j - s + 1]
    BY <1>2, <2>1
  <2>3. (x \o vs)[j + 1] = IF j < s THEN x[j + 1] ELSE vs[j - s + 1]
    BY <1>9, <2>1, SMTT(30)
  <2>4. j < s => x[j + 1] = Read(a, j)
    BY <1>4, <2>1
  <2> QED
    BY <2>2, <2>3, <2>4, Zenon
<1>11. ASSUME NEW j \in 0..(a.len - (s + n) - 1) PROVE Read(d, s + k + j) = y[j + 1]
  <2> DEFINE i == s + k + j
             g == (i - k) + n
  <2>1. i \in 0..(a.len - n + k - 1) /\ ~(i < s) /\ ~(i < s + k) /\ g = s + n + j
    BY <1>1
  <2>2. Read(d, i) = Read(a, g)
    <3> HIDE DEF i
    <3> QED
      BY <1>2, <2>1
  <2>3. Read(a, g) = y[j + 1]
    <3> HIDE DEF g
    <3> QED
      BY <1>5, <2>1
  <2> HIDE DEF g
  <2> QED
    BY <2>2, <2>3
<1>12. Contents(d) = (x \o vs) \o y
  <2> DEFINE xv == x \o vs
  <2>0. /\ xv \in Seq(Written) /\ Len(xv) = s + k
        /\ \A j \in 0..(s + k - 1) : Read(d, j) = xv[j + 1]
    BY <1>9, <1>10
  <2> HIDE DEF xv
  <2>1. xv \in Seq(Written) /\ Len(xv) = s + k
        /\ \A j \in 0..(Len(xv) - 1) : Read(d, j) = xv[j + 1]
    BY <1>1, <2>0
  <2>2. d.len = Len(xv) + Len(y)
    BY <1>1, <1>2, <1>5, <2>1
  <2>3. \A j \in 0..(Len(y) - 1) : Read(d, Len(xv) + j) = y[j + 1]
    BY <1>5, <1>11, <2>1
  <2>4. Contents(d) = xv \o y
    BY <1>3, <1>5, <2>1, <2>2, <2>3, JoinShows
  <2> QED
    BY <2>4 DEF xv
<1>13. r = z
  <2>1. \A p \in 1..n : p - 1 \in 0..(n - 1) /\ (p - 1) + 1 = p /\ s + (p - 1) = s + p - 1
    OBVIOUS
  <2>2. z = [p \in 1..n |-> z[p]]
    BY <1>6
  <2>3. \A p \in 1..n : z[p] = Read(a, s + p - 1)
    BY <1>6, <2>1
  <2> QED
    BY <1>7, <2>2, <2>3
<1> QED
  BY <1>12, <1>13 DEF d, x, y, z, r, c

\* The least and the greatest of a set of indices, counted from zero and from one.
LEMMA LeastShifted ==
  ASSUME NEW is \in SUBSET Nat, is # {}
  PROVE  LET ps == {i + 1 : i \in is}
         IN  /\ ps # {}
             /\ (CHOOSE p \in ps : \A q \in ps : p <= q) - 1
                  = CHOOSE i \in is : \A j \in is : i <= j
<1> DEFINE ps == {i + 1 : i \in is}
           Low(i) == i \in is /\ \A j \in is : i <= j
           LowP(p) == p \in ps /\ \A q \in ps : p <= q
<1>1. PICK m \in is : \A j \in is : m <= j
  BY LeastNatural
<1>2. m \in Nat /\ \A i \in is : i \in Nat
  OBVIOUS
<1>3. (CHOOSE i \in is : \A j \in is : i <= j) = m
  <2>1. ASSUME NEW i, Low(i) PROVE i = m
    <3>1. i \in is /\ i <= m /\ m <= i
      BY <1>1, <2>1
    <3> QED
      BY <1>2, <3>1
  <2>3. Low(m)
    BY <1>1
  <2> HIDE DEF Low
  <2>2. (CHOOSE i : Low(i)) = m
    BY <2>1, <2>3
  <2> QED
    BY <2>2 DEF Low
<1>4. m + 1 \in ps /\ \A q \in ps : m + 1 <= q /\ q \in Nat
  BY <1>1, <1>2
<1>5. (CHOOSE p \in ps : \A q \in ps : p <= q) = m + 1
  <2> HIDE DEF ps
  <2>1. \A p : LowP(p) <=> p = m + 1
    BY <1>2, <1>4
  <2> HIDE DEF LowP
  <2>2. (CHOOSE p : LowP(p)) = m + 1
    BY <2>1
  <2> QED
    BY <2>2 DEF LowP
<1>6. (m + 1) - 1 = m
  BY <1>2
<1> HIDE DEF ps
<1>7. (CHOOSE p \in ps : \A q \in ps : p <= q) - 1
        = CHOOSE i \in is : \A j \in is : i <= j
  BY <1>3, <1>5, <1>6
<1>8. ps # {}
  BY <1>4
<1> QED
  BY <1>7, <1>8 DEF ps

\* And the greatest.
LEMMA GreatestShifted ==
  ASSUME NEW n \in Nat, NEW is \in SUBSET (0..n), is # {}
  PROVE  LET ps == {i + 1 : i \in is}
         IN  /\ ps # {}
             /\ (CHOOSE p \in ps : \A q \in ps : p >= q) - 1
                  = CHOOSE i \in is : \A j \in is : j <= i
<1> DEFINE ps == {i + 1 : i \in is}
           High(i) == i \in is /\ \A j \in is : j <= i
           HighP(p) == p \in ps /\ \A q \in ps : p >= q
           far == {n - i : i \in is}
<1>0. far \in SUBSET Nat /\ far # {}
  <2>1. \A i \in is : i \in 0..n
    OBVIOUS
  <2>2. \A i \in is : n - i \in Nat
    BY <2>1
  <2>3. PICK i \in is : TRUE
    OBVIOUS
  <2>4. n - i \in far
    OBVIOUS
  <2> QED
    BY <2>2, <2>4
<1>1. PICK d \in far : \A e \in far : d <= e
  BY <1>0, LeastNatural
<1>2. PICK m \in is : d = n - m
  BY <1>1
<1>3. m \in Nat /\ (\A i \in is : i \in Nat) /\ \A j \in is : j <= m
  <2>1. ASSUME NEW j \in is PROVE j <= m
    <3>1. n - m <= n - j /\ m \in 0..n /\ j \in 0..n
      BY <1>1, <1>2
    <3> QED
      BY <3>1
  <2>2. \A i \in is : i \in 0..n
    OBVIOUS
  <2> QED
    BY <2>1, <2>2
<1> HIDE DEF far
<1>4. (CHOOSE i \in is : \A j \in is : j <= i) = m
  <2>1. ASSUME NEW i, High(i) PROVE i = m
    <3>1. i \in is /\ i <= m /\ m <= i
      BY <1>3, <2>1
    <3> QED
      BY <1>3, <3>1
  <2>3. High(m)
    BY <1>3
  <2> HIDE DEF High
  <2>2. (CHOOSE i : High(i)) = m
    BY <2>1, <2>3
  <2> QED
    BY <2>2 DEF High
<1>5. m + 1 \in ps /\ \A q \in ps : m + 1 >= q /\ q \in Nat
  BY <1>3
<1>6. (CHOOSE p \in ps : \A q \in ps : p >= q) = m + 1
  <2> HIDE DEF ps
  <2>1. \A p : HighP(p) <=> p = m + 1
    BY <1>3, <1>5
  <2> HIDE DEF HighP
  <2>2. (CHOOSE p : HighP(p)) = m + 1
    BY <2>1
  <2> QED
    BY <2>2 DEF HighP
<1>7. (m + 1) - 1 = m
  BY <1>3
<1> HIDE DEF ps
<1>8. (CHOOSE p \in ps : \A q \in ps : p >= q) - 1
        = CHOOSE i \in is : \A j \in is : j <= i
  BY <1>4, <1>6, <1>7
<1>9. ps # {}
  BY <1>5
<1> QED
  BY <1>8, <1>9 DEF ps

\* The positions of the cells that hold a value a program stores.
LEMMA IndicesFound ==
  ASSUME NEW a, Good(a), NEW v \in Vals
  PROVE  LET ps == {i + 1 : i \in IndicesOf(a, v)}
             c  == Contents(a)
         IN  /\ IndicesOf(a, v) \subseteq 0..a.len
             /\ ps \in SUBSET DOMAIN c
             /\ ps \subseteq {p \in DOMAIN c : c[p] = v}
             /\ v # Undef => \A p \in DOMAIN c : c[p] = v => p \in ps
<1> DEFINE is == IndicesOf(a, v)
           ps == {i + 1 : i \in is}
           c  == Contents(a)
<1>1. a.len \in Nat
  BY DEF Good, Sized
<1>2. DOMAIN c = 1..a.len /\ \A p \in 1..a.len : c[p] = Seen(a.mem[p - 1])
  BY <1>1 DEF Contents
<1>3. is = {i \in 0..(a.len - 1) : a.mem[i] = v} /\ v # Hole
  BY ArrayAssumption DEF IndicesOf
<1> HIDE DEF c, is
<1>4. is \subseteq 0..a.len
  BY <1>1, <1>3
<1>5. ASSUME NEW i \in is PROVE i + 1 \in DOMAIN c /\ c[i + 1] = v
  <2>1. i \in 0..(a.len - 1) /\ i + 1 \in 1..a.len /\ (i + 1) - 1 = i /\ a.mem[i] = v
    BY <1>1, <1>3
  <2> QED
    BY <1>2, <1>3, <2>1 DEF Seen
<1>6. ASSUME v # Undef, NEW p \in DOMAIN c, c[p] = v PROVE p \in ps
  <2>1. p \in 1..a.len /\ p - 1 \in 0..(a.len - 1) /\ (p - 1) + 1 = p
    BY <1>1, <1>2
  <2>2. Seen(a.mem[p - 1]) = v
    BY <1>2, <1>6, <2>1
  <2>3. a.mem[p - 1] = v
    BY <1>6, <2>2 DEF Seen
  <2>4. p - 1 \in is
    BY <1>3, <2>1, <2>3
  <2> QED
    BY <2>1, <2>4
<1>7. ps \subseteq {p \in DOMAIN c : c[p] = v}
  BY <1>5
<1> HIDE DEF ps
<1>8. ps \in SUBSET DOMAIN c
  BY <1>7
<1> QED
  BY <1>4, <1>6, <1>7, <1>8 DEF ps, c, is

\* slice copies the cells of a part.
LEMMA SliceShows ==
  ASSUME NEW a, Good(a), NEW begin \in Nat, NEW stop \in Nat, begin <= stop, stop <= a.len
  PROVE  [p \in 1..(stop - begin) |-> Seen(a.mem[begin + p - 1])]
           = SubSeq(Contents(a), begin + 1, stop)
<1> DEFINE s == SubSeq(Contents(a), begin + 1, stop)
           n == stop - begin
<1>1. s \in Seq(Written) /\ Len(s) = n /\ \A j \in 0..(n - 1) : s[j + 1] = Read(a, begin + j)
  BY PartReads
<1>2. a.len \in Nat /\ n \in Nat
  BY DEF Good, Sized
<1>3. ASSUME NEW p \in 1..n PROVE s[p] = Seen(a.mem[begin + p - 1])
  <2>1. p - 1 \in 0..(n - 1) /\ (p - 1) + 1 = p /\ begin + (p - 1) = begin + p - 1
        /\ begin + p - 1 \in Int /\ 0 <= begin + p - 1 /\ begin + p - 1 < a.len
    BY <1>2
  <2>2. Read(a, begin + p - 1) = Seen(a.mem[begin + p - 1])
    BY <2>1, ReadIsSeen
  <2>3. s[p] = Read(a, begin + (p - 1))
    BY <1>1, <2>1
  <2> HIDE DEF s
  <2> QED
    BY <2>1, <2>2, <2>3
<1> HIDE DEF s, n
<1>4. s = [p \in 1..n |-> s[p]]
  BY <1>1
<1>5. s = [p \in 1..n |-> Seen(a.mem[begin + p - 1])]
  BY <1>3, <1>4
<1> QED
  BY <1>5 DEF s, n

-----------------------------------------------------------------------------
(***************************************************************************)
(* The steps of an array, as steps of the sequence it shows.               *)
(***************************************************************************)
\* A method that answers at once changes the sequence, or ends the process.
LEMMA DoBecomes ==
  ASSUME IInv, NEW method, NEW b, NEW r, Do(method, b, r)
  PROVE  /\ Running /\ Good(arr) /\ arr.fault = "none" /\ Shown = Contents(arr)
         /\ Abstract!Halt
            \/ (b.fault = "none" /\ Abstract!Becomes(Contents(b), r))
<1>1. Running /\ Good(arr) /\ arr.fault = "none" /\ Shown = Contents(arr)
  BY RunningGood DEF Do, Shown
<1>2. CASE b.fault = "none"
  <2>1. arr' = b /\ last' = r /\ frames' = frames
    BY <1>2 DEF Do
  <2>2. Running' /\ Running
    BY <1>1, <1>2, <2>1 DEF Running
  <2>3. Shown' = Contents(b)
    BY <2>1, <2>2 DEF Shown
  <2>4. Running' = Running
    BY <1>2, <2>1, <1>1 DEF Running
  <2> QED
    BY <1>1, <1>2, <2>1, <2>3, <2>4 DEF Abstract!Becomes
<1>3. CASE b.fault # "none"
  <2>1. arr' = [arr EXCEPT !.fault = b.fault, !.len = IF b.len < 0 THEN -1 ELSE @]
    BY <1>3 DEF Do
  <2>2. arr \in Arrs
    BY <1>1 DEF Good, Sized
  <2>3. arr'.fault = b.fault
    BY <2>1, <2>2 DEF Arrs
  <2> QED
    BY <1>1, <1>3, <2>3 DEF Abstract!Halt, Running
<1> QED
  BY <1>1, <1>2, <1>3

\* The two ways to say that a sequence is made as long as n.
LEMMA ResizedIs ==
  ASSUME NEW n, Shown = Contents(arr)
  PROVE  Abstract!Resized(n) = Fit(Contents(arr), n)
  BY DEF Abstract!Resized, Abstract!NoneOf, Fit

\* A store is a step of the sequence.
LEMMA SetSteps ==
  ASSUME IInv, NEW i \in Indices, NEW v \in Vals, Set(i, v)
  PROVE  Abstract!Halt \/ Abstract!Set(i, v)
<1> DEFINE b == Store(arr, i, v)
           n == IF i < Len(Shown) THEN Len(Shown) ELSE i + 1
<1>1. i \in Int
  BY ArgumentsAssumption
<1>2. /\ Good(arr) /\ arr.fault = "none" /\ Shown = Contents(arr)
      /\ Abstract!Halt \/ (b.fault = "none" /\ Abstract!Becomes(Contents(b), <<v>>))
  BY DoBecomes DEF Set
<1>3. ASSUME b.fault = "none"
      PROVE  i >= 0 /\ Contents(b) = [Fit(Contents(arr), n) EXCEPT ![i + 1] = v]
  BY <1>1, <1>2, <1>3, StoreShows
<1>4. Abstract!Resized(n) = Fit(Contents(arr), n)
  BY <1>2, ResizedIs
<1> HIDE DEF b
<1>5. ASSUME b.fault = "none", Abstract!Becomes(Contents(b), <<v>>)
      PROVE  Abstract!Set(i, v)
  <2>1. i >= 0 /\ Abstract!Becomes([Abstract!Resized(n) EXCEPT ![i + 1] = v], <<v>>)
    BY <1>3, <1>4, <1>5
  <2> QED
    BY <2>1 DEF Abstract!Set
<1> QED
  BY <1>2, <1>5

\* So are a new length and a deletion; asking for a descriptor only ends the process.
LEMMA LengthSteps ==
  ASSUME IInv, NEW n \in Indices
  PROVE  /\ Length(n) => Abstract!Halt \/ Abstract!SetLength(n)
         /\ Delete(n) => Abstract!Halt \/ Abstract!Delete(n)
         /\ Own(n) => Abstract!Halt
<1>1. n \in Int
  BY ArgumentsAssumption
<1>2. ASSUME Length(n) PROVE Abstract!Halt \/ Abstract!SetLength(n)
  <2> DEFINE b == SetLength(arr, n)
  <2>1. /\ Good(arr) /\ arr.fault = "none" /\ Shown = Contents(arr)
        /\ Abstract!Halt \/ (b.fault = "none" /\ Abstract!Becomes(Contents(b), <<n>>))
    BY <1>2, DoBecomes DEF Length
  <2>2. b.fault = "none" => n >= 0 /\ Contents(b) = Abstract!Resized(n)
    BY <1>1, <2>1, LengthShows, ResizedIs
  <2> HIDE DEF b
  <2> QED
    BY <2>1, <2>2 DEF Abstract!SetLength
<1>3. ASSUME Delete(n) PROVE Abstract!Halt \/ Abstract!Delete(n)
  <2> DEFINE b == Erase(arr, n)
  <2>1. /\ Good(arr) /\ arr.fault = "none" /\ Shown = Contents(arr)
        /\ Abstract!Halt \/ (b.fault = "none" /\ Abstract!Becomes(Contents(b), <<>>))
    BY <1>3, DoBecomes DEF Delete
  <2>2. Contents(b) = [p \in DOMAIN Shown |-> IF p = n + 1 THEN Undef ELSE Shown[p]]
    BY <1>1, <2>1, EraseShows
  <2> HIDE DEF b
  <2> QED
    BY <2>1, <2>2 DEF Abstract!Delete
<1>4. ASSUME Own(n) PROVE Abstract!Halt
  <2> DEFINE b == OwnCell(arr, n)
  <2>1. b.fault # "none" /\ Do("own", b, <<>>)
    BY <1>4 DEF Own
  <2> HIDE DEF b
  <2> QED
    BY <2>1, DoBecomes
<1> QED
  BY <1>2, <1>3, <1>4

\* The methods that add elements.
LEMMA PushSteps ==
  ASSUME IInv, NEW vs \in Args
  PROVE  /\ Push(vs) => Abstract!Halt \/ Abstract!Push(vs)
         /\ Unshift(vs) => Abstract!Halt \/ Abstract!Unshift(vs)
         /\ Concat(vs) => Abstract!Halt \/ Abstract!Concat(vs)
<1>1. vs \in Seq(Written) /\ Shows(vs, vs)
  BY ArgumentsAssumption, ArgumentsShow
<1> DEFINE size == arr.len + Len(vs)
<1>2. ASSUME Push(vs) PROVE Abstract!Halt \/ Abstract!Push(vs)
  <2> DEFINE b == PushDense(arr, vs)
  <2>1. /\ Good(arr) /\ arr.fault = "none" /\ Shown = Contents(arr)
        /\ Abstract!Halt \/ (b.fault = "none" /\ Abstract!Becomes(Contents(b), <<size>>))
    BY <1>2, DoBecomes DEF Push
  <2>2. Contents(b) = Shown \o vs /\ Len(Shown) = arr.len
    BY <1>1, <2>1, PushShows, ContentsRead
  <2>3. <<size>> = <<Len(Shown) + Len(vs)>>
    BY <2>2
  <2> HIDE DEF b, size
  <2> QED
    BY <2>1, <2>2, <2>3 DEF Abstract!Push
<1>3. ASSUME Unshift(vs) PROVE Abstract!Halt \/ Abstract!Unshift(vs)
  <2> DEFINE b == UnshiftDense(arr, vs)
  <2>1. /\ Good(arr) /\ arr.fault = "none" /\ Shown = Contents(arr)
        /\ Abstract!Halt \/ (b.fault = "none" /\ Abstract!Becomes(Contents(b), <<size>>))
    BY <1>3, DoBecomes DEF Unshift
  <2>2. Contents(b) = vs \o Shown /\ Len(Shown) = arr.len
    BY <1>1, <2>1, UnshiftShows, ContentsRead
  <2>3. <<size>> = <<Len(Shown) + Len(vs)>>
    BY <2>2
  <2> HIDE DEF b, size
  <2> QED
    BY <2>1, <2>2, <2>3 DEF Abstract!Unshift
<1>4. ASSUME Concat(vs) PROVE Abstract!Halt \/ Abstract!Concat(vs)
  <2>1. /\ Shown = Contents(arr)
        /\ Abstract!Halt \/ Abstract!Becomes(Contents(arr), Contents(arr) \o vs)
    BY <1>4, DoBecomes DEF Concat, Ask
  <2> QED
    BY <2>1 DEF Abstract!Concat, Abstract!Answers
<1> QED
  BY <1>2, <1>3, <1>4

\* An array pushed onto itself is twice itself, when the process survives it.
LEMMA ItselfSteps ==
  ASSUME IInv
  PROVE  /\ PushItself => Abstract!Halt \/ Abstract!Push(Shown)
         /\ UnshiftItself => Abstract!Halt \/ Abstract!Unshift(Shown)
<1> DEFINE size == arr.len + arr.len
<1>1. ASSUME PushItself PROVE Abstract!Halt \/ Abstract!Push(Shown)
  <2> DEFINE b == PushOwn(arr)
  <2>1. /\ Good(arr) /\ arr.fault = "none" /\ Shown = Contents(arr)
        /\ Abstract!Halt \/ (b.fault = "none" /\ Abstract!Becomes(Contents(b), <<size>>))
    BY <1>1, DoBecomes DEF PushItself
  <2>2. b.fault = "none" => Contents(b) = Shown \o Shown
    <3>1. size > arr.alloc => b.fault = "freed"
      BY <2>1, FailedGood DEF PushOwn, Faults
    <3> QED
      BY <2>1, <3>1, OwnShows
  <2>3. <<size>> = <<Len(Shown) + Len(Shown)>>
    BY <2>1, ContentsRead
  <2> HIDE DEF b, size
  <2> QED
    BY <2>1, <2>2, <2>3 DEF Abstract!Push
<1>2. ASSUME UnshiftItself PROVE Abstract!Halt \/ Abstract!Unshift(Shown)
  <2> DEFINE b == UnshiftOwn(arr)
  <2>1. /\ Good(arr) /\ arr.fault = "none" /\ Shown = Contents(arr)
        /\ Abstract!Halt \/ (b.fault = "none" /\ Abstract!Becomes(Contents(b), <<size>>))
    BY <1>2, DoBecomes DEF UnshiftItself
  <2>2. b.fault = "none" => Contents(b) = Shown \o Shown
    <3>1. size > arr.alloc => b.fault = "freed"
      BY <2>1, FailedGood DEF UnshiftOwn, Faults
    <3> QED
      BY <2>1, <3>1, OwnShows
  <2>3. <<size>> = <<Len(Shown) + Len(Shown)>>
    BY <2>1, ContentsRead
  <2> HIDE DEF b, size
  <2> QED
    BY <2>1, <2>2, <2>3 DEF Abstract!Unshift
<1> QED
  BY <1>1, <1>2

\* The cell taken out of either end is the element that is seen there, or a hole.
LEMMA TakenOut ==
  ASSUME Good(arr), arr.fault = "none", Shown = Contents(arr)
  PROVE  /\ arr.len = 0 => \A i : Taken(i) = Undef
         /\ arr.len # 0 => /\ Taken(arr.len - 1) \in Abstract!Out(Shown[Len(Shown)])
                           /\ Taken(0) \in Abstract!Out(Shown[1])
<1>1. Len(Shown) = arr.len /\ arr.len \in Nat
  BY ContentsRead DEF Good, Sized
<1>2. ASSUME NEW i \in 0..(arr.len - 1)
      PROVE  Taken(i) \in Abstract!Out(Shown[i + 1])
  <2>1. Taken(i) = arr.mem[i]
    BY <1>1, <1>2 DEF Taken
  <2>2. Shown[i + 1] = Seen(arr.mem[i])
    BY <1>1, <1>2 DEF Contents
  <2> QED
    BY <2>1, <2>2 DEF Seen, Abstract!Out
<1>3. ASSUME arr.len # 0
      PROVE  /\ Taken(arr.len - 1) \in Abstract!Out(Shown[Len(Shown)])
             /\ Taken(0) \in Abstract!Out(Shown[1])
  <2>1. /\ 0 \in 0..(arr.len - 1) /\ arr.len - 1 \in 0..(arr.len - 1) /\ 0 + 1 = 1
        /\ (arr.len - 1) + 1 = Len(Shown)
    BY <1>1, <1>3
  <2>2. Taken(0) \in Abstract!Out(Shown[0 + 1])
    BY <1>2, <2>1
  <2>3. Taken(arr.len - 1) \in Abstract!Out(Shown[(arr.len - 1) + 1])
    BY <1>2, <2>1
  <2> QED
    BY <2>1, <2>2, <2>3
<1> QED
  BY <1>3 DEF Taken

\* The methods without arguments.
LEMMA EndSteps ==
  ASSUME IInv
  PROVE  /\ Pop => Abstract!Halt \/ Abstract!Pop
         /\ Shift => Abstract!Halt \/ Abstract!Shift
         /\ Reversal => Abstract!Halt \/ Abstract!Reversal
         /\ From => Abstract!Halt \/ Abstract!Copy
<1>1. ASSUME Pop PROVE Abstract!Halt \/ Abstract!Pop
  <2> DEFINE b == PopDense(arr)
             v == Taken(arr.len - 1)
  <2>1. /\ Good(arr) /\ arr.fault = "none" /\ Shown = Contents(arr)
        /\ Abstract!Halt \/ (b.fault = "none" /\ Abstract!Becomes(Contents(b), <<v>>))
    BY <1>1, DoBecomes DEF Pop
  <2>2. /\ Shown = <<>> <=> arr.len = 0
        /\ arr.len = 0 => b = arr /\ v = Undef
        /\ arr.len # 0 => /\ Contents(b) = SubSeq(Shown, 1, Len(Shown) - 1)
                          /\ v \in Abstract!Out(Shown[Len(Shown)])
    BY <2>1, PopShows, TakenOut
  <2>3. ASSUME Abstract!Becomes(Contents(b), <<v>>) PROVE Abstract!Pop
    <3> HIDE DEF b, v
    <3>1. CASE arr.len = 0
      BY <2>1, <2>2, <2>3, <3>1 DEF Abstract!Pop, Abstract!Answers
    <3>2. CASE arr.len # 0
      <4>1. Abstract!Front(Shown) = Contents(b) /\ Abstract!Last(Shown) = Shown[Len(Shown)]
        BY <2>2, <3>2 DEF Abstract!Front, Abstract!Last
      <4> QED
        BY <2>2, <2>3, <3>2, <4>1 DEF Abstract!Pop
    <3> QED
      BY <3>1, <3>2
  <2> QED
    BY <2>1, <2>3
<1>2. ASSUME Shift PROVE Abstract!Halt \/ Abstract!Shift
  <2> DEFINE b == ShiftDense(arr)
             v == Taken(0)
  <2>1. /\ Good(arr) /\ arr.fault = "none" /\ Shown = Contents(arr)
        /\ Abstract!Halt \/ (b.fault = "none" /\ Abstract!Becomes(Contents(b), <<v>>))
    BY <1>2, DoBecomes DEF Shift
  <2>2. /\ Shown = <<>> <=> arr.len = 0
        /\ arr.len = 0 => b = arr /\ v = Undef
        /\ arr.len # 0 => Contents(b) = Tail(Shown) /\ v \in Abstract!Out(Shown[1])
    BY <2>1, PopShows, ShiftShows, TakenOut
  <2>3. ASSUME Abstract!Becomes(Contents(b), <<v>>) PROVE Abstract!Shift
    <3> HIDE DEF b, v
    <3>1. CASE arr.len = 0
      BY <2>1, <2>2, <2>3, <3>1 DEF Abstract!Shift, Abstract!Answers
    <3>2. CASE arr.len # 0
      <4>1. Head(Shown) = Shown[1]
        BY <2>2, <3>2
      <4> QED
        BY <2>2, <2>3, <3>2, <4>1 DEF Abstract!Shift
    <3> QED
      BY <3>1, <3>2
  <2> QED
    BY <2>1, <2>3
<1>3. ASSUME Reversal PROVE Abstract!Halt \/ Abstract!Reversal
  <2> DEFINE b == Reversed(arr)
  <2>1. /\ Good(arr) /\ arr.fault = "none" /\ Shown = Contents(arr)
        /\ Abstract!Halt \/ (b.fault = "none" /\ Abstract!Becomes(Contents(b), <<>>))
    BY <1>3, DoBecomes DEF Reversal
  <2>2. Contents(b) = [p \in 1..Len(Shown) |-> Shown[(Len(Shown) - p) + 1]]
    BY <2>1, ReversedShows
  <2>3. Contents(b) = Abstract!Reverse(Shown)
    BY <2>2 DEF Abstract!Reverse
  <2> HIDE DEF b
  <2> QED
    BY <2>1, <2>3 DEF Abstract!Reversal
<1>4. ASSUME From PROVE Abstract!Halt \/ Abstract!Copy
  <2>1. /\ Shown = Contents(arr)
        /\ Abstract!Halt \/ Abstract!Becomes(Contents(arr), Contents(arr))
    BY <1>4, DoBecomes DEF From, Ask
  <2> QED
    BY <2>1 DEF Abstract!Copy, Abstract!Answers
<1> QED
  BY <1>1, <1>2, <1>3, <1>4

\* A position of the sequence is the code's, when that is not before the start.
LEMMA ClampIs ==
  ASSUME Good(arr), Shown = Contents(arr), NEW i \in Int
  PROVE  /\ Abstract!Clamp(i) = NotBefore(Relative(arr, i))
         /\ Len(Shown) = arr.len /\ arr.len \in Nat
         /\ Relative(arr, i) \in Int /\ Relative(arr, i) <= arr.len
         /\ 0 <= i + arr.len => Relative(arr, i) >= 0
<1>1. Len(Shown) = arr.len /\ arr.len \in Nat
  BY ContentsRead DEF Good, Sized
<1> DEFINE n == arr.len
<1>2. Relative(arr, i) = IF i < 0 THEN n + i ELSE (IF i < n THEN i ELSE n)
  BY DEF Relative
<1>3. Abstract!Clamp(i) = IF i < 0 THEN (IF n + i < 0 THEN 0 ELSE n + i)
                          ELSE (IF i < n THEN i ELSE n)
  BY <1>1 DEF Abstract!Clamp
<1> HIDE DEF n
<1>4. n \in Nat
  BY <1>1 DEF n
<1>5. Abstract!Clamp(i) = NotBefore(Relative(arr, i))
  BY <1>2, <1>3, <1>4 DEF NotBefore
<1>6. /\ Relative(arr, i) \in Int /\ Relative(arr, i) <= n
      /\ 0 <= i + n => Relative(arr, i) >= 0
  BY <1>2, <1>4
<1> QED
  BY <1>1, <1>5, <1>6 DEF n

\* fill.
LEMMA FillSteps ==
  ASSUME IInv, NEW v \in Vals, NEW s \in Starts, NEW e \in Starts, Fill(v, s, e)
  PROVE  Abstract!Halt \/ Abstract!Fill(v, s, e)
<1> DEFINE b == Filled(arr, v, s, e)
<1>1. s \in Int /\ e \in Int
  BY ArgumentsAssumption
<1>2. /\ Good(arr) /\ arr.fault = "none" /\ Shown = Contents(arr)
      /\ Abstract!Halt \/ (b.fault = "none" /\ Abstract!Becomes(Contents(b), <<>>))
  BY DoBecomes DEF Fill
<1>3. Abstract!Clamp(s) = NotBefore(Relative(arr, s))
      /\ Abstract!Clamp(e) = NotBefore(Relative(arr, e))
  BY <1>1, <1>2, ClampIs
<1>4. b.fault = "none" =>
        Contents(b) = [p \in DOMAIN Shown |->
                         IF Abstract!Clamp(s) < p /\ p <= Abstract!Clamp(e) THEN v ELSE Shown[p]]
  BY <1>1, <1>2, <1>3, FilledShows
<1> HIDE DEF b
<1> QED
  BY <1>2, <1>4 DEF Abstract!Fill

\* splice, from within the array or from before it.
LEMMA SpliceSteps ==
  ASSUME IInv, NEW start \in Starts, NEW count \in Counts, NEW vs \in Args,
         Splice(start, count, vs)
  PROVE  Abstract!Halt \/ Abstract!Splice(start, count, vs) \/ Abstract!SpliceBefore(start)
<1> DEFINE s == Relative(arr, start)
           n == CutCount(arr, s, count)
           b == Spliced(arr, s, n, vs)
           r == Contents(Cut(arr, s, n))
<1>1. start \in Int /\ count \in Nat /\ vs \in Seq(Vals)
  BY ArgumentsAssumption
<1>2. /\ Good(arr) /\ arr.fault = "none" /\ Shown = Contents(arr)
      /\ Abstract!Halt \/ (b.fault = "none" /\ Abstract!Becomes(Contents(b), r))
  BY DoBecomes DEF Splice
<1>3. /\ Abstract!Clamp(start) = NotBefore(s)
      /\ Len(Shown) = arr.len /\ arr.len \in Nat /\ s \in Int /\ s <= arr.len
      /\ 0 <= start + arr.len => s >= 0
  BY <1>1, <1>2, ClampIs
<1> HIDE DEF s
<1>4. CASE ~(0 <= start + arr.len)
  <2>1. start + Len(Shown) < 0
    BY <1>1, <1>3, <1>4
  <2> HIDE DEF b, r
  <2> QED
    BY <1>2, <2>1 DEF Abstract!SpliceBefore, Abstract!Becomes
<1>5. CASE 0 <= start + arr.len
  <2>1. s \in Nat /\ Abstract!Clamp(start) = s
    BY <1>3, <1>5 DEF NotBefore
  <2>2. n = IF count > arr.len - s THEN arr.len - s ELSE count
    BY <1>1, <1>3 DEF CutCount
  <2>3. n \in Nat /\ s + n <= arr.len
    BY <1>1, <1>3, <2>1, <2>2
  <2> HIDE DEF n
  <2> HIDE DEF r, b
  <2>4. b.fault = "none" =>
          /\ Contents(b) = (SubSeq(Shown, 1, s) \o vs) \o SubSeq(Shown, s + n + 1, Len(Shown))
          /\ r = SubSeq(Shown, s + 1, s + n)
    <3>1. ASSUME b.fault = "none"
          PROVE  /\ Contents(b) = (SubSeq(Shown, 1, s) \o vs) \o SubSeq(Shown, s + n + 1, arr.len)
                 /\ r = SubSeq(Shown, s + 1, s + n)
      BY <1>1, <1>2, <2>1, <2>3, <3>1, SplicedShows DEF b, r
    <3> QED
      BY <1>3, <3>1
  <2>5. ASSUME b.fault = "none", Abstract!Becomes(Contents(b), r)
        PROVE  Abstract!Splice(start, count, vs)
    <3>1. n = IF count > Len(Shown) - Abstract!Clamp(start)
              THEN Len(Shown) - Abstract!Clamp(start) ELSE count
      BY <1>3, <2>1, <2>2
    <3>2. start + Len(Shown) >= 0
      BY <1>1, <1>3, <1>5
    <3>3. Abstract!Becomes(SubSeq(Shown, 1, Abstract!Clamp(start)) \o vs
                             \o SubSeq(Shown, Abstract!Clamp(start) + n + 1, Len(Shown)),
                           SubSeq(Shown, Abstract!Clamp(start) + 1, Abstract!Clamp(start) + n))
      BY <2>1, <2>4, <2>5
    <3> QED
      BY <3>1, <3>2, <3>3 DEF Abstract!Splice
  <2> QED
    BY <1>2, <2>5
<1> QED
  BY <1>4, <1>5

\* slice.
LEMMA SliceSteps ==
  ASSUME IInv, NEW start \in Starts, NEW end \in Starts, Slice(start, end)
  PROVE  Abstract!Halt \/ Abstract!Slice(start, end)
<1> DEFINE begin == IF start > arr.len THEN arr.len ELSE start
           stop  == IF end > arr.len THEN arr.len ELSE end
           b == IF stop # begin /\ (begin < 0 \/ stop < begin) THEN Failed(arr, "bounds") ELSE arr
           r == [p \in 1..(stop - begin) |-> Seen(arr.mem[begin + p - 1])]
           x == Abstract!Clamp(start)
           y == Abstract!Clamp(end)
<1>1. start \in Int /\ end \in Int
  BY ArgumentsAssumption
<1>2. /\ Good(arr) /\ arr.fault = "none" /\ Shown = Contents(arr)
      /\ Abstract!Halt \/ (b.fault = "none" /\ Abstract!Becomes(Contents(b), r))
  BY DoBecomes DEF Slice
<1>3. Len(Shown) = arr.len /\ arr.len \in Nat
  BY <1>1, <1>2, ClampIs
<1>4. /\ x = IF start < 0 THEN (IF arr.len + start < 0 THEN 0 ELSE arr.len + start)
             ELSE (IF start < arr.len THEN start ELSE arr.len)
      /\ y = IF end < 0 THEN (IF arr.len + end < 0 THEN 0 ELSE arr.len + end)
             ELSE (IF end < arr.len THEN end ELSE arr.len)
  BY <1>3 DEF Abstract!Clamp
<1>5. b.fault = "none" => b = arr /\ (stop = begin \/ (0 <= begin /\ begin <= stop))
  <2> HIDE DEF begin, stop
  <2>1. begin \in Int /\ stop \in Int
    BY <1>1, <1>3 DEF begin, stop
  <2>2. Failed(arr, "bounds").fault # "none"
    <3>1. Failed(arr, "bounds").fault = "bounds"
      BY <1>2, FailedGood DEF Faults
    <3> QED
      BY <3>1
  <2>3. CASE stop # begin /\ (begin < 0 \/ stop < begin)
    BY <2>2, <2>3
  <2>4. CASE ~(stop # begin /\ (begin < 0 \/ stop < begin))
    BY <2>1, <2>4
  <2> QED
    BY <2>3, <2>4
<1> HIDE DEF x, y
<1>6. ASSUME stop = begin \/ (0 <= begin /\ begin <= stop)
      PROVE  r = SubSeq(Shown, x + 1, y)
  <2>1. x \in Nat /\ y \in Nat
    BY <1>1, <1>3, <1>4
  <2>2. CASE stop = begin
    <3>1. x = y
      BY <1>1, <1>3, <1>4, <2>2
    <3>2. begin \in Int /\ stop - begin = 0
      BY <1>1, <1>3, <2>2
    <3>3. r = <<>>
      <4> HIDE DEF begin, stop
      <4> QED
        BY <3>2
    <3>4. SubSeq(Shown, x + 1, y) = <<>>
      <4>1. x + 1 \in Int /\ y \in Int /\ y < x + 1
        BY <2>1, <3>1
      <4> QED
        BY <4>1, SubSeqEmpty
    <3> QED
      BY <3>3, <3>4
  <2>3. CASE 0 <= begin /\ begin <= stop
    <3>1. begin \in Nat /\ stop \in Nat /\ stop <= arr.len /\ x = begin /\ y = stop
      BY <1>1, <1>3, <1>4, <2>3
    <3> HIDE DEF begin, stop
    <3>2. r = SubSeq(Shown, begin + 1, stop)
      BY <1>2, <2>3, <3>1, SliceShows
    <3> QED
      BY <3>1, <3>2
  <2> QED
    BY <1>6, <2>2, <2>3
<1> HIDE DEF b, r, begin, stop
<1>7. CASE Abstract!Halt
  BY <1>7
<1>8. CASE b.fault = "none" /\ Abstract!Becomes(Contents(b), r)
  <2>1. Abstract!Becomes(Shown, SubSeq(Shown, x + 1, y))
    BY <1>2, <1>5, <1>6, <1>8
  <2> QED
    BY <2>1 DEF Abstract!Slice, Abstract!Answers, x, y
<1> QED
  BY <1>2, <1>7, <1>8

\* indexOf and lastIndexOf.
LEMMA SearchSteps ==
  ASSUME IInv, NEW v \in Vals
  PROVE  /\ IndexOf(v) => Abstract!Halt \/ Abstract!IndexOf(v)
         /\ \A k \in Starts : LastIndexOf(v, k) => Abstract!Halt \/ Abstract!LastIndexOf(v, k)
<1> DEFINE is == IndicesOf(arr, v)
           ps == {i + 1 : i \in is}
<1>1. ASSUME Running
      PROVE  /\ Shown = Contents(arr) /\ arr.len \in Nat /\ Len(Shown) = arr.len
             /\ is \subseteq 0..arr.len
             /\ ps \in SUBSET DOMAIN Shown /\ Abstract!Found(ps, v)
  <2>1. Good(arr) /\ Shown = Contents(arr) /\ arr.len \in Nat
    BY <1>1, RunningGood DEF Shown
  <2>2. /\ is \subseteq 0..arr.len
        /\ ps \in SUBSET DOMAIN Shown
        /\ ps \subseteq {p \in DOMAIN Shown : Shown[p] = v}
        /\ v # Undef => \A p \in DOMAIN Shown : Shown[p] = v => p \in ps
    BY <2>1, IndicesFound
  <2>3. Len(Shown) = arr.len
    BY <2>1, ContentsRead
  <2> HIDE DEF ps, is
  <2> QED
    BY <2>1, <2>2, <2>3 DEF Abstract!Found
<1> HIDE DEF is
<1>2. ASSUME IndexOf(v) PROVE Abstract!Halt \/ Abstract!IndexOf(v)
  <2> DEFINE here == CHOOSE i \in is : \A j \in is : i <= j
             there == (CHOOSE p \in ps : \A q \in ps : p <= q) - 1
  <2>1. /\ Running
        /\ Abstract!Halt \/ Abstract!Becomes(Contents(arr), <<IF is = {} THEN -1 ELSE here>>)
    BY <1>2, DoBecomes DEF IndexOf, Ask, is
  <2>2. is \in SUBSET Nat
    <3>1. \A i \in 0..arr.len : i \in Nat
      OBVIOUS
    <3> QED
      BY <1>1, <2>1, <3>1
  <2>3. is = {} => ps = {}
    OBVIOUS
  <2>4. is # {} => ps # {} /\ there = here
    BY <2>2, LeastShifted
  <2> HIDE DEF ps, here, there
  <2>5. (IF is = {} THEN -1 ELSE here) = (IF ps = {} THEN -1 ELSE there)
    BY <2>3, <2>4
  <2>6. ASSUME Abstract!Becomes(Contents(arr), <<IF is = {} THEN -1 ELSE here>>)
        PROVE  Abstract!IndexOf(v)
    <3>1. Abstract!Becomes(Shown, <<IF ps = {} THEN -1 ELSE there>>)
      BY <1>1, <2>1, <2>5, <2>6
    <3> QED
      BY <1>1, <2>1, <3>1 DEF Abstract!IndexOf, Abstract!Answers, there
  <2> QED
    BY <2>1, <2>6
<1>3. ASSUME NEW from \in Starts, LastIndexOf(v, from)
      PROVE  Abstract!Halt \/ Abstract!LastIndexOf(v, from)
  <2> DEFINE k == IF from < 0 THEN arr.len + from ELSE from
             js == {i \in is : i <= k}
             qs == {p \in ps : p <= (IF from < 0 THEN Len(Shown) + from ELSE from) + 1}
             here == CHOOSE i \in js : \A j \in js : j <= i
             there == (CHOOSE p \in qs : \A q \in qs : p >= q) - 1
  <2>1. /\ Running
        /\ Abstract!Halt \/ Abstract!Becomes(Contents(arr), <<IF js = {} THEN -1 ELSE here>>)
    BY <1>3, DoBecomes DEF LastIndexOf, Ask, is
  <2>2. arr.len \in Nat /\ Len(Shown) = arr.len /\ is \subseteq 0..arr.len
        /\ Shown = Contents(arr)
    BY <1>1, <2>1
  <2>3. from \in Int /\ k \in Int
    BY <2>2, ArgumentsAssumption
  <2>4. qs = {p \in ps : p <= k + 1}
    BY <2>2
  <2> HIDE DEF k
  <2>5. qs = {i + 1 : i \in js}
    <3>1. \A i \in is : i \in Int /\ (i <= k <=> i + 1 <= k + 1)
      BY <2>2, <2>3
    <3> HIDE DEF qs
    <3> QED
      BY <2>4, <3>1
  <2>6. js \in SUBSET (0..arr.len)
    BY <2>2
  <2> HIDE DEF ps, js, qs
  <2>7. js = {} => qs = {}
    BY <2>5
  <2>8. js # {} => qs # {} /\ there = here
    BY <2>2, <2>5, <2>6, GreatestShifted
  <2> HIDE DEF here, there
  <2>9. (IF js = {} THEN -1 ELSE here) = (IF qs = {} THEN -1 ELSE there)
    BY <2>7, <2>8
  <2>10. ASSUME Abstract!Becomes(Contents(arr), <<IF js = {} THEN -1 ELSE here>>)
         PROVE  Abstract!LastIndexOf(v, from)
    <3>1. Abstract!Becomes(Shown, <<IF qs = {} THEN -1 ELSE there>>)
      BY <2>2, <2>9, <2>10
    <3> QED
      BY <1>1, <2>1, <3>1 DEF Abstract!LastIndexOf, Abstract!Answers, there, qs
  <2> QED
    BY <2>1, <2>10
<1> QED
  BY <1>2, <1>3

\* A loop that finds nothing to call back for finds an empty array, or the single
\* element that a reduceRight starts with.
NothingFound(f) ==
  /\ Ahead(arr, f) = {} => \/ arr.len = 0
                           \/ arr.len = 1 /\ Outcome(f) = <<Read(arr, 0)>>
  /\ f.kind = "join" => f.len = arr.len

Starting == \E f \in FrameStart :
  Startable(f) /\ NothingFound(f) /\ Continue(f, frames)

\* A loop that starts at the first index finds nothing only in an empty array.
LEMMA UpwardAhead ==
  ASSUME NEW f, f.k = -1, f.kind \in Kinds \ {"reduceRight"}, arr.len \in Nat,
         f.kind \notin LiveLoops => f.len = arr.len, Ahead(arr, f) = {}
  PROVE  arr.len = 0
<1>1. SUFFICES ASSUME arr.len > 0 PROVE FALSE
  OBVIOUS
<1>2. 0 \in 0..(arr.len - 1) /\ 0 < arr.len /\ f.k + 1 = 0
  BY <1>1
<1>3. 0 \in Ahead(arr, f)
  <2>1. CASE f.kind \in LiveLoops
    <3>1. Ahead(arr, f) = (f.k + 1)..(arr.len - 1)
      BY <2>1 DEF Ahead, LiveLoops
    <3>2. Ahead(arr, f) = 0..(arr.len - 1)
      BY <1>2, <3>1, Zenon
    <3> QED
      BY <1>2, <3>2
  <2>2. CASE f.kind = "join"
    <3>1. Ahead(arr, f) = (f.k + 1)..(f.len - 1) /\ f.len = arr.len
      BY <2>2 DEF Ahead, LiveLoops
    <3>2. Ahead(arr, f) = 0..(arr.len - 1)
      BY <1>2, <3>1, Zenon
    <3> QED
      BY <1>2, <3>2
  <2>3. CASE f.kind \notin LiveLoops \cup {"join"}
    <3>1. Ahead(arr, f) = {i \in (f.k + 1)..(f.len - 1) : i < arr.len}
      BY <2>3 DEF Ahead
    <3>2. f.len = arr.len
      BY <2>3
    <3> QED
      BY <1>2, <3>1, <3>2
  <2> QED
    BY <2>1, <2>2, <2>3
<1> QED
  BY <1>3

\* Every method that calls back starts such a loop.
LEMMA BeginsAreStarting ==
  ASSUME IInv,
         \/ \E kind \in Kinds : LoopBegin(kind)
         \/ \E v \in Single : ReduceBegin(v)
         \/ ReduceRightBegin
  PROVE  Starting
<1>1. Running /\ arr.len <= LoopLen
  BY DEF LoopBegin, ReduceBegin, ReduceRightBegin
<1>2. Good(arr) /\ arr.len \in 0..LoopLen /\ arr.len \in Nat
  BY <1>1, RunningGood, ArgumentsAssumption
<1>3. ASSUME NEW kind \in Kinds, NEW out \in Seq(Cells)
      PROVE  /\ Begun(kind, out) \in FrameStart
             /\ Begun(kind, out).kind = kind
             /\ Begun(kind, out).out = out
             /\ Begun(kind, out).k = IF kind = "reduceRight" THEN arr.len ELSE -1
             /\ kind \notin LiveLoops => Begun(kind, out).len = arr.len
  <2>1. Undef \in Cells /\ 0 \in 0..LoopLen
    BY ArgumentsAssumption DEF Cells
  <2>2. Begun(kind, out) \in FrameStart
    BY <1>2, <2>1 DEF Begun, FrameStart
  <2> QED
    BY <2>2 DEF Begun
<1>4. ASSUME NEW kind \in Kinds \ {"reduceRight"}, NEW out \in Seq(Cells)
      PROVE  /\ Begun(kind, out) \in FrameStart
             /\ Startable(Begun(kind, out)) /\ NothingFound(Begun(kind, out))
  <2> DEFINE f == Begun(kind, out)
  <2>1. /\ f \in FrameStart /\ f.kind = kind /\ f.k = -1
        /\ kind \notin LiveLoops => f.len = arr.len
    BY <1>3
  <2> HIDE DEF f
  <2>2. Startable(f)
    BY <2>1 DEF Startable
  <2>3. Ahead(arr, f) = {} => arr.len = 0
    BY <1>2, <2>1, UpwardAhead
  <2>4. f.kind = "join" => f.len = arr.len
    BY <2>1 DEF LiveLoops
  <2> QED
    BY <2>1, <2>2, <2>3, <2>4 DEF f, NothingFound
<1>5. ASSUME NEW kind \in Kinds, LoopBegin(kind) PROVE Starting
  <2> DEFINE out == IF kind = "map" THEN [p \in 1..arr.len |-> Garbage] ELSE <<>>
  <2>1. out \in Seq(Cells)
    BY <1>2, ValuesAreCells
  <2>2. kind # "reduceRight" /\ Continue(Begun(kind, out), frames)
    BY <1>5 DEF LoopBegin
  <2> HIDE DEF out
  <2> QED
    BY <1>4, <2>1, <2>2 DEF Starting
<1>6. ASSUME NEW v \in Single, ReduceBegin(v) PROVE Starting
  <2>1. <<v>> \in Seq(Cells) /\ "reduce" \in Kinds \ {"reduceRight"}
    BY ValuesAreCells DEF Kinds
  <2>2. Continue(Begun("reduce", <<v>>), frames)
    BY <1>6 DEF ReduceBegin
  <2> QED
    BY <1>4, <2>1, <2>2 DEF Starting
<1>7. ASSUME ReduceRightBegin PROVE Starting
  <2> DEFINE out == <<Read(arr, arr.len - 1)>>
             b == Begun("reduceRight", out)
             f == [b EXCEPT !.k = arr.len - 1]
  <2>1. out \in Seq(Cells) /\ "reduceRight" \in Kinds \ LiveLoops
    BY <1>2, ReadWritten DEF Kinds, LiveLoops, Written
  <2>2. Continue(f, frames) /\ arr.len > 0
    BY <1>7 DEF ReduceRightBegin
  <2>3. arr.len = 1 => out = <<Read(arr, 0)>>
    OBVIOUS
  <2> HIDE DEF out
  <2>4. b \in FrameStart /\ b.kind = "reduceRight" /\ b.len = arr.len /\ b.out = out
    BY <1>3, <2>1
  <2> HIDE DEF b
  <2>5. /\ f \in FrameStart /\ f.k = arr.len - 1 /\ f.kind = "reduceRight"
        /\ f.len = arr.len /\ f.out = out
    BY <1>2, <2>4 DEF FrameStart
  <2> HIDE DEF f
  <2>6. Startable(f)
    BY <1>2, <2>2, <2>5 DEF Startable
  <2>7. Ahead(arr, f) = {i \in 0..(f.k - 1) : i < arr.len}
    BY <2>5 DEF Ahead, LiveLoops
  <2>8. Ahead(arr, f) = {} => arr.len = 1
    <3>1. SUFFICES ASSUME arr.len > 1 PROVE 0 \in Ahead(arr, f)
      BY <1>2, <2>2
    <3> QED
      BY <1>2, <2>5, <2>7, <3>1
  <2>9. Outcome(f) = out
    BY <2>5 DEF Outcome
  <2> QED
    BY <2>2, <2>3, <2>5, <2>6, <2>8, <2>9 DEF Starting, NothingFound
<1> QED
  BY <1>5, <1>6, <1>7

\* It calls back, or found nothing.
LEMMA StartingSteps ==
  ASSUME IInv, Running, arr.len <= LoopLen, Starting
  PROVE  Abstract!Called \/ Abstract!NothingToCallFor
<1>1. PICK f \in FrameStart : Startable(f) /\ NothingFound(f) /\ Continue(f, frames)
  BY DEF Starting
<1>2. Good(arr) /\ arr.len \in 0..LoopLen /\ arr.len \in Nat /\ Shown = Contents(arr)
  BY RunningGood, ArgumentsAssumption DEF Shown
<1>3. CASE Ahead(arr, f) # {}
  <2>1. UNCHANGED arr /\ \E k : frames' = Append(frames, At(f, k))
    BY <1>1, <1>3 DEF Continue, At
  <2>2. frames' # frames
    <3>1. frames \in Seq(Frame)
      BY DEF IInv, FramesOK
    <3>2. PICK k : frames' = Append(frames, At(f, k))
      BY <2>1
    <3>3. Len(frames') = Len(frames) + 1 /\ Len(frames) \in Nat
      BY <3>1, <3>2
    <3> QED
      BY <3>3
  <2>3. Shown' = Shown /\ Running' = Running
    BY <2>1 DEF Shown, Running
  <2> QED
    BY <2>2, <2>3 DEF Abstract!Called
<1>4. CASE Ahead(arr, f) = {}
  <2>1. ~JoinOverruns(arr, f)
    BY <1>1, <1>2 DEF NothingFound, JoinOverruns
  <2>2. UNCHANGED <<arr, frames>> /\ last' = Outcome(f)
    BY <1>1, <1>4, <2>1 DEF Continue
  <2>3. Shown' = Shown /\ Running' = Running
    BY <2>2 DEF Shown, Running
  <2>4. /\ Shown \in Seq(Written) /\ Len(Shown) = arr.len
        /\ \A p \in 1..arr.len : Shown[p] = Read(arr, p - 1)
    BY <1>2, ContentsRead
  <2>5. arr.len = 0 => Shown = <<>>
    BY <2>4
  <2>6. arr.len = 1 => Len(Shown) = 1 /\ Shown = <<Read(arr, 0)>>
    <3>1. arr.len = 1 => 1 \in 1..arr.len /\ 1 - 1 = 0
      OBVIOUS
    <3> QED
      BY <2>4, <3>1
  <2> QED
    BY <1>1, <1>4, <2>2, <2>3, <2>5, <2>6 DEF NothingFound, Abstract!NothingToCallFor
<1> QED
  BY <1>3, <1>4

\* A loop that goes on stands elsewhere, or is over, or loses the array.
LEMMA GoesOnSteps ==
  ASSUME IInv, GoesOn
  PROVE  Abstract!Called \/ Abstract!Halt
<1>1. PICK f \in FrameStart :
        /\ Startable(f) /\ Good(arr) /\ arr.len \in 0..LoopLen /\ frames # <<>>
        /\ f.kind = Top.kind /\ f.k = Top.k /\ f.len = Top.len
        /\ Continue(f, Below)
  BY GoesOnIs
<1>2. /\ Below \in Seq(Frame) /\ Len(frames) \in Nat \ {0} /\ Top \in Frame
      /\ Len(Below) = Len(frames) - 1
  BY <1>1, TopFrame
<1>3. \/ UNCHANGED arr /\ \E k \in Ahead(arr, f) : frames' = Append(Below, At(f, k))
      \/ /\ Ahead(arr, f) = {} /\ frames' = Below
         /\ UNCHANGED arr \/ arr' = Failed(arr, "bounds")
  BY <1>1, ContinueIs
<1>4. CASE arr' = Failed(arr, "bounds")
  <2>1. arr'.fault = "bounds"
    BY <1>1, <1>4, FailedGood DEF Faults
  <2> QED
    BY <2>1 DEF Abstract!Halt, Running
<1>5. UNCHANGED arr => Shown' = Shown /\ Running' = Running
  BY DEF Shown, Running
<1>6. CASE UNCHANGED arr /\ frames' = Below
  <2>1. frames' # frames
    BY <1>2, <1>6
  <2> QED
    BY <1>5, <1>6, <2>1 DEF Abstract!Called
<1>7. CASE UNCHANGED arr /\ \E k \in Ahead(arr, f) : frames' = Append(Below, At(f, k))
  <2>1. PICK k \in Ahead(arr, f) : frames' = Append(Below, At(f, k))
    BY <1>7
  <2>2. At(f, k) \in Frame /\ At(f, k).k = k /\ k \in 0..LoopLen
    BY <1>1, FrameAt, AheadInside
  <2>3. k # Top.k
    <3>1. f.k \in Int /\ f.len \in Int
      BY <1>1, ArgumentsAssumption DEF FrameStart
    <3>2. k # f.k
      <4>1. k > f.k \/ k < f.k
        BY <1>1, <3>1 DEF Ahead
      <4> QED
        BY <2>2, <3>1, <4>1, ArgumentsAssumption
    <3> QED
      BY <1>1, <3>2
  <2>4. frames'[Len(frames)] = At(f, k)
    BY <1>2, <2>1, <2>2
  <2>5. frames' # frames
    BY <2>2, <2>3, <2>4 DEF Top
  <2> QED
    BY <1>5, <1>7, <2>5 DEF Abstract!Called
<1> QED
  BY <1>3, <1>4, <1>6, <1>7

\* A loop that is left is over.
LEMMA LeavesSteps ==
  ASSUME IInv, Leaves
  PROVE  Abstract!Called
<1>1. UNCHANGED arr /\ frames' = Below /\ frames # <<>>
  BY DEF Leaves, Leave
<1>2. Len(frames) \in Nat \ {0} /\ Len(Below) = Len(frames) - 1
  BY <1>1, TopFrame
<1>3. frames' # frames
  BY <1>1, <1>2
<1>4. Shown' = Shown /\ Running' = Running
  BY <1>1 DEF Shown, Running
<1> QED
  BY <1>3, <1>4 DEF Abstract!Called

\* reduceRight of nothing answers; the reductions that throw end the process.
LEMMA ReduceEndsSteps ==
  ASSUME IInv
  PROVE  /\ \A v : ReduceRightOfEmpty(v) => Abstract!Halt \/ Abstract!NothingToCallFor
         /\ ReduceAborts => Abstract!Halt
<1>1. ASSUME NEW v, ReduceRightOfEmpty(v)
      PROVE  Abstract!Halt \/ Abstract!NothingToCallFor
  <2>1. /\ Good(arr) /\ Shown = Contents(arr)
        /\ Abstract!Halt \/ Abstract!Becomes(Contents(arr), <<v>>)
    BY <1>1, DoBecomes DEF ReduceRightOfEmpty, Ask
  <2>2. arr.len = 0 /\ Len(Shown) = arr.len /\ Shown \in Seq(Written)
    BY <1>1, <2>1, ContentsRead DEF ReduceRightOfEmpty
  <2>3. Shown = <<>>
    BY <2>2
  <2> QED
    BY <2>1, <2>3 DEF Abstract!NothingToCallFor, Abstract!Becomes
<1>2. ASSUME ReduceAborts PROVE Abstract!Halt
  <2>1. PICK method : Do(method, Failed(arr, "abort"), <<>>)
    BY <1>2 DEF ReduceAborts
  <2> DEFINE b == Failed(arr, "abort")
  <2>2. Good(arr) /\ (Abstract!Halt \/ b.fault = "none")
    BY <2>1, DoBecomes
  <2>3. b.fault = "abort"
    BY <2>2, FailedGood DEF Faults
  <2> HIDE DEF b
  <2> QED
    BY <2>2, <2>3
<1> QED
  BY <1>1, <1>2

\* Every step of an array is one of the sequence.
LEMMA StepsAreAbstract ==
  ASSUME IInv, Next
  PROVE  Abstract!Next
<1>1. \A v \in Single : v \in Vals
  BY ValuesAreCells
<1>2. ASSUME Abstract!Halt \/ Abstract!Called \/ Abstract!NothingToCallFor
      PROVE  Abstract!Next
  BY <1>2, Zenon DEF Abstract!Next
<1>3. ASSUME NEW i \in Indices, NEW v \in Single, Set(i, v) PROVE Abstract!Next
  <2>1. v \in Vals /\ (Abstract!Halt \/ Abstract!Set(i, v))
    BY <1>1, <1>3, SetSteps
  <2> QED
    BY <2>1, Zenon DEF Abstract!Next
<1>4. ASSUME NEW n \in Indices, Length(n) \/ Delete(n) \/ Own(n) PROVE Abstract!Next
  <2>1. Abstract!Halt \/ Abstract!SetLength(n) \/ Abstract!Delete(n)
    BY <1>4, LengthSteps, Zenon
  <2> QED
    BY <2>1, Zenon DEF Abstract!Next
<1>5. ASSUME NEW vs \in Args, Push(vs) \/ Unshift(vs) \/ Concat(vs) PROVE Abstract!Next
  <2>1. Abstract!Halt \/ Abstract!Push(vs) \/ Abstract!Unshift(vs) \/ Abstract!Concat(vs)
    BY <1>5, PushSteps, Zenon
  <2> QED
    BY <2>1, Zenon DEF Abstract!Next
<1>14. ASSUME PushItself \/ UnshiftItself PROVE Abstract!Next
  <2>1. Abstract!Halt \/ Abstract!Push(Shown) \/ Abstract!Unshift(Shown)
    BY <1>14, ItselfSteps, Zenon
  <2> QED
    BY <2>1, Zenon DEF Abstract!Next
<1>6. ASSUME Pop \/ Shift \/ Reversal \/ From PROVE Abstract!Next
  <2>1. Abstract!Halt \/ Abstract!Pop \/ Abstract!Shift \/ Abstract!Reversal \/ Abstract!Copy
    BY <1>6, EndSteps, Zenon
  <2> QED
    BY <2>1, Zenon DEF Abstract!Next
<1>7. ASSUME NEW v \in Single, NEW s \in Starts, NEW e \in Starts, Fill(v, s, e)
      PROVE  Abstract!Next
  <2>1. v \in Vals /\ (Abstract!Halt \/ Abstract!Fill(v, s, e))
    BY <1>1, <1>7, FillSteps
  <2> QED
    BY <2>1, Zenon DEF Abstract!Next
<1>8. ASSUME NEW s \in Starts, NEW n \in Counts, NEW vs \in Args, Splice(s, n, vs)
      PROVE  Abstract!Next
  <2>1. Abstract!Halt \/ Abstract!Splice(s, n, vs) \/ Abstract!SpliceBefore(s)
    BY <1>8, SpliceSteps
  <2> QED
    BY <2>1, Zenon DEF Abstract!Next
<1>9. ASSUME NEW s \in Starts, NEW e \in Starts, Slice(s, e) PROVE Abstract!Next
  <2>1. Abstract!Halt \/ Abstract!Slice(s, e)
    BY <1>9, SliceSteps
  <2> QED
    BY <2>1, Zenon DEF Abstract!Next
<1>10. ASSUME NEW v \in Single, IndexOf(v) \/ \E k \in Starts : LastIndexOf(v, k)
       PROVE  Abstract!Next
  <2>1. v \in Vals
    BY <1>1
  <2>2. Abstract!Halt \/ Abstract!IndexOf(v) \/ \E k \in Starts : Abstract!LastIndexOf(v, k)
    BY <1>10, <2>1, SearchSteps
  <2> QED
    BY <2>1, <2>2, Zenon DEF Abstract!Next
<1>11. ASSUME \/ \E kind \in Kinds : LoopBegin(kind)
              \/ \E v \in Single : ReduceBegin(v)
              \/ ReduceRightBegin
       PROVE  Abstract!Next
  <2>1. Running /\ arr.len <= LoopLen
    BY <1>11 DEF LoopBegin, ReduceBegin, ReduceRightBegin
  <2> QED
    BY <1>2, <1>11, <2>1, BeginsAreStarting, StartingSteps
<1>12. ASSUME (\E v \in Single : ReduceRightOfEmpty(v)) \/ ReduceAborts
       PROVE  Abstract!Next
  BY <1>2, <1>12, ReduceEndsSteps
<1>13. ASSUME
         \/ ForEachReturn \/ IteratorNext \/ JoinReturn
         \/ \E v \in Single : MapReturn(v) \/ ReduceReturn(v) \/ ReduceRightReturn(v)
         \/ \E accepts \in BOOLEAN :
              \/ EveryReturn(accepts) \/ SomeReturn(accepts) \/ FindReturn(accepts)
              \/ FindIndexReturn(accepts) \/ FilterReturn(accepts)
       PROVE  Abstract!Next
  BY <1>2, <1>13, ReturnsAre, GoesOnSteps, LeavesSteps
<1> QED
  BY <1>3, <1>4, <1>5, <1>6, <1>7, <1>8, <1>9, <1>10, <1>11, <1>12, <1>13, <1>14, Zenon DEF Next

(***************************************************************************)
(* Whatever block an array has, however it is moved and cut, and whatever  *)
(* the callbacks of its loops do to it, its methods are those of a         *)
(* sequence of values.                                                     *)
(***************************************************************************)
THEOREM ArraysAreSequences == Spec => ImplementsSequence
<1>1. Init => Abstract!Init
  <2> SUFFICES ASSUME Init PROVE Abstract!Init
    OBVIOUS
  <2>2. Running
    BY NewGood, ArgumentsAssumption DEF Init, Running
  <2>3. Running = TRUE
    BY <2>2 DEF Running
  <2>4. last = <<>> /\ frames = <<>>
    BY DEF Init
  <2> QED
    BY <2>3, <2>4, Zenon DEF Abstract!Init
<1>2. IInv /\ [Next]_vars => [Abstract!Next]_Abstract!seqVars
  <2>1. CASE UNCHANGED vars
    BY <2>1 DEF vars, Abstract!seqVars, Shown, Running
  <2> QED
    BY <2>1, StepsAreAbstract
<1> QED
  BY <1>1, <1>2, Invariance, PTL DEF Spec, ImplementsSequence, Abstract!Spec
=============================================================================
