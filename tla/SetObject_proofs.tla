---------------------------- MODULE SetObject_proofs ----------------------------
(***************************************************************************)
(* Theorems about SetObject: for every set of values added, any number of  *)
(* iterators and any bounds.                                               *)
(***************************************************************************)
EXTENDS SetObject, SequenceTheorems, FiniteSetTheorems, WellFoundedInduction, TLAPS

(***************************************************************************)
(* Lemmas about the entry list: the scan, and the iterator's way of        *)
(* finding its place by counting the live entries before it.  The entry   *)
(* list of a Map is the same, and its theorems rest on the same lemmas.    *)
(***************************************************************************)

(***************************************************************************)
(* First picks an element: a set of positions that is not empty has a      *)
(* least one, so every scan that stops stops at a definite entry.          *)
(***************************************************************************)
LEMMA FirstIsLeast ==
  ASSUME NEW S \in SUBSET Nat, S # {}
  PROVE  First(S) \in S /\ \A j \in S : First(S) <= j
<1>1. PICK x \in S : \A y \in S : ~(<<y, x>> \in OpToRel(<, Nat))
  BY NatLessThanWellFounded, WFMin
<1>2. \A y \in S : x <= y
  <2>1. ASSUME NEW y \in S, y < x  PROVE <<y, x>> \in OpToRel(<, Nat)
    BY <2>1, <<y, x>> \in Nat \X Nat, <<y, x>>[1] < <<y, x>>[2] DEF OpToRel
  <2>2. ASSUME NEW y \in S  PROVE ~(y < x)
    BY <1>1, <2>1, Zenon
  <2>3. QED  BY <2>2
<1>3. QED  BY <1>2 DEF First

(***************************************************************************)
(* The live entries up to a position are finitely many.                    *)
(***************************************************************************)
LEMMA LiveUpToFinite ==
  ASSUME NEW T, NEW es \in Seq(T), NEW p \in Int
  PROVE  /\ IsFiniteSet(LiveUpTo(es, p))
         /\ Cardinality(LiveUpTo(es, p)) \in Nat
<1>1. IsFiniteSet(1..Len(es))
  BY FS_Interval
<1>2. LiveUpTo(es, p) \in SUBSET (1..Len(es))
  BY DEF LiveUpTo, Live
<1>3. IsFiniteSet(LiveUpTo(es, p))
  BY <1>1, <1>2, FS_Subset
<1>4. QED  BY <1>3, FS_CardinalityType

(***************************************************************************)
(* A live entry adds one to the count of those before it.                  *)
(***************************************************************************)
LEMMA LiveUpToStep ==
  ASSUME NEW T, NEW es \in Seq(T), NEW p \in Live(es)
  PROVE  Cardinality(LiveUpTo(es, p)) = Cardinality(LiveUpTo(es, p - 1)) + 1
<1>1. p \in Nat
  BY DEF Live
<1>2. LiveUpTo(es, p) = LiveUpTo(es, p - 1) \cup {p}
  <2>1. ASSUME NEW i \in Live(es)  PROVE i <= p <=> i <= p - 1 \/ i = p
    BY <1>1 DEF Live
  <2>2. QED  BY <2>1, <1>1 DEF LiveUpTo
<1>5. p \notin LiveUpTo(es, p - 1)
  BY <1>1 DEF LiveUpTo
<1>3. IsFiniteSet(LiveUpTo(es, p - 1))
  BY <1>1, LiveUpToFinite
<1>4. QED  BY <1>2, <1>3, <1>5, FS_AddElement

(***************************************************************************)
(* Counting further counts no fewer.                                       *)
(***************************************************************************)
LEMMA LiveUpToMonotone ==
  ASSUME NEW T, NEW es \in Seq(T), NEW p \in Int, NEW q \in Int, p <= q
  PROVE  Cardinality(LiveUpTo(es, p)) <= Cardinality(LiveUpTo(es, q))
<1>1. LiveUpTo(es, p) \in SUBSET LiveUpTo(es, q)
  <2>1. ASSUME NEW i \in Live(es)  PROVE i \in Nat
    BY DEF Live
  <2>2. QED  BY <2>1 DEF LiveUpTo
<1>2. QED  BY <1>1, LiveUpToFinite, FS_Subset

(***************************************************************************)
(* An iterator whose index is at least the number of live entries up to    *)
(* its place goes forward, and its new index covers its new place exactly. *)
(***************************************************************************)
LEMMA NthLiveForward ==
  ASSUME NEW T, NEW es \in Seq(T), NEW n \in Nat, NEW pos \in Nat,
         Cardinality(LiveUpTo(es, pos)) <= n,
         NthLive(es, n) # {}
  PROVE  LET p == First(NthLive(es, n))
         IN  /\ p \in Live(es)
             /\ p > pos
             /\ Cardinality(LiveUpTo(es, p)) = n + 1
<1> DEFINE p == First(NthLive(es, n))
<1>1. NthLive(es, n) \in SUBSET Nat
  BY DEF NthLive, Live
<1>2. p \in NthLive(es, n)
  BY <1>1, FirstIsLeast
<1>3. p \in Live(es) /\ p \in Nat /\ Cardinality(LiveUpTo(es, p - 1)) = n
  BY <1>2 DEF NthLive, Live
<1>4. Cardinality(LiveUpTo(es, p)) = n + 1
  BY <1>3, LiveUpToStep
<1>5. p > pos
  <2> SUFFICES ASSUME p <= pos  PROVE FALSE
    BY <1>3
  <2>1. Cardinality(LiveUpTo(es, p)) <= Cardinality(LiveUpTo(es, pos))
    BY <1>3, LiveUpToMonotone
  <2>2. Cardinality(LiveUpTo(es, pos)) \in Nat
    BY LiveUpToFinite
  <2>3. QED  BY <1>4, <2>1, <2>2
<1>6. QED  BY <1>3, <1>4, <1>5

(***************************************************************************)
(* What happens to a list between two calls of next: entries are blanked   *)
(* or rewritten in place and others are appended, but no tombstone is ever *)
(* used again.  The live entries up to a place inside the list are among   *)
(* those that were there before.                                           *)
(***************************************************************************)
LEMMA LiveUpToKept ==
  ASSUME NEW T, NEW es \in Seq(T), NEW fs \in Seq(T),
         NEW pos \in Nat, pos <= Len(es), Len(es) <= Len(fs),
         \A i \in 1..Len(es) : i \in Live(fs) => i \in Live(es)
  PROVE  LiveUpTo(fs, pos) \in SUBSET LiveUpTo(es, pos)
<1>1. ASSUME NEW i \in Live(fs), i <= pos  PROVE i \in 1..Len(es)
  BY <1>1 DEF Live
<1>2. QED  BY <1>1 DEF LiveUpTo

(***************************************************************************)
(* So the count up to a place inside the list cannot grow.                 *)
(***************************************************************************)
LEMMA LiveUpToShrinks ==
  ASSUME NEW T, NEW es \in Seq(T), NEW fs \in Seq(T),
         NEW pos \in Nat, pos <= Len(es), Len(es) <= Len(fs),
         \A i \in 1..Len(es) : i \in Live(fs) => i \in Live(es)
  PROVE  Cardinality(LiveUpTo(fs, pos)) <= Cardinality(LiveUpTo(es, pos))
<1>1. LiveUpTo(fs, pos) \in SUBSET LiveUpTo(es, pos)
  BY LiveUpToKept
<1>2. IsFiniteSet(LiveUpTo(es, pos))
  BY LiveUpToFinite
<1>3. QED  BY <1>1, <1>2, FS_Subset

(***************************************************************************)
(* One step of forEach: if the walk has handed over every live entry up to *)
(* its place, it has after it moved to the first live entry beyond.        *)
(***************************************************************************)
LEMMA WalkCovers ==
  ASSUME NEW T, NEW es \in Seq(T), NEW pos \in Nat, NEW seen \in SUBSET Nat,
         LiveUpTo(es, pos) \subseteq seen, LiveBeyond(es, pos) # {}
  PROVE  LET q == First(LiveBeyond(es, pos))
         IN  /\ q \in 1..Len(es)
             /\ LiveUpTo(es, q) \subseteq seen \cup {q}
<1> DEFINE ahead == LiveBeyond(es, pos)
           q     == First(ahead)
<1>1. ahead \in SUBSET Nat
  BY DEF LiveBeyond, Live
<1>2. q \in ahead /\ \A i \in ahead : q <= i
  BY <1>1, FirstIsLeast
<1>3. q \in 1..Len(es)
  BY <1>2 DEF LiveBeyond, Live
<1>4. ASSUME NEW i \in LiveUpTo(es, q), i # q  PROVE i \in LiveUpTo(es, pos)
  <2>1. i \in Live(es) /\ i \in Nat /\ i <= q
    BY DEF LiveUpTo, Live
  <2>2. i \notin ahead
    BY <1>2, <1>3, <1>4, <2>1
  <2>3. QED  BY <2>1, <2>2 DEF LiveBeyond, LiveUpTo
<1>5. QED  BY <1>3, <1>4

(***************************************************************************)
(* A walk with nothing live ahead has handed over all there is.            *)
(***************************************************************************)
LEMMA WalkEnds ==
  ASSUME NEW T, NEW es \in Seq(T), NEW pos \in Nat, NEW seen \in SUBSET Nat,
         LiveUpTo(es, pos) \subseteq seen, LiveBeyond(es, pos) = {}
  PROVE  Live(es) \subseteq seen
<1>1. \A i \in Live(es) : i \in Nat
  BY DEF Live
<1>2. QED  BY <1>1 DEF LiveUpTo, LiveBeyond

-----------------------------------------------------------------------------
(***************************************************************************)
(* The sequence of live entries.  Each has a rank, its place in that       *)
(* sequence: the number of live entries up to it.                          *)
(***************************************************************************)
Rank(es, p) == Cardinality(LiveUpTo(es, p))

LEMMA LiveFinite ==
  ASSUME NEW T, NEW es \in Seq(T)
  PROVE  /\ IsFiniteSet(Live(es))
         /\ Cardinality(Live(es)) \in Nat
         /\ LiveUpTo(es, Len(es)) = Live(es)
         /\ LiveUpTo(es, 0) = {}
<1>1. LiveUpTo(es, Len(es)) = Live(es) /\ LiveUpTo(es, 0) = {}
  BY DEF LiveUpTo, Live
<1>2. Len(es) \in Int
  OBVIOUS
<1>3. IsFiniteSet(LiveUpTo(es, Len(es)))
  BY <1>2, LiveUpToFinite
<1>4. QED  BY <1>1, <1>3, FS_CardinalityType

LEMMA RankType ==
  ASSUME NEW T, NEW es \in Seq(T), NEW p \in Live(es)
  PROVE  Rank(es, p) \in 1..Cardinality(Live(es))
<1>1. p \in 1..Len(es) /\ p \in Int /\ p - 1 \in Int /\ Len(es) \in Int
  BY DEF Live
<1>2. Rank(es, p) = Cardinality(LiveUpTo(es, p - 1)) + 1
  BY LiveUpToStep DEF Rank
<1>3. Cardinality(LiveUpTo(es, p - 1)) \in Nat
  BY <1>1, LiveUpToFinite
<1>4. Cardinality(LiveUpTo(es, p)) <= Cardinality(LiveUpTo(es, Len(es)))
  BY <1>1, LiveUpToMonotone
<1>5. QED  BY <1>2, <1>3, <1>4, LiveFinite DEF Rank

(***************************************************************************)
(* Ranks grow with the positions, so no two live entries share one.        *)
(***************************************************************************)
LEMMA RankGrows ==
  ASSUME NEW T, NEW es \in Seq(T), NEW p \in Live(es), NEW q \in Live(es), p < q
  PROVE  Rank(es, p) < Rank(es, q)
<1>1. p \in Int /\ q - 1 \in Int /\ p <= q - 1
  BY DEF Live
<1>2. Rank(es, q) = Cardinality(LiveUpTo(es, q - 1)) + 1
  BY LiveUpToStep DEF Rank
<1>3. Cardinality(LiveUpTo(es, p)) <= Cardinality(LiveUpTo(es, q - 1))
  BY <1>1, LiveUpToMonotone
<1>4. Cardinality(LiveUpTo(es, p)) \in Nat /\ Cardinality(LiveUpTo(es, q - 1)) \in Nat
  BY <1>1, LiveUpToFinite
<1>5. QED  BY <1>2, <1>3, <1>4 DEF Rank

LEMMA RankInjective ==
  ASSUME NEW T, NEW es \in Seq(T), NEW p \in Live(es), NEW q \in Live(es),
         Rank(es, p) = Rank(es, q)
  PROVE  p = q
<1>1. p \in Nat /\ q \in Nat
  BY DEF Live
<1>2. Rank(es, p) \in Nat /\ Rank(es, q) \in Nat
  BY RankType, LiveFinite
<1>3. ~(p < q) /\ ~(q < p)
  BY <1>2, RankGrows
<1>4. QED  BY <1>1, <1>3

(***************************************************************************)
(* Every number up to the count of live entries is the rank of one: the    *)
(* first position up to which that many are live.                          *)
(***************************************************************************)
LEMMA RankOnto ==
  ASSUME NEW T, NEW es \in Seq(T), NEW n \in 1..Cardinality(Live(es))
  PROVE  \E p \in Live(es) : Rank(es, p) = n
<1> DEFINE S == {p \in Nat : Rank(es, p) >= n}
           p == First(S)
<1>1. Len(es) \in S
  BY LiveFinite DEF Rank
<1>2. p \in S /\ \A q \in S : p <= q
  BY <1>1, FirstIsLeast
<1>3. p # 0
  <2>1. Rank(es, 0) = 0
    BY LiveFinite, FS_EmptySet DEF Rank
  <2>2. 0 \notin S
    BY <2>1, LiveFinite
  <2>3. QED  BY <1>2, <2>2
<1> HIDE DEF p
<1>4. p - 1 \in Nat /\ p - 1 \notin S
  BY <1>2, <1>3
<1>5. Rank(es, p) \in Nat /\ Rank(es, p - 1) \in Nat
  BY <1>2, <1>4, LiveUpToFinite DEF Rank
<1>6. Rank(es, p - 1) < n /\ n <= Rank(es, p) /\ n \in Nat
  BY <1>2, <1>4, <1>5, LiveFinite
<1>7. p \in Live(es)
  <2> SUFFICES ASSUME p \notin Live(es)  PROVE FALSE
    OBVIOUS
  <2>1. LiveUpTo(es, p) = LiveUpTo(es, p - 1)
    <3>1. \A i \in Live(es) : i \in Nat /\ i # p
      BY DEF Live
    <3>2. \A i \in Live(es) : i <= p <=> i <= p - 1
      BY <1>2, <3>1
    <3>3. QED  BY <3>2 DEF LiveUpTo
  <2>2. QED  BY <1>5, <1>6, <2>1 DEF Rank
<1>8. Rank(es, p) = Rank(es, p - 1) + 1
  BY <1>7, LiveUpToStep DEF Rank
<1>9. QED  BY <1>5, <1>6, <1>7, <1>8

(***************************************************************************)
(* The sequence of live entries holds each at its rank.                    *)
(***************************************************************************)
LEMMA LiveEntriesAt ==
  ASSUME NEW T, NEW es \in Seq(T), NEW p \in Live(es)
  PROVE  LiveEntries(es)[Rank(es, p)] = es[p]
<1> DEFINE n == Rank(es, p)
<1>1. n \in 1..Cardinality(Live(es))
  BY RankType
<1>2. ASSUME NEW q \in Live(es)
      PROVE  Cardinality(LiveUpTo(es, q - 1)) = n - 1 <=> q = p
  <2>1. Rank(es, q) = Cardinality(LiveUpTo(es, q - 1)) + 1
    BY LiveUpToStep DEF Rank
  <2>2. Cardinality(LiveUpTo(es, q - 1)) \in Nat
    <3>1. q - 1 \in Int
      BY DEF Live
    <3>2. QED  BY <3>1, LiveUpToFinite
  <2>3. Rank(es, q) = n <=> q = p
    BY RankInjective
  <2>4. QED  BY <1>1, <2>1, <2>2, <2>3, LiveFinite
<1>3. NthLive(es, n - 1) = {p}
  BY <1>2 DEF NthLive
<1>4. First({p}) = p
  BY FirstIsLeast DEF Live
<1>5. QED  BY <1>1, <1>3, <1>4 DEF LiveEntries

LEMMA LiveEntriesType ==
  ASSUME NEW T, NEW es \in Seq(T)
  PROVE  /\ LiveEntries(es) \in Seq(T)
         /\ Len(LiveEntries(es)) = Cardinality(Live(es))
         /\ \A n \in 1..Cardinality(Live(es)) : \E p \in Live(es) :
              n = Rank(es, p) /\ LiveEntries(es)[n] = es[p]
<1>1. \A n \in 1..Cardinality(Live(es)) : \E p \in Live(es) :
        n = Rank(es, p) /\ LiveEntries(es)[n] = es[p]
  BY RankOnto, LiveEntriesAt
<1>2. \A p \in Live(es) : es[p] \in T
  BY DEF Live
<1>3. LiveEntries(es) \in [1..Cardinality(Live(es)) -> T]
  BY <1>1, <1>2 DEF LiveEntries
<1>4. Cardinality(Live(es)) \in Nat
  BY LiveFinite
<1>5. QED  BY <1>1, <1>3, <1>4

(***************************************************************************)
(* And it is the only sequence that does.                                  *)
(***************************************************************************)
LEMMA LiveEntriesUnique ==
  ASSUME NEW T, NEW es \in Seq(T), NEW s \in Seq(T),
         Len(s) = Cardinality(Live(es)),
         \A p \in Live(es) : s[Rank(es, p)] = es[p]
  PROVE  s = LiveEntries(es)
<1>1. \A n \in 1..Len(s) : s[n] = LiveEntries(es)[n]
  BY LiveEntriesType
<1>2. LiveEntries(es) \in Seq(T) /\ Len(LiveEntries(es)) = Len(s)
  BY LiveEntriesType
<1>3. QED  BY <1>1, <1>2

(***************************************************************************)
(* What the operations on the list do to the sequence of live entries: an  *)
(* append appends, a rewrite in place rewrites in place, a list without    *)
(* live entries is the empty dictionary, and a blanked entry closes the    *)
(* gap it leaves.                                                          *)
(***************************************************************************)
LEMMA LiveEntriesAppend ==
  ASSUME NEW T, NEW es \in Seq(T), NEW e \in T, e.key # Empty
  PROVE  LiveEntries(Append(es, e)) = Append(LiveEntries(es), e)
<1> DEFINE fs == Append(es, e)
           N  == Len(es)
           s  == Append(LiveEntries(es), e)
<1>1. /\ fs \in Seq(T) /\ Len(fs) = N + 1 /\ N \in Nat
      /\ fs[N + 1] = e /\ \A i \in 1..N : fs[i] = es[i]
  OBVIOUS
<1>2. Live(fs) = Live(es) \cup {N + 1}
  BY <1>1 DEF Live
<1>3. N + 1 \notin Live(es)
  BY <1>1 DEF Live
<1>4. Cardinality(Live(fs)) = Cardinality(Live(es)) + 1
  BY <1>2, <1>3, LiveFinite, FS_AddElement
<1>5. \A p \in Live(es) : Rank(fs, p) = Rank(es, p)
  <2>1. ASSUME NEW p \in Live(es)  PROVE LiveUpTo(fs, p) = LiveUpTo(es, p)
    BY <1>1, <1>2 DEF LiveUpTo, Live
  <2>2. QED  BY <2>1 DEF Rank
<1>6. Rank(fs, N + 1) = Cardinality(Live(es)) + 1
  BY <1>1, <1>4, LiveFinite DEF Rank
<1>7. LiveEntries(es) \in Seq(T) /\ Len(LiveEntries(es)) = Cardinality(Live(es))
  BY LiveEntriesType
<1> HIDE DEF fs
<1>8. s \in Seq(T) /\ Len(s) = Cardinality(Live(fs))
  BY <1>4, <1>7
<1>9. ASSUME NEW p \in Live(fs)  PROVE s[Rank(fs, p)] = fs[p]
  <2>1. CASE p = N + 1
    BY <1>1, <1>6, <1>7, <2>1
  <2>2. CASE p \in Live(es)
    <3>1. Rank(es, p) \in 1..Cardinality(Live(es)) /\ p \in 1..N
      BY <2>2, RankType DEF Live
    <3>2. LiveEntries(es)[Rank(es, p)] = es[p]
      BY <2>2, LiveEntriesAt
    <3>3. QED  BY <1>1, <1>5, <1>7, <2>2, <3>1, <3>2
  <2>3. QED  BY <1>2, <2>1, <2>2
<1> HIDE DEF s
<1>10. s = LiveEntries(fs)
  BY <1>1, <1>8, <1>9, LiveEntriesUnique
<1>11. QED  BY <1>10 DEF s, fs

LEMMA LiveEntriesNone ==
  ASSUME NEW T, NEW es \in Seq(T), Live(es) = {}
  PROVE  LiveEntries(es) = <<>>
<1>1. LiveEntries(es) \in Seq(T) /\ Len(LiveEntries(es)) = 0
  BY LiveEntriesType, FS_EmptySet
<1>2. QED  BY <1>1

LEMMA LiveEntriesDrop ==
  ASSUME NEW T, NEW es \in Seq(T), NEW fs \in Seq(T), NEW d \in Live(es),
         Len(fs) = Len(es), fs[d].key = Empty,
         \A i \in 1..Len(es) : i # d => fs[i] = es[i]
  PROVE  LiveEntries(fs) =
           [n \in 1..(Len(LiveEntries(es)) - 1) |->
              IF n < Rank(es, d) THEN LiveEntries(es)[n] ELSE LiveEntries(es)[n + 1]]
<1> DEFINE D == LiveEntries(es)
           C == Cardinality(Live(es))
           r == Rank(es, d)
           s == [n \in 1..(Len(D) - 1) |-> IF n < r THEN D[n] ELSE D[n + 1]]
<1>1. Live(fs) = Live(es) \ {d} /\ d \in 1..Len(es)
  BY DEF Live
<1>2. D \in Seq(T) /\ Len(D) = C /\ r \in 1..C /\ C \in Nat
  BY LiveEntriesType, RankType, LiveFinite
<1>3. Cardinality(Live(fs)) = C - 1
  BY <1>1, LiveFinite, FS_RemoveElement
<1>4. ASSUME NEW q \in Live(fs)
      PROVE  /\ q < d => Rank(fs, q) = Rank(es, q)
             /\ q > d => Rank(fs, q) = Rank(es, q) - 1
  <2>1. LiveUpTo(fs, q) = LiveUpTo(es, q) \ {d}
    BY <1>1 DEF LiveUpTo
  <2>2. q \in Int /\ d \in Int
    BY <1>1 DEF Live
  <2>3. IsFiniteSet(LiveUpTo(es, q))
    BY <2>2, LiveUpToFinite
  <2>4. CASE q < d
    <3>1. d \notin LiveUpTo(es, q)
      BY <2>2, <2>4 DEF LiveUpTo
    <3>2. LiveUpTo(fs, q) = LiveUpTo(es, q)
      BY <2>1, <3>1
    <3>3. ~(q > d)
      BY <2>2, <2>4
    <3>4. QED  BY <3>2, <3>3 DEF Rank
  <2>5. CASE q > d
    <3>1. d \in LiveUpTo(es, q)
      BY <2>2, <2>5 DEF LiveUpTo
    <3>2. Cardinality(LiveUpTo(es, q) \ {d}) = Cardinality(LiveUpTo(es, q)) - 1
      BY <2>3, <3>1, FS_RemoveElement
    <3>3. QED  BY <2>1, <2>2, <2>5, <3>2 DEF Rank
  <2>6. QED  BY <2>4, <2>5
<1> HIDE DEF D, C, r
<1>5. s \in Seq(T) /\ Len(s) = C - 1
      /\ \A n \in 1..(C - 1) : s[n] = IF n < r THEN D[n] ELSE D[n + 1]
  BY <1>2
<1>6. ASSUME NEW q \in Live(fs)  PROVE s[Rank(fs, q)] = fs[q]
  <2>1. q \in Live(es) /\ q # d /\ q \in Int /\ d \in Int /\ fs[q] = es[q]
    BY <1>1 DEF Live
  <2>2. Rank(es, q) \in 1..C /\ D[Rank(es, q)] = es[q]
    BY <2>1, RankType, LiveEntriesAt DEF C, D
  <2>3. Rank(fs, q) \in 1..(C - 1)
    BY <1>3, RankType
  <2>4. CASE q < d
    <3>1. Rank(es, q) < r
      BY <2>1, <2>4, RankGrows DEF r
    <3>2. QED  BY <1>4, <1>5, <2>1, <2>2, <2>3, <2>4, <3>1
  <2>5. CASE q > d
    <3>1. r < Rank(es, q)
      BY <2>1, <2>5, RankGrows DEF r
    <3>2. QED  BY <1>2, <1>4, <1>5, <2>1, <2>2, <2>3, <2>5, <3>1
  <2>6. QED  BY <2>1, <2>4, <2>5
<1> HIDE DEF s
<1>7. s = LiveEntries(fs)
  BY <1>3, <1>5, <1>6, LiveEntriesUnique
<1>8. QED  BY <1>7 DEF s, D, r

-----------------------------------------------------------------------------

Nodes     == {Member(k) : k \in Stored} \cup {Tombstone}
IterType  == [on: {"unmade", "set", "done"}, index: Nat, pos: Nat]
FrameType == [pos: Nat, seen: SUBSET Nat]
Answers   == {Self, Undefined, True, False} \cup {Number(n) : n \in 0..MaxEntries}

\* size counts the live entries: no more than the nodes there are.
Bounded == Len(entries) <= MaxEntries

(***************************************************************************)
(* The strengthening IterForward needs: the index of an iterator is never  *)
(* less than the number of live entries up to its place.  A delete in      *)
(* front of the place, or on it, only lowers that number.                  *)
(***************************************************************************)
Counted ==
  \A i \in Iterators :
    /\ iters[i].pos <= Len(entries)
    /\ Cardinality(LiveUpTo(entries, iters[i].pos)) <= iters[i].index

(***************************************************************************)
(* The strengthening ForEachReachesAll needs: a walk stands inside the     *)
(* list and has handed over every entry up to its place that is live now.  *)
(***************************************************************************)
Sound(f) ==
  /\ f.pos <= Len(entries)
  /\ LiveUpTo(entries, f.pos) \subseteq f.seen

Covered == \A n \in DOMAIN frames : Sound(frames[n])

\* What ForEachReachesAll says of the walk that returns.
Reached == Live(entries) \subseteq frames[Len(frames)].seen

\* What a call does to the list.
Evolves ==
  /\ entries' \in Seq(Nodes)
  /\ Len(entries) <= Len(entries') /\ Len(entries') <= MaxEntries
  /\ \A p \in 1..Len(entries) : p \in Live(entries') => p \in Live(entries)

\* No iterator goes back in this step, and no forEach returns too early.
Forward == \A i \in Iterators : iters'[i].index > iters[i].index
                                  => iters'[i].pos > iters[i].pos
Full    == Len(frames') < Len(frames) => Reached

IInv == TypeOK /\ Bounded /\ Counted /\ Covered

-----------------------------------------------------------------------------
LEMMA Types ==
  ASSUME TypeOK
  PROVE  /\ entries \in Seq(Nodes) /\ Len(entries) \in Nat
         /\ iters \in [Iterators -> IterType]
         /\ frames \in Seq(FrameType)
         /\ last.answer \in Answers
         /\ status \in {"running", "aborted"}
BY DEF TypeOK, Nodes, IterType, FrameType, Answers

(***************************************************************************)
(* What is stored is no tombstone: neither a value added nor +0 has the    *)
(* tag of the magic value.                                                 *)
(***************************************************************************)
LEMMA StoredIsLive ==
  ASSUME NEW k \in Keys
  PROVE  /\ Member(Normal(k)) \in Nodes
         /\ Member(Normal(k)).key = Normal(k)
         /\ Normal(k) # Empty
<1>1. Normal(k) \in Stored
  BY DEF Stored
<1>2. Normal(k).tag # Empty.tag
  BY SetAssumption DEF Normal, PosZero, Empty, Value
<1>3. QED  BY <1>1, <1>2 DEF Nodes, Member, Entry

(***************************************************************************)
(* The scan never stops at a tombstone.                                    *)
(***************************************************************************)
LEMMA ScanStopsAtLive ==
  ASSUME TypeOK, NEW k \in Keys, Holds(entries, SameValueZero, k)
  PROVE  LET p == At(entries, SameValueZero, k)
         IN  p \in 1..Len(entries) /\ p \in Live(entries)
<1> DEFINE p == At(entries, SameValueZero, k)
           S == {i \in DOMAIN entries : SameValueZero(entries[i].key, k) \/ SameAborts(entries[i].key, k)}
<1>1. entries \in Seq(Nodes)
  BY Types
<1>2. S # {} /\ S \in SUBSET Nat
  BY <1>1 DEF Holds, Stops
<1>3. First(S) \in S
  BY <1>2, FirstIsLeast
<1>4. p \in S
  BY <1>3 DEF At, Stops
<1>5. entries[p].key.tag = k.tag
  BY <1>4 DEF SameValueZero, SameAborts
<1>6. QED  BY <1>1, <1>4, <1>5, SetAssumption DEF Live

-----------------------------------------------------------------------------
(***************************************************************************)
(* What each operation does to the entries.                                *)
(***************************************************************************)
LEMMA SameEntries ==
  ASSUME TypeOK, Bounded, UNCHANGED entries
  PROVE  Evolves
BY Types DEF Evolves, Bounded

LEMMA AddStep ==
  ASSUME TypeOK, Bounded, NEW k \in Keys, Add(k)
  PROVE  Evolves
<1>1. entries \in Seq(Nodes) /\ Len(entries) \in Nat /\ MaxEntries \in Nat
  BY Types, SetAssumption
<1>2. CASE UNCHANGED entries
  BY <1>2, SameEntries
<1>3. CASE /\ Len(entries) < MaxEntries
           /\ entries' = Append(entries, Member(Normal(k)))
  <2>1. /\ entries' \in Seq(Nodes) /\ Len(entries') = Len(entries) + 1
        /\ \A i \in 1..Len(entries) : entries'[i] = entries[i]
    BY <1>1, <1>3, StoredIsLive, AppendProperties
  <2>2. QED  BY <1>1, <1>3, <2>1 DEF Evolves, Live
<1>4. QED  BY <1>2, <1>3 DEF Add

LEMMA DeleteStep ==
  ASSUME TypeOK, Bounded, NEW k \in Keys, Delete(k)
  PROVE  Evolves
<1>1. entries \in Seq(Nodes) /\ Tombstone \in Nodes
  BY Types DEF Nodes
<1>2. CASE ~Holds(entries, SameValueZero, k)
  BY <1>2, SameEntries DEF Delete
<1>3. CASE Holds(entries, SameValueZero, k)
  <2> DEFINE p == At(entries, SameValueZero, k)
  <2>1. p \in 1..Len(entries)
    BY <1>3, ScanStopsAtLive
  <2>2. entries' = [entries EXCEPT ![p] = Tombstone]
    BY <1>3 DEF Delete
  <2> HIDE DEF p
  <2>3. /\ entries' \in Seq(Nodes) /\ Len(entries') = Len(entries)
        /\ \A i \in 1..Len(entries) : entries'[i] = IF i = p THEN Tombstone ELSE entries[i]
    BY <1>1, <2>1, <2>2, ExceptSeq
  <2>4. Tombstone.key = Empty
    BY DEF Tombstone, Entry
  <2>5. QED  BY <1>1, <2>3, <2>4 DEF Evolves, Live, Bounded
<1>4. QED  BY <1>2, <1>3

LEMMA ClearStep ==
  ASSUME TypeOK, Bounded, Clear
  PROVE  Evolves /\ Live(entries') = {}
<1>1. entries \in Seq(Nodes) /\ Tombstone \in Nodes /\ Tombstone.key = Empty
  BY Types DEF Nodes, Tombstone, Entry
<1>2. entries' = [p \in DOMAIN entries |-> Tombstone]
  BY DEF Clear
<1>3. entries' \in Seq(Nodes) /\ Len(entries') = Len(entries)
  BY <1>1, <1>2
<1>4. Live(entries') = {}
  BY <1>1, <1>2 DEF Live
<1>5. QED  BY <1>1, <1>3, <1>4 DEF Evolves, Bounded

(***************************************************************************)
(* size answers a number no larger than the bound.                         *)
(***************************************************************************)
LEMMA SizeAnswers ==
  ASSUME TypeOK, Bounded, Size
  PROVE  last'.answer \in Answers
<1>1. entries \in Seq(Nodes) /\ Len(entries) \in Nat /\ MaxEntries \in Nat
  BY Types, SetAssumption
<1>2. /\ IsFiniteSet(1..Len(entries)) /\ Cardinality(1..Len(entries)) = Len(entries)
  BY <1>1, FS_Interval
<1>3. Live(entries) \in SUBSET (1..Len(entries))
  BY <1>1 DEF Live
<1>4. /\ Cardinality(Live(entries)) \in Nat
      /\ Cardinality(Live(entries)) <= Len(entries)
  BY <1>2, <1>3, FS_Subset, FS_CardinalityType
<1>5. Cardinality(Live(entries)) \in 0..MaxEntries
  BY <1>1, <1>4 DEF Bounded
<1>6. last'.answer = Number(Cardinality(Live(entries)))
  BY DEF Size, Answer, Call
<1>7. QED  BY <1>5, <1>6 DEF Answers

-----------------------------------------------------------------------------
(***************************************************************************)
(* Iterators and walks.                                                    *)
(***************************************************************************)
LEMMA CountedStep ==
  ASSUME TypeOK, Counted, Evolves, UNCHANGED iters
  PROVE  Counted' /\ Forward
<1>1. /\ entries \in Seq(Nodes) /\ entries' \in Seq(Nodes)
      /\ iters \in [Iterators -> IterType]
  BY Types DEF Evolves
<1>2. ASSUME NEW i \in Iterators
      PROVE  /\ iters[i].pos <= Len(entries')
             /\ Cardinality(LiveUpTo(entries', iters[i].pos)) <= iters[i].index
  <2> DEFINE pos == iters[i].pos
  <2>1. pos \in Nat /\ pos \in Int /\ iters[i].index \in Nat
    BY <1>1 DEF IterType
  <2>2. pos <= Len(entries) /\ Cardinality(LiveUpTo(entries, pos)) <= iters[i].index
    BY DEF Counted
  <2> HIDE DEF pos
  <2>3. Cardinality(LiveUpTo(entries', pos)) <= Cardinality(LiveUpTo(entries, pos))
    BY <1>1, <2>1, <2>2, LiveUpToShrinks DEF Evolves
  <2>4. /\ Cardinality(LiveUpTo(entries', pos)) \in Nat
        /\ Cardinality(LiveUpTo(entries, pos)) \in Nat
    BY <1>1, <2>1, LiveUpToFinite
  <2>5. QED  BY <1>1, <2>1, <2>2, <2>3, <2>4 DEF Evolves, pos
<1>3. Forward
  BY <1>1 DEF Forward, IterType
<1>4. QED  BY <1>2, <1>3 DEF Counted

\* One iterator comes to a place its index covers, and not back.
LEMMA CountedMove ==
  ASSUME TypeOK, Counted, UNCHANGED entries, NEW i \in Iterators,
         iters' = [iters EXCEPT ![i] = iters'[i]],
         iters'[i] \in IterType,
         iters'[i].pos <= Len(entries),
         Cardinality(LiveUpTo(entries, iters'[i].pos)) <= iters'[i].index,
         iters'[i].index > iters[i].index => iters'[i].pos > iters[i].pos
  PROVE  iters' \in [Iterators -> IterType] /\ Counted' /\ Forward
<1>1. iters \in [Iterators -> IterType]
  BY Types
<1>2. /\ iters' \in [Iterators -> IterType]
      /\ \A j \in Iterators : j # i => iters'[j] = iters[j]
  BY <1>1
<1>3. Counted'
  BY <1>2 DEF Counted
<1>4. Forward
  BY <1>1, <1>2 DEF Forward, IterType
<1>5. QED  BY <1>2, <1>3, <1>4

LEMMA IterStep ==
  ASSUME TypeOK, Counted, NEW i \in Iterators, IterNew(i) \/ IterNext(i)
  PROVE  iters' \in [Iterators -> IterType] /\ Counted' /\ Forward
<1>1. /\ entries \in Seq(Nodes) /\ Len(entries) \in Nat
      /\ iters[i] \in IterType
      /\ iters[i].index \in Nat /\ iters[i].pos \in Nat
  BY Types DEF IterType
<1>2. UNCHANGED entries
  BY DEF IterNew, IterNext
<1>3. /\ iters[i].pos <= Len(entries)
      /\ Cardinality(LiveUpTo(entries, iters[i].pos)) <= iters[i].index
  BY DEF Counted
<1>4. CASE IterNew(i)
  <2>1. iters' = [iters EXCEPT ![i] = NewIter]
    BY <1>4 DEF IterNew
  <2>2. NewIter \in IterType /\ NewIter.pos = 0 /\ NewIter.index = 0
    BY DEF NewIter, IterType
  <2>3. LiveUpTo(entries, 0) = {}
    BY <1>1 DEF LiveUpTo, Live
  <2>4. iters'[i] = NewIter /\ iters' = [iters EXCEPT ![i] = iters'[i]]
    BY <2>1, Types
  <2>5. Cardinality(LiveUpTo(entries, NewIter.pos)) = 0
    BY <2>2, <2>3, FS_EmptySet
  <2>6. QED  BY <1>1, <1>2, <2>2, <2>4, <2>5, CountedMove
<1>5. CASE IterNext(i)
  <2> DEFINE ps == NthLive(entries, iters[i].index)
             p  == First(ps)
             it == Yielded(iters[i], p)
  <2>1. iters' = [iters EXCEPT ![i] =
                    IF ps = {} THEN [iters[i] EXCEPT !.on = "done"] ELSE it]
    BY <1>5 DEF IterNext, Advance
  <2>2. CASE ps = {}
    <3> DEFINE over == [iters[i] EXCEPT !.on = "done"]
    <3>1. over \in IterType /\ over.pos = iters[i].pos /\ over.index = iters[i].index
      BY <1>1 DEF IterType
    <3>2. iters'[i] = over /\ iters' = [iters EXCEPT ![i] = iters'[i]]
      BY <2>1, <2>2, Types
    <3> HIDE DEF over
    <3>3. QED  BY <1>1, <1>2, <1>3, <3>1, <3>2, CountedMove
  <2>3. CASE ps # {}
    <3>1. p \in Live(entries) /\ p > iters[i].pos
          /\ Cardinality(LiveUpTo(entries, p)) = iters[i].index + 1
      BY <1>1, <1>3, <2>3, NthLiveForward
    <3>2. p \in 1..Len(entries)
      BY <1>1, <3>1 DEF Live
    <3>3. iters'[i] = it /\ iters' = [iters EXCEPT ![i] = iters'[i]]
      BY <2>1, <2>3, Types
    <3> HIDE DEF ps, p
    <3>4. it \in IterType /\ it.pos = p /\ it.index = iters[i].index + 1
      BY <1>1, <3>2 DEF IterType, Yielded
    <3> HIDE DEF it
    <3>5. QED  BY <1>1, <1>2, <3>1, <3>2, <3>3, <3>4, CountedMove
  <2>4. QED  BY <2>2, <2>3
<1>6. QED  BY <1>4, <1>5

(***************************************************************************)
(* A walk survives what a call does to the list.                           *)
(***************************************************************************)
LEMMA CoveredStep ==
  ASSUME TypeOK, Covered, Evolves, UNCHANGED frames
  PROVE  Covered' /\ Full
<1>1. /\ entries \in Seq(Nodes) /\ entries' \in Seq(Nodes)
      /\ frames \in Seq(FrameType)
  BY Types DEF Evolves
<1>2. SUFFICES ASSUME NEW n \in DOMAIN frames
               PROVE  /\ frames[n].pos <= Len(entries')
                      /\ LiveUpTo(entries', frames[n].pos) \subseteq frames[n].seen
  <2>1. Full
    BY <1>1 DEF Full
  <2>2. QED  BY <2>1 DEF Covered, Sound
<1>3. frames[n].pos \in Nat
  <2>1. frames[n] \in FrameType
    BY <1>1
  <2>2. QED  BY <2>1 DEF FrameType
<1>4. /\ frames[n].pos <= Len(entries)
      /\ LiveUpTo(entries, frames[n].pos) \subseteq frames[n].seen
  BY DEF Covered, Sound
<1>5. LiveUpTo(entries', frames[n].pos) \in SUBSET LiveUpTo(entries, frames[n].pos)
  BY <1>1, <1>3, <1>4, LiveUpToKept DEF Evolves
<1>6. QED  BY <1>1, <1>3, <1>4, <1>5 DEF Evolves

LEMMA WalkStep ==
  ASSUME TypeOK, NEW f \in FrameType, Sound(f), LiveBeyond(entries, f.pos) # {}
  PROVE  Walk(f) \in FrameType /\ Sound(Walk(f))
<1> DEFINE q == First(LiveBeyond(entries, f.pos))
<1>1. entries \in Seq(Nodes) /\ f.pos \in Nat /\ f.seen \in SUBSET Nat
  BY Types DEF FrameType
<1>2. q \in 1..Len(entries) /\ LiveUpTo(entries, q) \subseteq f.seen \cup {q}
  BY <1>1, WalkCovers DEF Sound
<1>3. Walk(f) = [pos |-> q, seen |-> f.seen \cup {q}]
  BY DEF Walk
<1> HIDE DEF q
<1>4. QED  BY <1>1, <1>2, <1>3 DEF FrameType, Sound

(***************************************************************************)
(* forEach keeps every walk sound, and returns only when the innermost has *)
(* handed over every entry that is there.                                  *)
(***************************************************************************)
LEMMA ForEachStep ==
  ASSUME TypeOK, Covered, ForEachBegin \/ ForEachNext \/ ForEachEnd
  PROVE  /\ frames' \in Seq(FrameType)
         /\ \A n \in DOMAIN frames' : Sound(frames'[n])
         /\ Full
<1>1. frames \in Seq(FrameType) /\ Len(frames) \in Nat
  BY Types
<1>2. \A n \in 1..Len(frames) : Sound(frames[n])
  BY <1>1 DEF Covered
<1>3. CASE ForEachBegin
  <2> DEFINE f == [pos |-> 0, seen |-> {}]
  <2>1. f \in FrameType
    BY DEF FrameType
  <2>2. LiveBeyond(entries, f.pos) = Live(entries) /\ LiveUpTo(entries, f.pos) = {}
    BY Types DEF LiveBeyond, LiveUpTo, Live
  <2>3. CASE Live(entries) = {}
    BY <1>1, <1>2, <1>3, <2>3 DEF ForEachBegin, Full
  <2>4. CASE Live(entries) # {}
    <3> DEFINE w == Walk(f)
    <3>1. frames' = Append(frames, w)
      BY <1>3, <2>4 DEF ForEachBegin
    <3>2. Sound(f)
      BY <2>2, Types DEF Sound
    <3>3. w \in FrameType /\ Sound(w)
      BY <2>1, <2>2, <2>4, <3>2, WalkStep
    <3> HIDE DEF w
    <3>4. QED  BY <1>1, <1>2, <3>1, <3>3, AppendProperties DEF Full
  <2>5. QED  BY <2>3, <2>4
<1>4. CASE ForEachNext
  <2> DEFINE top == frames[Len(frames)]
             w   == Walk(top)
  <2>1. /\ frames # <<>>
        /\ LiveBeyond(entries, top.pos) # {}
        /\ frames' = [frames EXCEPT ![Len(frames)] = w]
    BY <1>4 DEF ForEachNext
  <2>2. Len(frames) \in 1..Len(frames) /\ top \in FrameType
    BY <1>1, <2>1
  <2>3. w \in FrameType /\ Sound(w)
    BY <1>2, <2>1, <2>2, WalkStep
  <2> HIDE DEF w
  <2>4. QED  BY <1>1, <1>2, <2>1, <2>2, <2>3, ExceptSeq DEF Full
<1>5. CASE ForEachEnd
  <2> DEFINE top == frames[Len(frames)]
  <2>1. /\ frames # <<>> /\ frames' = SubSeq(frames, 1, Len(frames) - 1)
        /\ LiveBeyond(entries, top.pos) = {}
    BY <1>5 DEF ForEachEnd
  <2>2. top \in FrameType /\ Sound(top)
    BY <1>1, <1>2, <2>1
  <2>3. entries \in Seq(Nodes) /\ top.pos \in Nat /\ top.seen \in SUBSET Nat
    BY <2>2, Types DEF FrameType
  <2>4. Reached
    BY <2>1, <2>2, <2>3, WalkEnds DEF Sound, Reached
  <2> HIDE DEF top
  <2>5. QED  BY <1>1, <1>2, <2>1, <2>4 DEF Full
<1>6. QED  BY <1>3, <1>4, <1>5

-----------------------------------------------------------------------------
LEMMA InitInv == Init => IInv
<1> SUFFICES ASSUME Init  PROVE IInv
  OBVIOUS
<1>1. TypeOK
  BY DEF Init, TypeOK, Unmade, Call
<1>2. Bounded
  BY SetAssumption DEF Init, Bounded
<1>3. Counted
  <2>1. LiveUpTo(<<>>, 0) = {}
    BY DEF LiveUpTo, Live
  <2>2. \A i \in Iterators : iters[i].pos = 0 /\ iters[i].index = 0
    BY DEF Init, Unmade
  <2>3. entries = <<>> /\ Len(entries) = 0
    BY DEF Init
  <2>4. QED  BY <2>1, <2>2, <2>3, FS_EmptySet DEF Counted
<1>4. Covered
  BY DEF Init, Covered
<1>5. QED  BY <1>1, <1>2, <1>3, <1>4 DEF IInv

(***************************************************************************)
(* The invariant survives every action, no action sends an iterator back,  *)
(* and no forEach returns before it has reached every entry.               *)
(***************************************************************************)
LEMMA NextInv ==
  ASSUME IInv, [Next]_vars
  PROVE  IInv' /\ Forward /\ Full
<1> USE DEF IInv
<1>1. /\ entries \in Seq(Nodes) /\ iters \in [Iterators -> IterType]
      /\ frames \in Seq(FrameType) /\ last.answer \in Answers
      /\ status \in {"running", "aborted"}
  BY Types
\* What is left to show for an operation that moves no iterator and no walk.
<1>2. ASSUME Evolves, UNCHANGED <<iters, frames>>,
             last'.answer \in Answers, status' \in {"running", "aborted"}
      PROVE  IInv' /\ Forward /\ Full
  <2>1. Counted' /\ Forward /\ Covered' /\ Full
    BY <1>2, CountedStep, CoveredStep
  <2>2. TypeOK'
    BY <1>1, <1>2 DEF TypeOK, Evolves, Nodes, IterType, FrameType, Answers
  <2>3. Bounded'
    BY <1>2 DEF Evolves, Bounded
  <2>4. QED  BY <2>1, <2>2, <2>3
<1>3. Evolves \/ ~UNCHANGED entries
  BY SameEntries
<1>4. ASSUME Construct  PROVE IInv' /\ Forward /\ Full
  <2>1. UNCHANGED <<entries, iters, frames, status>> /\ last'.answer = Self
    BY <1>4 DEF Construct, Answer, Call
  <2>2. QED  BY <1>1, <1>2, <1>3, <2>1 DEF Answers
<1>5. ASSUME ConstructAgain  PROVE IInv' /\ Forward /\ Full
  <2>1. UNCHANGED <<entries, iters, frames, last>> /\ status' = "aborted"
    BY <1>5 DEF ConstructAgain
  <2>2. QED  BY <1>1, <1>2, <1>3, <2>1
<1>6. ASSUME NEW k \in Keys, Add(k)  PROVE IInv' /\ Forward /\ Full
  <2>1. UNCHANGED <<iters, frames, status>> /\ last'.answer = Self
    BY <1>6 DEF Add, Answer, Call
  <2>2. QED  BY <1>1, <1>2, <1>6, <2>1, AddStep DEF Answers
<1>7. ASSUME NEW k \in Keys, Has(k)  PROVE IInv' /\ Forward /\ Full
  <2>1. UNCHANGED <<entries, iters, frames, status>> /\ last'.answer \in {True, False}
    BY <1>7 DEF Has, Answer, Call, Truth
  <2>2. QED  BY <1>1, <1>2, <1>3, <2>1 DEF Answers
<1>8. ASSUME NEW k \in Keys, Delete(k)  PROVE IInv' /\ Forward /\ Full
  <2>1. UNCHANGED <<iters, frames, status>> /\ last'.answer \in {True, False}
    BY <1>8 DEF Delete, Answer, Call
  <2>2. QED  BY <1>1, <1>2, <1>8, <2>1, DeleteStep DEF Answers
<1>9. ASSUME NEW k \in Keys, Crash(k)  PROVE IInv' /\ Forward /\ Full
  <2>1. UNCHANGED <<entries, iters, frames, last>> /\ status' = "aborted"
    BY <1>9 DEF Crash
  <2>2. QED  BY <1>1, <1>2, <1>3, <2>1
<1>10. ASSUME Clear  PROVE IInv' /\ Forward /\ Full
  <2>1. UNCHANGED <<iters, frames, status>> /\ last'.answer = Undefined
    BY <1>10 DEF Clear, Answer, Call
  <2>2. QED  BY <1>1, <1>2, <1>10, <2>1, ClearStep DEF Answers
<1>11. ASSUME Size  PROVE IInv' /\ Forward /\ Full
  <2>1. UNCHANGED <<entries, iters, frames, status>>
    BY <1>11 DEF Size
  <2>2. QED  BY <1>1, <1>2, <1>3, <1>11, <2>1, SizeAnswers
<1>12. ASSUME NEW i \in Iterators, IterNew(i) \/ IterNext(i)  PROVE IInv' /\ Forward /\ Full
  <2>1. UNCHANGED <<entries, frames, last, status>>
    BY <1>12 DEF IterNew, IterNext
  <2>2. iters' \in [Iterators -> IterType] /\ Counted' /\ Forward
    BY <1>12, IterStep
  <2>3. TypeOK' /\ Bounded'
    BY <1>1, <2>1, <2>2 DEF TypeOK, Bounded, IterType
  <2>4. Covered' /\ Full
    BY <1>1, <1>3, <2>1, CoveredStep
  <2>5. QED  BY <2>2, <2>3, <2>4
<1>13. ASSUME ForEachBegin \/ ForEachNext \/ ForEachEnd  PROVE IInv' /\ Forward /\ Full
  <2>1. UNCHANGED <<entries, iters, status>>
    BY <1>13 DEF ForEachBegin, ForEachNext, ForEachEnd
  <2>2. last' = last \/ last'.answer = Undefined
    BY <1>13 DEF ForEachBegin, ForEachNext, ForEachEnd, Answer, Call
  <2>3. /\ frames' \in Seq(FrameType)
        /\ \A n \in DOMAIN frames' : Sound(frames'[n])
        /\ Full
    BY <1>13, ForEachStep
  <2>4. Counted' /\ Forward
    BY <1>3, <2>1, CountedStep
  <2>5. TypeOK' /\ Bounded'
    BY <1>1, <2>1, <2>2, <2>3 DEF TypeOK, Bounded, Nodes, IterType, FrameType, Answers
  <2>6. Covered'
    BY <2>1, <2>3 DEF Covered, Sound
  <2>7. QED  BY <2>3, <2>4, <2>5, <2>6
<1>14. ASSUME UNCHANGED vars  PROVE IInv' /\ Forward /\ Full
  BY <1>1, <1>2, <1>3, <1>14 DEF vars
<1> HIDE DEF IInv
<1>15. CASE Next
  BY <1>4, <1>5, <1>6, <1>7, <1>8, <1>9, <1>10, <1>11, <1>12, <1>13, <1>15, Zenon DEF Next
<1>16. QED  BY <1>14, <1>15

THEOREM Invariance == Spec => []IInv
<1>1. IInv /\ [Next]_vars => IInv'
  BY NextInv
<1>2. QED  BY <1>1, InitInv, PTL DEF Spec

-----------------------------------------------------------------------------
(***************************************************************************)
(* No member is there twice.  It is inductive with the type invariant, as  *)
(* long as -0 is not among the values: the scan of add looks for the value *)
(* as given and the entry holds it normalised.                             *)
(***************************************************************************)
NoNegZero == \A k \in Keys : ~IsNegZero(k)

LEMMA UniqueStep ==
  ASSUME NoNegZero, IInv, UniqueMembers, [Next]_vars
  PROVE  UniqueMembers'
<1>1. entries \in Seq(Nodes) /\ TypeOK /\ Bounded
  BY Types DEF IInv
<1>2. ASSUME UNCHANGED entries  PROVE UniqueMembers'
  BY <1>2 DEF UniqueMembers
<1>3. ASSUME NEW k \in Keys, Add(k)  PROVE UniqueMembers'
  <2>1. Normal(k) = k /\ Member(k) \in Nodes /\ Member(k).key = k
    BY StoredIsLive DEF Normal, NoNegZero
  <2>2. CASE UNCHANGED entries
    BY <1>2, <2>2
  <2>3. CASE /\ ~Holds(entries, SameValueZero, k)
             /\ entries' = Append(entries, Member(Normal(k)))
    <3>1. /\ Len(entries') = Len(entries) + 1 /\ Len(entries) \in Nat
          /\ DOMAIN entries' = 1..(Len(entries) + 1)
          /\ \A i \in 1..Len(entries) : entries'[i] = entries[i]
          /\ entries'[Len(entries) + 1].key = k
      BY <1>1, <2>1, <2>3, AppendProperties
    <3>2. \A i \in 1..Len(entries) : ~SameValueZero(entries[i].key, k)
      BY <1>1, <1>3, <2>3 DEF Add, ScanAborts, Holds, Stops
    <3>3. ASSUME NEW p \in Live(entries'), NEW q \in Live(entries'), p < q
          PROVE  ~SameValueZero(entries'[p].key, entries'[q].key)
      <4>1. p \in 1..Len(entries) /\ q \in 1..(Len(entries) + 1)
        BY <3>1, <3>3 DEF Live
      <4>2. CASE q = Len(entries) + 1
        BY <3>1, <3>2, <4>1, <4>2
      <4>3. CASE q \in 1..Len(entries)
        <5>1. p \in Live(entries) /\ q \in Live(entries)
          BY <1>1, <3>1, <4>1, <4>3 DEF Live
        <5>2. QED  BY <3>1, <3>3, <4>1, <4>3, <5>1 DEF UniqueMembers
      <4>4. QED  BY <3>1, <4>1, <4>2, <4>3
    <3>4. QED  BY <3>3 DEF UniqueMembers
  <2>4. QED  BY <1>3, <2>2, <2>3 DEF Add
<1>4. ASSUME NEW k \in Keys, Delete(k)  PROVE UniqueMembers'
  <2>1. CASE UNCHANGED entries
    BY <1>2, <2>1
  <2>2. CASE Holds(entries, SameValueZero, k)
    <3> DEFINE d == At(entries, SameValueZero, k)
    <3>1. entries' = [entries EXCEPT ![d] = Tombstone] /\ Tombstone.key = Empty
      BY <1>4, <2>2 DEF Delete, Tombstone, Entry
    <3> HIDE DEF d
    <3>2. \A p \in Live(entries') : p \in Live(entries) /\ entries'[p] = entries[p]
      BY <1>1, <3>1 DEF Live
    <3>3. QED  BY <3>2 DEF UniqueMembers
  <2>3. QED  BY <1>4, <2>1, <2>2 DEF Delete
<1>5. ASSUME Clear  PROVE UniqueMembers'
  BY <1>1, <1>5, ClearStep DEF UniqueMembers
<1>6. CASE UNCHANGED vars
  BY <1>2, <1>6 DEF vars
<1>7. CASE Next
  <2>1. UNCHANGED entries \/ Clear \/ \E k \in Keys : Add(k) \/ Delete(k)
    BY <1>7 DEF Next, Construct, ConstructAgain, Has, Crash, Size, IterNew, IterNext,
                ForEachBegin, ForEachNext, ForEachEnd
  <2>2. QED  BY <1>2, <1>3, <1>4, <1>5, <2>1
<1>8. QED  BY <1>6, <1>7

(***************************************************************************)
(* Every call leaves the set well formed, and no call returns the magic    *)
(* value that marks a deleted entry.                                       *)
(***************************************************************************)
THEOREM TypeCorrect == Spec => []TypeOK
<1>1. IInv => TypeOK
  BY DEF IInv
<1>2. QED  BY <1>1, Invariance, PTL

(***************************************************************************)
(* If -0 is never added, no value is ever in the set twice, however add,   *)
(* delete and clear are interleaved.                                       *)
(***************************************************************************)
THEOREM MembersAreUnique ==
  ASSUME NoNegZero
  PROVE  Spec => []SetInv
<1>1. Init => UniqueMembers
  BY DEF Init, UniqueMembers, Live
<1>2. IInv /\ UniqueMembers /\ [Next]_vars => UniqueMembers'
  BY NoNegZero, UniqueStep
<1>3. IInv /\ UniqueMembers => SetInv
  BY DEF IInv, SetInv
<1>4. QED  BY <1>1, <1>2, <1>3, Invariance, PTL DEF Spec

(***************************************************************************)
(* No iterator ever goes back, although it finds its place by counting     *)
(* live entries and every delete changes the count.                        *)
(***************************************************************************)
THEOREM IteratorsGoForward == Spec => IterForward
<1>1. IInv /\ [Next]_vars =>
        [\A i \in Iterators : iters'[i].index > iters[i].index
                                => iters'[i].pos > iters[i].pos]_vars
  BY NextInv DEF Forward
<1>2. QED  BY <1>1, Invariance, PTL DEF Spec, IterForward

(***************************************************************************)
(* When forEach returns, it has given the callback every entry that is     *)
(* still in the set, whatever the callbacks deleted, cleared or added.     *)
(***************************************************************************)
THEOREM ForEachIsComplete == Spec => ForEachReachesAll
<1>1. IInv /\ [Next]_vars =>
        [Len(frames') < Len(frames)
           => Live(entries) \subseteq frames[Len(frames)].seen]_vars
  BY NextInv DEF Full, Reached
<1>2. QED  BY <1>1, Invariance, PTL DEF Spec, ForEachReachesAll

-----------------------------------------------------------------------------
(***************************************************************************)
(* The refinement: the entries that are not blanked are the dictionary a   *)
(* Set promises.  It holds for the values on which SameValueZero is        *)
(* ECMAScript's: any number that has the high word of +0, or compares      *)
(* equal to it, is +0 itself, and no number comes in two representations.  *)
(***************************************************************************)
OneForm ==
  /\ \A k \in Keys :
       /\ k = Value(k.tag, k.val)
       /\ IsNumber(k) /\ (IsZero(k) \/ k.tag = PosZero.tag) => k = PosZero
  /\ \A x, y \in Keys : IsNumber(x) /\ IsNumber(y) /\ x.val = y.val => x = y

LEMMA Comparisons ==
  ASSUME OneForm, NEW x \in Keys, NEW y \in Keys
  PROVE  /\ SameValueZero(x, y) <=> x = y
         /\ Abstract!SameValueZeroES6(x, y) <=> x = y
<1>1. /\ x = Value(x.tag, x.val) /\ y = Value(y.tag, y.val)
      /\ IsNumber(x) /\ (IsZero(x) \/ x.tag = PosZero.tag) => x = PosZero
      /\ IsNumber(y) /\ (IsZero(y) \/ y.tag = PosZero.tag) => y = PosZero
      /\ IsNumber(x) /\ IsNumber(y) /\ x.val = y.val => x = y
  BY DEF OneForm
<1>2. x.tag = y.tag /\ x.val = y.val => x = y
  BY <1>1 DEF Value
<1>3. x.tag = y.tag => (IsNumber(x) <=> IsNumber(y))
  BY DEF IsNumber
<1>4. SameValueZero(x, y) <=> x = y
  <2>1. CASE ~IsNumber(x)
    BY <1>2, <2>1 DEF SameValueZero
  <2>2. CASE IsNumber(x) /\ x.tag = y.tag /\ (IsZero(x) \/ IsZero(y))
    <3>1. x = PosZero /\ y = PosZero
      BY <1>1, <1>3, <2>2
    <3>2. ~IsNegZero(x) /\ IsZero(y)
      BY <3>1 DEF IsNegZero, NegZero, PosZero, IsZero, Value
    <3>3. QED  BY <2>2, <3>1, <3>2 DEF SameValueZero
  <2>3. CASE IsNumber(x) /\ x.tag = y.tag /\ ~(IsZero(x) \/ IsZero(y))
    BY <1>1, <1>2, <1>3, <2>3 DEF SameValueZero, NumEq, IsNaN
  <2>4. CASE x.tag # y.tag
    BY <2>4 DEF SameValueZero
  <2>5. QED  BY <2>1, <2>2, <2>3, <2>4
<1>5. Abstract!IsNumber(x) = IsNumber(x) /\ Abstract!IsNumber(y) = IsNumber(y)
  BY DEF IsNumber, NumberTags, Abstract!IsNumber, Abstract!NumberTags
<1>6. Abstract!SameValueZeroES6(x, y) <=> x = y
  BY <1>1, <1>5 DEF Abstract!SameValueZeroES6, Abstract!SameNumber
<1>7. QED  BY <1>4, <1>6

\* Nothing is normalised: what is stored is what was added.
LEMMA NothingNormalised ==
  ASSUME OneForm
  PROVE  NoNegZero /\ (\A k \in Keys : Normal(k) = k) /\ Stored = Keys
<1>1. ASSUME NEW k \in Keys  PROVE ~IsNegZero(k)
  <2> SUFFICES ASSUME k = NegZero  PROVE FALSE
    BY DEF IsNegZero
  <2>1. IsNumber(k) /\ IsZero(k)
    BY DEF NegZero, Value, IsNumber, NumberTags, IsZero
  <2>2. k = PosZero
    BY <2>1 DEF OneForm
  <2>3. QED  BY <2>2 DEF NegZero, PosZero, Value
<1>2. QED  BY <1>1 DEF NoNegZero, Normal, Stored

\* A dictionary entry is a live entry of the list, at its rank.
LEMMA DictEntries ==
  ASSUME OneForm, TypeOK
  PROVE  /\ entries \in Seq(Nodes)
         /\ LiveEntries(entries) \in Seq(Nodes)
         /\ Len(LiveEntries(entries)) = Cardinality(Live(entries))
         /\ \A p \in Live(entries) :
              /\ entries[p].key \in Keys /\ entries[p] = Member(entries[p].key)
              /\ Rank(entries, p) \in DOMAIN LiveEntries(entries)
              /\ LiveEntries(entries)[Rank(entries, p)] = entries[p]
         /\ \A n \in DOMAIN LiveEntries(entries) : \E p \in Live(entries) :
              n = Rank(entries, p) /\ LiveEntries(entries)[n] = entries[p]
<1>1. entries \in Seq(Nodes)
  BY Types
<1>2. ASSUME NEW p \in Live(entries)
      PROVE  entries[p].key \in Keys /\ entries[p] = Member(entries[p].key)
  <2>1. entries[p] \in Nodes /\ entries[p] # Tombstone
    BY <1>1 DEF Live, Tombstone, Entry
  <2>2. PICK k \in Stored : entries[p] = Member(k)
    BY <2>1 DEF Nodes
  <2>3. QED  BY <2>2, NothingNormalised DEF Member, Entry
<1>3. /\ LiveEntries(entries) \in Seq(Nodes)
      /\ Len(LiveEntries(entries)) = Cardinality(Live(entries))
      /\ \A n \in 1..Cardinality(Live(entries)) : \E p \in Live(entries) :
           n = Rank(entries, p) /\ LiveEntries(entries)[n] = entries[p]
  BY <1>1, LiveEntriesType
<1>4. \A p \in Live(entries) :
        /\ Rank(entries, p) \in 1..Cardinality(Live(entries))
        /\ LiveEntries(entries)[Rank(entries, p)] = entries[p]
  BY <1>1, RankType, LiveEntriesAt
<1>5. QED  BY <1>1, <1>2, <1>3, <1>4

(***************************************************************************)
(* The scan over the list, tombstones and all, finds a value exactly where *)
(* the dictionary has it.                                                  *)
(***************************************************************************)
LEMMA ScanIsLookup ==
  ASSUME OneForm, TypeOK, UniqueMembers, NEW k \in Keys,
         ~ScanAborts(entries, SameValueZero, k)
  PROVE  /\ ~Holds(entries, SameValueZero, k) => Abstract!Places(k) = {}
         /\ Holds(entries, SameValueZero, k) =>
              LET p == At(entries, SameValueZero, k)
              IN  entries[p] = Member(k) /\ Abstract!Places(k) = {Rank(entries, p)}
<1> DEFINE D == LiveEntries(entries)
           p == At(entries, SameValueZero, k)
<1>1. \A n \in DOMAIN D : \E q \in Live(entries) :
        n = Rank(entries, q) /\ D[n] = entries[q] /\ entries[q].key \in Keys
  BY DictEntries
<1>2. Abstract!Places(k) = {n \in DOMAIN D : D[n].key = k}
  BY <1>1, Comparisons DEF Abstract!Places
<1>3. CASE ~Holds(entries, SameValueZero, k)
  <2>1. \A i \in Live(entries) : ~SameValueZero(entries[i].key, k)
    BY <1>3 DEF Holds, Stops, Live
  <2>2. \A i \in Live(entries) : entries[i].key # k
    BY <2>1, DictEntries, Comparisons
  <2>3. QED  BY <1>1, <1>2, <1>3, <2>2
<1>4. CASE Holds(entries, SameValueZero, k)
  <2>1. p \in Live(entries) /\ p \in Nat /\ entries[p].key \in Keys
    BY <1>4, ScanStopsAtLive, DictEntries
  <2>2. SameValueZero(entries[p].key, k)
    <3> DEFINE S == {i \in DOMAIN entries :
                       SameValueZero(entries[i].key, k) \/ SameAborts(entries[i].key, k)}
    <3>1. S # {} /\ S \in SUBSET Nat
      BY <1>4, DictEntries DEF Holds, Stops
    <3>2. First(S) \in S
      BY <3>1, FirstIsLeast
    <3>3. p = First(S) /\ ~SameAborts(entries[First(S)].key, k)
      BY <1>4 DEF At, Holds, ScanAborts, Stops
    <3>4. QED  BY <3>2, <3>3
  <2>3. entries[p].key = k
    BY <2>1, <2>2, Comparisons
  <2>4. ASSUME NEW q \in Live(entries), entries[q].key = k  PROVE q = p
    <3>1. /\ SameValueZero(entries[q].key, entries[p].key)
          /\ SameValueZero(entries[p].key, entries[q].key)
      BY <2>3, <2>4, Comparisons
    <3>2. ~(q < p) /\ ~(p < q)
      BY <2>1, <3>1 DEF UniqueMembers
    <3>3. q \in Nat
      BY DictEntries DEF Live
    <3>4. QED  BY <2>1, <3>2, <3>3
  <2>5. /\ Rank(entries, p) \in DOMAIN D /\ D[Rank(entries, p)] = entries[p]
        /\ entries[p] = Member(k)
    BY <2>1, <2>3, DictEntries
  <2>6. QED  BY <1>1, <1>2, <1>4, <2>3, <2>4, <2>5
<1>5. QED  BY <1>3, <1>4

-----------------------------------------------------------------------------
(***************************************************************************)
(* Each operation is the dictionary's.                                     *)
(***************************************************************************)
LEMMA AddIsPut ==
  ASSUME OneForm, TypeOK, UniqueMembers, NEW k \in Keys, Add(k)
  PROVE  Abstract!Put(k, k)
<1> DEFINE D == LiveEntries(entries)
           p == At(entries, SameValueZero, k)
           r == Rank(entries, p)
<1>1. /\ ~ScanAborts(entries, SameValueZero, k)
      /\ Abstract!Answer("put", k, Abstract!Self)
  BY DEF Add, Answer, Call, Self, Value, Abstract!Answer, Abstract!Call,
         Abstract!Self, Abstract!Value
<1>2. entries \in Seq(Nodes) /\ D \in Seq(Nodes)
  BY DictEntries
<1>3. CASE Holds(entries, SameValueZero, k)
  <2>1. UNCHANGED entries
    BY <1>3 DEF Add
  <2>2. Abstract!Places(k) = {r} /\ entries[p] = Member(k)
    BY <1>1, <1>3, ScanIsLookup
  <2>3. r \in DOMAIN D /\ D[r] = Member(k)
    BY <1>3, <2>2, ScanStopsAtLive, DictEntries
  <2>4. [D[r] EXCEPT !.value = k] = D[r]
    BY <2>3 DEF Member, Entry
  <2>5. D = [i \in DOMAIN D |-> IF i \in {r} THEN [D[i] EXCEPT !.value = k] ELSE D[i]]
    BY <1>2, <2>4
  <2>6. QED  BY <1>1, <2>1, <2>2, <2>5 DEF Abstract!Put
<1>4. CASE ~Holds(entries, SameValueZero, k)
  <2> DEFINE e == Member(Normal(k))
  <2>1. entries' = Append(entries, e)
    BY <1>4 DEF Add
  <2>2. e \in Nodes /\ e.key # Empty /\ e = [key |-> k, value |-> k]
    BY StoredIsLive, NothingNormalised DEF Member, Entry
  <2> HIDE DEF e
  <2>3. LiveEntries(Append(entries, e)) = Append(D, e)
    BY <1>2, <2>2, LiveEntriesAppend
  <2>4. Abstract!Places(k) = {}
    BY <1>1, <1>4, ScanIsLookup
  <2>5. QED  BY <1>1, <2>1, <2>2, <2>3, <2>4 DEF Abstract!Put
<1>5. QED  BY <1>3, <1>4

LEMMA DeleteIsRemove ==
  ASSUME OneForm, TypeOK, UniqueMembers, NEW k \in Keys, Delete(k)
  PROVE  Abstract!Remove(k)
<1> DEFINE D == LiveEntries(entries)
           p == At(entries, SameValueZero, k)
           r == Rank(entries, p)
<1>1. ~ScanAborts(entries, SameValueZero, k)
  BY DEF Delete
<1>2. entries \in Seq(Nodes) /\ D \in Seq(Nodes)
  BY DictEntries
<1>3. Holds(entries, SameValueZero, k) <=> Abstract!Places(k) # {}
  BY <1>1, ScanIsLookup
<1>4. Abstract!Answer("delete", k, Abstract!Truth(Abstract!Places(k) # {}))
  BY <1>3 DEF Delete, Answer, Call, True, False, Value, Abstract!Answer,
              Abstract!Call, Abstract!Truth, Abstract!True, Abstract!False, Abstract!Value
<1>5. CASE ~Holds(entries, SameValueZero, k)
  BY <1>3, <1>4, <1>5 DEF Delete, Abstract!Remove
<1>6. CASE Holds(entries, SameValueZero, k)
  <2> DEFINE es == [entries EXCEPT ![p] = Tombstone]
  <2>1. entries' = es
    BY <1>6 DEF Delete
  <2>2. p \in Live(entries) /\ p \in 1..Len(entries)
    BY <1>6, ScanStopsAtLive
  <2>3. Tombstone \in Nodes /\ Tombstone.key = Empty
    BY DEF Nodes, Tombstone, Entry
  <2>4. /\ es \in Seq(Nodes) /\ Len(es) = Len(entries) /\ es[p] = Tombstone
        /\ \A i \in 1..Len(entries) : i # p => es[i] = entries[i]
    BY <1>2, <2>2, <2>3, ExceptSeq
  <2> HIDE DEF es, p
  <2>5. LiveEntries(es) = [n \in 1..(Len(D) - 1) |-> IF n < r THEN D[n] ELSE D[n + 1]]
    BY <1>2, <2>2, <2>3, <2>4, LiveEntriesDrop
  <2>6. Abstract!Places(k) = {r}
    BY <1>1, <1>6, ScanIsLookup DEF p
  <2>7. (CHOOSE i \in Abstract!Places(k) : TRUE) = r
    BY <2>6
  <2>8. LiveEntries(es) = Abstract!Without(CHOOSE i \in Abstract!Places(k) : TRUE)
    BY <2>5, <2>7 DEF Abstract!Without
  <2>9. QED  BY <1>3, <1>4, <1>6, <2>1, <2>8 DEF Abstract!Remove
<1>7. QED  BY <1>5, <1>6

LEMMA HasAgrees ==
  ASSUME OneForm, TypeOK, UniqueMembers, NEW k \in Keys, Has(k)
  PROVE  Abstract!Has(k)
<1>1. ~ScanAborts(entries, SameValueZero, k) /\ UNCHANGED entries
  BY DEF Has
<1>2. Holds(entries, SameValueZero, k) <=> Abstract!Places(k) # {}
  BY <1>1, ScanIsLookup
<1>3. Abstract!Answer("has", k, Abstract!Truth(Abstract!Places(k) # {}))
  BY <1>2 DEF Has, Answer, Call, Truth, True, False, Value, Abstract!Answer,
              Abstract!Call, Abstract!Truth, Abstract!True, Abstract!False, Abstract!Value
<1>4. QED  BY <1>1, <1>3 DEF Abstract!Has

\* The calls that ask for no value: the constructor, clear, size, forEach.
LEMMA OtherCalls ==
  ASSUME OneForm, TypeOK
  PROVE  /\ Construct => Abstract!Construct
         /\ Clear => Abstract!Clear
         /\ Size => Abstract!Size
<1>1. entries \in Seq(Nodes) /\ Len(LiveEntries(entries)) = Cardinality(Live(entries))
  BY DictEntries
<1>2. ASSUME Construct  PROVE Abstract!Construct
  <2>1. entries' = entries /\ entries = <<>> /\ Live(<<>>) = {} /\ <<>> \in Seq(Nodes)
    BY <1>2 DEF Construct, Live
  <2>2. LiveEntries(entries') = <<>>
    BY <2>1, LiveEntriesNone
  <2>3. last' = Call("construct", Undefined, Self)
    BY <1>2 DEF Construct, Answer
  <2>4. QED  BY <2>2, <2>3 DEF Abstract!Construct, Abstract!Answer, Abstract!Call, Call, Self,
                 Abstract!Self, Abstract!Undefined, Undefined, Abstract!Value, Value
<1>3. ASSUME Clear  PROVE Abstract!Clear
  <2> DEFINE es == [q \in DOMAIN entries |-> Tombstone]
  <2>1. es \in Seq(Nodes) /\ Live(es) = {}
    BY <1>1 DEF Nodes, Live, Tombstone, Entry
  <2>2. entries' = es
    BY <1>3 DEF Clear
  <2> HIDE DEF es
  <2>3. LiveEntries(entries') = <<>>
    BY <2>1, <2>2, LiveEntriesNone
  <2>4. last' = Call("clear", Undefined, Undefined)
    BY <1>3 DEF Clear, Answer
  <2>5. QED  BY <2>3, <2>4 DEF Abstract!Clear, Abstract!Answer, Abstract!Call, Call,
                            Abstract!Undefined, Undefined, Abstract!Value, Value
<1>4. ASSUME Size  PROVE Abstract!Size
  <2>1. UNCHANGED entries /\ last' = Call("size", Undefined, Number(Len(LiveEntries(entries))))
    BY <1>1, <1>4 DEF Size, Answer
  <2>2. QED  BY <2>1 DEF Abstract!Size, Abstract!Answer, Abstract!Call, Call, Number,
                 Abstract!Number,
                 Abstract!Undefined, Undefined, Abstract!Value, Value
<1>5. QED  BY <1>2, <1>3, <1>4

LEMMA NextRefines ==
  ASSUME OneForm, IInv, UniqueMembers, [Next]_vars
  PROVE  [Abstract!Calls \/ \E k \in Keys : Abstract!Remove(k)]_(Abstract!vars)
<1> DEFINE Goal == \/ Abstract!Calls
                   \/ \E k \in Keys : Abstract!Remove(k)
                   \/ UNCHANGED Abstract!vars
<1>1. TypeOK
  BY DEF IInv
<1>2. ASSUME NEW k \in Keys, Add(k)  PROVE Goal
  BY <1>1, <1>2, AddIsPut DEF Abstract!Calls
<1>3. ASSUME NEW k \in Keys, Has(k) \/ Delete(k)  PROVE Goal
  BY <1>1, <1>3, HasAgrees, DeleteIsRemove DEF Abstract!Calls
<1>4. ASSUME Construct \/ Clear \/ Size  PROVE Goal
  BY <1>1, <1>4, OtherCalls DEF Abstract!Calls
<1>5. ASSUME \/ ConstructAgain \/ \E k \in Keys : Crash(k)
             \/ \E i \in Iterators : IterNew(i) \/ IterNext(i)
             \/ ForEachBegin \/ ForEachNext \/ ForEachEnd
             \/ UNCHANGED vars
      PROVE  Goal
  <2>1. UNCHANGED entries
    BY <1>5 DEF ConstructAgain, Crash, IterNew, IterNext, ForEachBegin, ForEachNext,
                ForEachEnd, vars
  <2>2. UNCHANGED last \/ last' = Call("forEach", Undefined, Undefined)
    BY <1>5 DEF ConstructAgain, Crash, IterNew, IterNext, ForEachBegin, ForEachNext,
                ForEachEnd, vars, Answer
  <2>3. UNCHANGED Abstract!vars \/ Abstract!ForEach
    BY <2>1, <2>2 DEF Abstract!vars, Abstract!ForEach, Abstract!Answer, Abstract!Call, Call,
                      Abstract!Undefined, Undefined, Abstract!Value, Value
  <2>4. QED  BY <2>3 DEF Abstract!Calls
<1> HIDE DEF Goal
<1>6. Goal
  BY <1>2, <1>3, <1>4, <1>5, Zenon DEF Next
<1>7. QED  BY <1>6 DEF Goal

(***************************************************************************)
(* The Set implements the ordered dictionary, delete and size included: no *)
(* call ever answers anything the dictionary would not, however many       *)
(* blanked nodes the list has gathered.                                    *)
(***************************************************************************)
THEOREM SetIsOrderedMap ==
  ASSUME OneForm
  PROVE  Spec => ImplementsES6Set
<1>1. Init => Abstract!Init
  <2> SUFFICES ASSUME Init  PROVE Abstract!Init
    OBVIOUS
  <2>1. entries = <<>> /\ <<>> \in Seq(Nodes) /\ Live(<<>>) = {}
    BY DEF Init, Live
  <2>2. LiveEntries(entries) = <<>>
    BY <2>1, LiveEntriesNone
  <2>3. QED  BY <2>2 DEF Init, Abstract!Init, Abstract!Call, Call, Abstract!Undefined,
                      Undefined, Abstract!Value, Value
<1>2. NoNegZero
  BY OneForm, NothingNormalised
<1>3. Spec => []SetInv
  BY <1>2, MembersAreUnique
<1>4. SetInv => UniqueMembers
  BY DEF SetInv
<1>5. IInv /\ UniqueMembers /\ [Next]_vars =>
        [Abstract!Calls \/ \E k \in Keys : Abstract!Remove(k)]_(Abstract!vars)
  BY OneForm, NextRefines
<1>6. QED  BY <1>1, <1>3, <1>4, <1>5, Invariance, PTL
           DEF Spec, ImplementsES6Set, Abstract!Spec
=============================================================================
