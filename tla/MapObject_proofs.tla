--------------------------- MODULE MapObject_proofs ---------------------------
(***************************************************************************)
(* Theorems about MapObject: for every set of keys and values, any number  *)
(* of iterators and any bounds.                                            *)
(***************************************************************************)
EXTENDS MapObject, SequenceTheorems, FiniteSetTheorems, WellFoundedInduction, TLAPS

(***************************************************************************)
(* Lemmas about the entry list: the scan, and the iterator's way of        *)
(* finding its place by counting the live entries before it.  The entry   *)
(* list of a Set is the same, and its theorems rest on the same lemmas.    *)
(***************************************************************************)

(***************************************************************************)
(* First picks an element: a set of positions that is not empty has a      *)
(* least one, so every scan that stops stops at a definite entry.          *)
(***************************************************************************)
LEMMA FirstIsLeast ==
  ASSUME NEW S \in SUBSET Nat, S # {}
  PROVE  First(S) \in S /\ \A j \in S : First(S) <= j
<1>1. PICK x \in S : \A y \in S : ~(<<y, x>> \in OpToRel(<, Nat))
  BY NatLessThanWellFounded, WFMin
<1>2. \A y \in S : x <= y
  <2>1. ASSUME NEW y \in S, y < x  PROVE <<y, x>> \in OpToRel(<, Nat)
    BY <2>1, <<y, x>> \in Nat \X Nat, <<y, x>>[1] < <<y, x>>[2] DEF OpToRel
  <2>2. ASSUME NEW y \in S  PROVE ~(y < x)
    BY <1>1, <2>1, Zenon
  <2>3. QED  BY <2>2
<1>3. QED  BY <1>2 DEF First

(***************************************************************************)
(* The live entries up to a position are finitely many.                    *)
(***************************************************************************)
LEMMA LiveUpToFinite ==
  ASSUME NEW T, NEW es \in Seq(T), NEW p \in Int
  PROVE  /\ IsFiniteSet(LiveUpTo(es, p))
         /\ Cardinality(LiveUpTo(es, p)) \in Nat
<1>1. IsFiniteSet(1..Len(es))
  BY FS_Interval
<1>2. LiveUpTo(es, p) \in SUBSET (1..Len(es))
  BY DEF LiveUpTo, Live
<1>3. IsFiniteSet(LiveUpTo(es, p))
  BY <1>1, <1>2, FS_Subset
<1>4. QED  BY <1>3, FS_CardinalityType

(***************************************************************************)
(* A live entry adds one to the count of those before it.                  *)
(***************************************************************************)
LEMMA LiveUpToStep ==
  ASSUME NEW T, NEW es \in Seq(T), NEW p \in Live(es)
  PROVE  Cardinality(LiveUpTo(es, p)) = Cardinality(LiveUpTo(es, p - 1)) + 1
<1>1. p \in Nat
  BY DEF Live
<1>2. LiveUpTo(es, p) = LiveUpTo(es, p - 1) \cup {p}
  <2>1. ASSUME NEW i \in Live(es)  PROVE i <= p <=> i <= p - 1 \/ i = p
    BY <1>1 DEF Live
  <2>2. QED  BY <2>1, <1>1 DEF LiveUpTo
<1>5. p \notin LiveUpTo(es, p - 1)
  BY <1>1 DEF LiveUpTo
<1>3. IsFiniteSet(LiveUpTo(es, p - 1))
  BY <1>1, LiveUpToFinite
<1>4. QED  BY <1>2, <1>3, <1>5, FS_AddElement

(***************************************************************************)
(* Counting further counts no fewer.                                       *)
(***************************************************************************)
LEMMA LiveUpToMonotone ==
  ASSUME NEW T, NEW es \in Seq(T), NEW p \in Int, NEW q \in Int, p <= q
  PROVE  Cardinality(LiveUpTo(es, p)) <= Cardinality(LiveUpTo(es, q))
<1>1. LiveUpTo(es, p) \in SUBSET LiveUpTo(es, q)
  <2>1. ASSUME NEW i \in Live(es)  PROVE i \in Nat
    BY DEF Live
  <2>2. QED  BY <2>1 DEF LiveUpTo
<1>2. QED  BY <1>1, LiveUpToFinite, FS_Subset

(***************************************************************************)
(* An iterator whose index is at least the number of live entries up to    *)
(* its place goes forward, and its new index covers its new place exactly. *)
(***************************************************************************)
LEMMA NthLiveForward ==
  ASSUME NEW T, NEW es \in Seq(T), NEW n \in Nat, NEW pos \in Nat,
         Cardinality(LiveUpTo(es, pos)) <= n,
         NthLive(es, n) # {}
  PROVE  LET p == First(NthLive(es, n))
         IN  /\ p \in Live(es)
             /\ p > pos
             /\ Cardinality(LiveUpTo(es, p)) = n + 1
<1> DEFINE p == First(NthLive(es, n))
<1>1. NthLive(es, n) \in SUBSET Nat
  BY DEF NthLive, Live
<1>2. p \in NthLive(es, n)
  BY <1>1, FirstIsLeast
<1>3. p \in Live(es) /\ p \in Nat /\ Cardinality(LiveUpTo(es, p - 1)) = n
  BY <1>2 DEF NthLive, Live
<1>4. Cardinality(LiveUpTo(es, p)) = n + 1
  BY <1>3, LiveUpToStep
<1>5. p > pos
  <2> SUFFICES ASSUME p <= pos  PROVE FALSE
    BY <1>3
  <2>1. Cardinality(LiveUpTo(es, p)) <= Cardinality(LiveUpTo(es, pos))
    BY <1>3, LiveUpToMonotone
  <2>2. Cardinality(LiveUpTo(es, pos)) \in Nat
    BY LiveUpToFinite
  <2>3. QED  BY <1>4, <2>1, <2>2
<1>6. QED  BY <1>3, <1>4, <1>5

(***************************************************************************)
(* What happens to a list between two calls of next: entries are blanked   *)
(* or rewritten in place and others are appended, but no tombstone is ever *)
(* used again.  The live entries up to a place inside the list are among   *)
(* those that were there before.                                           *)
(***************************************************************************)
LEMMA LiveUpToKept ==
  ASSUME NEW T, NEW es \in Seq(T), NEW fs \in Seq(T),
         NEW pos \in Nat, pos <= Len(es), Len(es) <= Len(fs),
         \A i \in 1..Len(es) : i \in Live(fs) => i \in Live(es)
  PROVE  LiveUpTo(fs, pos) \in SUBSET LiveUpTo(es, pos)
<1>1. ASSUME NEW i \in Live(fs), i <= pos  PROVE i \in 1..Len(es)
  BY <1>1 DEF Live
<1>2. QED  BY <1>1 DEF LiveUpTo

(***************************************************************************)
(* So the count up to a place inside the list cannot grow.                 *)
(***************************************************************************)
LEMMA LiveUpToShrinks ==
  ASSUME NEW T, NEW es \in Seq(T), NEW fs \in Seq(T),
         NEW pos \in Nat, pos <= Len(es), Len(es) <= Len(fs),
         \A i \in 1..Len(es) : i \in Live(fs) => i \in Live(es)
  PROVE  Cardinality(LiveUpTo(fs, pos)) <= Cardinality(LiveUpTo(es, pos))
<1>1. LiveUpTo(fs, pos) \in SUBSET LiveUpTo(es, pos)
  BY LiveUpToKept
<1>2. IsFiniteSet(LiveUpTo(es, pos))
  BY LiveUpToFinite
<1>3. QED  BY <1>1, <1>2, FS_Subset

(***************************************************************************)
(* One step of forEach: if the walk has handed over every live entry up to *)
(* its place, it has after it moved to the first live entry beyond.        *)
(***************************************************************************)
LEMMA WalkCovers ==
  ASSUME NEW T, NEW es \in Seq(T), NEW pos \in Nat, NEW seen \in SUBSET Nat,
         LiveUpTo(es, pos) \subseteq seen, LiveBeyond(es, pos) # {}
  PROVE  LET q == First(LiveBeyond(es, pos))
         IN  /\ q \in 1..Len(es)
             /\ LiveUpTo(es, q) \subseteq seen \cup {q}
<1> DEFINE ahead == LiveBeyond(es, pos)
           q     == First(ahead)
<1>1. ahead \in SUBSET Nat
  BY DEF LiveBeyond, Live
<1>2. q \in ahead /\ \A i \in ahead : q <= i
  BY <1>1, FirstIsLeast
<1>3. q \in 1..Len(es)
  BY <1>2 DEF LiveBeyond, Live
<1>4. ASSUME NEW i \in LiveUpTo(es, q), i # q  PROVE i \in LiveUpTo(es, pos)
  <2>1. i \in Live(es) /\ i \in Nat /\ i <= q
    BY DEF LiveUpTo, Live
  <2>2. i \notin ahead
    BY <1>2, <1>3, <1>4, <2>1
  <2>3. QED  BY <2>1, <2>2 DEF LiveBeyond, LiveUpTo
<1>5. QED  BY <1>3, <1>4

(***************************************************************************)
(* A walk with nothing live ahead has handed over all there is.            *)
(***************************************************************************)
LEMMA WalkEnds ==
  ASSUME NEW T, NEW es \in Seq(T), NEW pos \in Nat, NEW seen \in SUBSET Nat,
         LiveUpTo(es, pos) \subseteq seen, LiveBeyond(es, pos) = {}
  PROVE  Live(es) \subseteq seen
<1>1. \A i \in Live(es) : i \in Nat
  BY DEF Live
<1>2. QED  BY <1>1 DEF LiveUpTo, LiveBeyond

-----------------------------------------------------------------------------
(***************************************************************************)
(* The sequence of live entries.  Each has a rank, its place in that       *)
(* sequence: the number of live entries up to it.                          *)
(***************************************************************************)
Rank(es, p) == Cardinality(LiveUpTo(es, p))

LEMMA LiveFinite ==
  ASSUME NEW T, NEW es \in Seq(T)
  PROVE  /\ IsFiniteSet(Live(es))
         /\ Cardinality(Live(es)) \in Nat
         /\ LiveUpTo(es, Len(es)) = Live(es)
         /\ LiveUpTo(es, 0) = {}
<1>1. LiveUpTo(es, Len(es)) = Live(es) /\ LiveUpTo(es, 0) = {}
  BY DEF LiveUpTo, Live
<1>2. Len(es) \in Int
  OBVIOUS
<1>3. IsFiniteSet(LiveUpTo(es, Len(es)))
  BY <1>2, LiveUpToFinite
<1>4. QED  BY <1>1, <1>3, FS_CardinalityType

LEMMA RankType ==
  ASSUME NEW T, NEW es \in Seq(T), NEW p \in Live(es)
  PROVE  Rank(es, p) \in 1..Cardinality(Live(es))
<1>1. p \in 1..Len(es) /\ p \in Int /\ p - 1 \in Int /\ Len(es) \in Int
  BY DEF Live
<1>2. Rank(es, p) = Cardinality(LiveUpTo(es, p - 1)) + 1
  BY LiveUpToStep DEF Rank
<1>3. Cardinality(LiveUpTo(es, p - 1)) \in Nat
  BY <1>1, LiveUpToFinite
<1>4. Cardinality(LiveUpTo(es, p)) <= Cardinality(LiveUpTo(es, Len(es)))
  BY <1>1, LiveUpToMonotone
<1>5. QED  BY <1>2, <1>3, <1>4, LiveFinite DEF Rank

(***************************************************************************)
(* Ranks grow with the positions, so no two live entries share one.        *)
(***************************************************************************)
LEMMA RankGrows ==
  ASSUME NEW T, NEW es \in Seq(T), NEW p \in Live(es), NEW q \in Live(es), p < q
  PROVE  Rank(es, p) < Rank(es, q)
<1>1. p \in Int /\ q - 1 \in Int /\ p <= q - 1
  BY DEF Live
<1>2. Rank(es, q) = Cardinality(LiveUpTo(es, q - 1)) + 1
  BY LiveUpToStep DEF Rank
<1>3. Cardinality(LiveUpTo(es, p)) <= Cardinality(LiveUpTo(es, q - 1))
  BY <1>1, LiveUpToMonotone
<1>4. Cardinality(LiveUpTo(es, p)) \in Nat /\ Cardinality(LiveUpTo(es, q - 1)) \in Nat
  BY <1>1, LiveUpToFinite
<1>5. QED  BY <1>2, <1>3, <1>4 DEF Rank

LEMMA RankInjective ==
  ASSUME NEW T, NEW es \in Seq(T), NEW p \in Live(es), NEW q \in Live(es),
         Rank(es, p) = Rank(es, q)
  PROVE  p = q
<1>1. p \in Nat /\ q \in Nat
  BY DEF Live
<1>2. Rank(es, p) \in Nat /\ Rank(es, q) \in Nat
  BY RankType, LiveFinite
<1>3. ~(p < q) /\ ~(q < p)
  BY <1>2, RankGrows
<1>4. QED  BY <1>1, <1>3

(***************************************************************************)
(* Every number up to the count of live entries is the rank of one: the    *)
(* first position up to which that many are live.                          *)
(***************************************************************************)
LEMMA RankOnto ==
  ASSUME NEW T, NEW es \in Seq(T), NEW n \in 1..Cardinality(Live(es))
  PROVE  \E p \in Live(es) : Rank(es, p) = n
<1> DEFINE S == {p \in Nat : Rank(es, p) >= n}
           p == First(S)
<1>1. Len(es) \in S
  BY LiveFinite DEF Rank
<1>2. p \in S /\ \A q \in S : p <= q
  BY <1>1, FirstIsLeast
<1>3. p # 0
  <2>1. Rank(es, 0) = 0
    BY LiveFinite, FS_EmptySet DEF Rank
  <2>2. 0 \notin S
    BY <2>1, LiveFinite
  <2>3. QED  BY <1>2, <2>2
<1> HIDE DEF p
<1>4. p - 1 \in Nat /\ p - 1 \notin S
  BY <1>2, <1>3
<1>5. Rank(es, p) \in Nat /\ Rank(es, p - 1) \in Nat
  BY <1>2, <1>4, LiveUpToFinite DEF Rank
<1>6. Rank(es, p - 1) < n /\ n <= Rank(es, p) /\ n \in Nat
  BY <1>2, <1>4, <1>5, LiveFinite
<1>7. p \in Live(es)
  <2> SUFFICES ASSUME p \notin Live(es)  PROVE FALSE
    OBVIOUS
  <2>1. LiveUpTo(es, p) = LiveUpTo(es, p - 1)
    <3>1. \A i \in Live(es) : i \in Nat /\ i # p
      BY DEF Live
    <3>2. \A i \in Live(es) : i <= p <=> i <= p - 1
      BY <1>2, <3>1
    <3>3. QED  BY <3>2 DEF LiveUpTo
  <2>2. QED  BY <1>5, <1>6, <2>1 DEF Rank
<1>8. Rank(es, p) = Rank(es, p - 1) + 1
  BY <1>7, LiveUpToStep DEF Rank
<1>9. QED  BY <1>5, <1>6, <1>7, <1>8

(***************************************************************************)
(* The sequence of live entries holds each at its rank.                    *)
(***************************************************************************)
LEMMA LiveEntriesAt ==
  ASSUME NEW T, NEW es \in Seq(T), NEW p \in Live(es)
  PROVE  LiveEntries(es)[Rank(es, p)] = es[p]
<1> DEFINE n == Rank(es, p)
<1>1. n \in 1..Cardinality(Live(es))
  BY RankType
<1>2. ASSUME NEW q \in Live(es)
      PROVE  Cardinality(LiveUpTo(es, q - 1)) = n - 1 <=> q = p
  <2>1. Rank(es, q) = Cardinality(LiveUpTo(es, q - 1)) + 1
    BY LiveUpToStep DEF Rank
  <2>2. Cardinality(LiveUpTo(es, q - 1)) \in Nat
    <3>1. q - 1 \in Int
      BY DEF Live
    <3>2. QED  BY <3>1, LiveUpToFinite
  <2>3. Rank(es, q) = n <=> q = p
    BY RankInjective
  <2>4. QED  BY <1>1, <2>1, <2>2, <2>3, LiveFinite
<1>3. NthLive(es, n - 1) = {p}
  BY <1>2 DEF NthLive
<1>4. First({p}) = p
  BY FirstIsLeast DEF Live
<1>5. QED  BY <1>1, <1>3, <1>4 DEF LiveEntries

LEMMA LiveEntriesType ==
  ASSUME NEW T, NEW es \in Seq(T)
  PROVE  /\ LiveEntries(es) \in Seq(T)
         /\ Len(LiveEntries(es)) = Cardinality(Live(es))
         /\ \A n \in 1..Cardinality(Live(es)) : \E p \in Live(es) :
              n = Rank(es, p) /\ LiveEntries(es)[n] = es[p]
<1>1. \A n \in 1..Cardinality(Live(es)) : \E p \in Live(es) :
        n = Rank(es, p) /\ LiveEntries(es)[n] = es[p]
  BY RankOnto, LiveEntriesAt
<1>2. \A p \in Live(es) : es[p] \in T
  BY DEF Live
<1>3. LiveEntries(es) \in [1..Cardinality(Live(es)) -> T]
  BY <1>1, <1>2 DEF LiveEntries
<1>4. Cardinality(Live(es)) \in Nat
  BY LiveFinite
<1>5. QED  BY <1>1, <1>3, <1>4

(***************************************************************************)
(* And it is the only sequence that does.                                  *)
(***************************************************************************)
LEMMA LiveEntriesUnique ==
  ASSUME NEW T, NEW es \in Seq(T), NEW s \in Seq(T),
         Len(s) = Cardinality(Live(es)),
         \A p \in Live(es) : s[Rank(es, p)] = es[p]
  PROVE  s = LiveEntries(es)
<1>1. \A n \in 1..Len(s) : s[n] = LiveEntries(es)[n]
  BY LiveEntriesType
<1>2. LiveEntries(es) \in Seq(T) /\ Len(LiveEntries(es)) = Len(s)
  BY LiveEntriesType
<1>3. QED  BY <1>1, <1>2

(***************************************************************************)
(* What the operations on the list do to the sequence of live entries: an  *)
(* append appends, a rewrite in place rewrites in place, a list without    *)
(* live entries is the empty dictionary, and a blanked entry closes the    *)
(* gap it leaves.                                                          *)
(***************************************************************************)
LEMMA LiveEntriesAppend ==
  ASSUME NEW T, NEW es \in Seq(T), NEW e \in T, e.key # Empty
  PROVE  LiveEntries(Append(es, e)) = Append(LiveEntries(es), e)
<1> DEFINE fs == Append(es, e)
           N  == Len(es)
           s  == Append(LiveEntries(es), e)
<1>1. /\ fs \in Seq(T) /\ Len(fs) = N + 1 /\ N \in Nat
      /\ fs[N + 1] = e /\ \A i \in 1..N : fs[i] = es[i]
  OBVIOUS
<1>2. Live(fs) = Live(es) \cup {N + 1}
  BY <1>1 DEF Live
<1>3. N + 1 \notin Live(es)
  BY <1>1 DEF Live
<1>4. Cardinality(Live(fs)) = Cardinality(Live(es)) + 1
  BY <1>2, <1>3, LiveFinite, FS_AddElement
<1>5. \A p \in Live(es) : Rank(fs, p) = Rank(es, p)
  <2>1. ASSUME NEW p \in Live(es)  PROVE LiveUpTo(fs, p) = LiveUpTo(es, p)
    BY <1>1, <1>2 DEF LiveUpTo, Live
  <2>2. QED  BY <2>1 DEF Rank
<1>6. Rank(fs, N + 1) = Cardinality(Live(es)) + 1
  BY <1>1, <1>4, LiveFinite DEF Rank
<1>7. LiveEntries(es) \in Seq(T) /\ Len(LiveEntries(es)) = Cardinality(Live(es))
  BY LiveEntriesType
<1> HIDE DEF fs
<1>8. s \in Seq(T) /\ Len(s) = Cardinality(Live(fs))
  BY <1>4, <1>7
<1>9. ASSUME NEW p \in Live(fs)  PROVE s[Rank(fs, p)] = fs[p]
  <2>1. CASE p = N + 1
    BY <1>1, <1>6, <1>7, <2>1
  <2>2. CASE p \in Live(es)
    <3>1. Rank(es, p) \in 1..Cardinality(Live(es)) /\ p \in 1..N
      BY <2>2, RankType DEF Live
    <3>2. LiveEntries(es)[Rank(es, p)] = es[p]
      BY <2>2, LiveEntriesAt
    <3>3. QED  BY <1>1, <1>5, <1>7, <2>2, <3>1, <3>2
  <2>3. QED  BY <1>2, <2>1, <2>2
<1> HIDE DEF s
<1>10. s = LiveEntries(fs)
  BY <1>1, <1>8, <1>9, LiveEntriesUnique
<1>11. QED  BY <1>10 DEF s, fs

LEMMA LiveEntriesRewrite ==
  ASSUME NEW T, NEW es \in Seq(T), NEW fs \in Seq(T), NEW p \in Live(es),
         Len(fs) = Len(es), fs[p].key # Empty,
         \A i \in 1..Len(es) : i # p => fs[i] = es[i]
  PROVE  LiveEntries(fs) = [LiveEntries(es) EXCEPT ![Rank(es, p)] = fs[p]]
<1> DEFINE s == [LiveEntries(es) EXCEPT ![Rank(es, p)] = fs[p]]
           C == Cardinality(Live(es))
<1>1. Live(fs) = Live(es) /\ p \in 1..Len(es)
  BY DEF Live
<1>2. \A q \in Live(es) : Rank(fs, q) = Rank(es, q)
  BY <1>1 DEF Rank, LiveUpTo
<1>3. /\ LiveEntries(es) \in Seq(T) /\ Len(LiveEntries(es)) = C
      /\ Rank(es, p) \in 1..C
  BY LiveEntriesType, RankType
<1>4. fs[p] \in T
  BY <1>1
<1>5. /\ s \in Seq(T) /\ Len(s) = C
      /\ \A n \in 1..C : s[n] = IF n = Rank(es, p) THEN fs[p] ELSE LiveEntries(es)[n]
  BY <1>3, <1>4
<1>6. ASSUME NEW q \in Live(es)  PROVE s[Rank(es, q)] = fs[q]
  <2>1. Rank(es, q) \in 1..C /\ LiveEntries(es)[Rank(es, q)] = es[q]
    BY RankType, LiveEntriesAt
  <2>2. Rank(es, q) = Rank(es, p) <=> q = p
    BY RankInjective
  <2>3. q # p => fs[q] = es[q]
    BY DEF Live
  <2>4. QED  BY <1>5, <2>1, <2>2, <2>3
<1> HIDE DEF s
<1>7. s = LiveEntries(fs)
  BY <1>1, <1>2, <1>5, <1>6, LiveEntriesUnique
<1>8. QED  BY <1>7 DEF s

LEMMA LiveEntriesNone ==
  ASSUME NEW T, NEW es \in Seq(T), Live(es) = {}
  PROVE  LiveEntries(es) = <<>>
<1>1. LiveEntries(es) \in Seq(T) /\ Len(LiveEntries(es)) = 0
  BY LiveEntriesType, FS_EmptySet
<1>2. QED  BY <1>1

-----------------------------------------------------------------------------

Lists == Seq(Seq(EntryType))

\* The lists that the walks and the iterators refer to exist.
Placed ==
  /\ \A n \in DOMAIN frames : frames[n].list \in DOMAIN lists
  /\ \A i \in Iterators : iters[i].list <= Len(lists)

(***************************************************************************)
(* The strengthening IterForward needs.  next finds its place by counting  *)
(* the live entries before it, so what keeps it from going back is that    *)
(* its index is never less than the number of live entries up to its       *)
(* place: equal when it got there, and only fewer since, because clear     *)
(* blanks entries and set never uses a blank one again.                    *)
(***************************************************************************)
Counted ==
  \A i \in Iterators :
    iters[i].list = Len(lists) =>
      /\ iters[i].pos <= Len(entries)
      /\ Cardinality(LiveUpTo(entries, iters[i].pos)) <= iters[i].index

(***************************************************************************)
(* The strengthening ForEachReachesAll needs: a walk stands inside its     *)
(* list and has handed over every entry up to its place that is live now.  *)
(***************************************************************************)
Covered ==
  \A n \in DOMAIN frames :
    LET es == lists[frames[n].list]
    IN  /\ frames[n].pos <= Len(es)
        /\ LiveUpTo(es, frames[n].pos) \subseteq frames[n].seen

\* What ForEachReachesAll says of the walk that returns.
Reached == LET top == frames[Len(frames)]
           IN  Live(lists[top.list]) \subseteq top.seen

\* What a call may do to a list: blank entries, rewrite values, append.
Kept(es, fs) ==
  /\ Len(es) <= Len(fs)
  /\ \A p \in 1..Len(es) :
       p \in Live(fs) => p \in Live(es) /\ fs[p].key = es[p].key

\* And to the lists headed so far; the constructor heads another.
Evolves ==
  /\ lists' \in Lists
  /\ Len(lists') \in {Len(lists), Len(lists) + 1}
  /\ \A m \in 1..Len(lists) : Kept(lists[m], lists'[m])

-----------------------------------------------------------------------------
LEMMA EntriesType == TypeOK => entries \in Seq(EntryType) /\ Len(lists) \in Nat
BY DEF TypeOK, entries

(***************************************************************************)
(* The scan never stops at a tombstone: no key has its tag.                *)
(***************************************************************************)
LEMMA ScanStopsAtLive ==
  ASSUME TypeOK, NEW k \in Keys, Holds(entries, Same, k)
  PROVE  LET p == At(entries, Same, k)
         IN  /\ p \in 1..Len(entries)
             /\ p \in Live(entries)
             /\ entries[p] \in [key: Keys, value: Vals]
<1> DEFINE p == At(entries, Same, k)
<1>1. entries \in Seq(EntryType)
  BY EntriesType
<1>2. p \in 1..Len(entries) /\ (Same(entries[p].key, k) \/ SameAborts(entries[p].key, k))
  <2> DEFINE S == {i \in DOMAIN entries : Same(entries[i].key, k) \/ SameAborts(entries[i].key, k)}
  <2>1. S # {} /\ S \in SUBSET Nat
    BY <1>1 DEF Holds, Stops
  <2>2. First(S) \in S
    BY <2>1, FirstIsLeast
  <2>3. p = First(S)
    BY DEF At, Stops
  <2>4. QED  BY <1>1, <2>2, <2>3
<1>3. entries[p].key.tag = k.tag
  BY <1>2 DEF Same, SameValue, SameValueZero, SameAborts
<1>4. entries[p].key # Empty
  BY <1>3, MapAssumption
<1>5. entries[p] \in EntryType /\ entries[p] # Tombstone
  BY <1>1, <1>2, <1>4 DEF Tombstone, Entry
<1>6. QED  BY <1>1, <1>2, <1>4, <1>5 DEF EntryType, Live

LEMMA SetEntriesStep ==
  ASSUME TypeOK, NEW es \in Seq(EntryType), Kept(entries, es), SetEntries(es)
  PROVE  Len(lists') = Len(lists) /\ entries' = es /\ Evolves
<1>1. lists \in Lists /\ Len(lists) \in 1..Len(lists)
  BY DEF TypeOK, Lists
<1>2. /\ lists' \in Lists /\ Len(lists') = Len(lists)
      /\ \A m \in 1..Len(lists) :
           lists'[m] = IF m = Len(lists) THEN es ELSE lists[m]
  BY <1>1, ExceptSeq DEF SetEntries, Lists
<1>3. \A m \in 1..Len(lists) : Kept(lists[m], lists[m])
  BY <1>1 DEF Lists, Kept
<1>4. QED  BY <1>1, <1>2, <1>3 DEF Evolves, entries

-----------------------------------------------------------------------------
(***************************************************************************)
(* What each operation does to the entries.                                *)
(***************************************************************************)
LEMMA SetStep ==
  ASSUME TypeOK, NEW k \in Keys, NEW v \in Vals, Set(k, v)
  PROVE  /\ Evolves /\ last'.answer = Self
         /\ UniqueKeys => UniqueKeys'
<1>1. entries \in Seq(EntryType) /\ Len(lists) \in Nat
  BY EntriesType
<1>2. last'.answer = Self
  BY DEF Set, Answer, Call
<1>3. comparator' = comparator
  BY DEF Set
<1>4. CASE Holds(entries, Same, k)
  <2> DEFINE p  == At(entries, Same, k)
             es == [entries EXCEPT ![p].value = v]
  <2>1. p \in 1..Len(entries) /\ p \in Live(entries)
        /\ entries[p] \in [key: Keys, value: Vals]
    BY <1>4, ScanStopsAtLive
  <2>2. es = [entries EXCEPT ![p] = [entries[p] EXCEPT !.value = v]]
    BY <1>1
  <2>3. [entries[p] EXCEPT !.value = v] \in EntryType
    BY <2>1 DEF EntryType
  <2>4. es \in Seq(EntryType) /\ Len(es) = Len(entries)
        /\ \A i \in 1..Len(entries) : es[i].key = entries[i].key
    <3>1. /\ es \in Seq(EntryType) /\ Len(es) = Len(entries)
          /\ \A i \in 1..Len(entries) :
               es[i] = IF i = p THEN [entries[p] EXCEPT !.value = v] ELSE entries[i]
      BY <1>1, <2>1, <2>2, <2>3, ExceptSeq
    <3>2. [entries[p] EXCEPT !.value = v].key = entries[p].key
      BY <2>1
    <3>3. QED  BY <3>1, <3>2
  <2>5. SetEntries(es)
    BY <1>4 DEF Set
  <2>7. Live(es) = Live(entries)
    BY <1>1, <2>4 DEF Live
  <2>8. Kept(entries, es)
    BY <1>1, <2>4, <2>7 DEF Kept
  <2>6. entries' = es /\ Evolves
    BY <2>4, <2>5, <2>8, SetEntriesStep
  <2>9. UniqueKeys => UniqueKeys'
    <3> SUFFICES ASSUME UniqueKeys, NEW i \in Live(es), NEW j \in Live(es), i < j
                 PROVE  ~Same(entries[i].key, entries[j].key)'
      BY <2>6 DEF UniqueKeys
    <3>1. i \in 1..Len(entries) /\ j \in 1..Len(entries)
      BY <1>1, <2>7 DEF Live
    <3>2. QED  BY <1>3, <2>4, <2>6, <2>7, <3>1 DEF UniqueKeys, Same
  <2>10. QED  BY <1>2, <2>6, <2>9
<1>5. CASE ~Holds(entries, Same, k)
  <2> DEFINE es == Append(entries, Entry(k, v))
  <2>1. Entry(k, v) \in EntryType /\ Entry(k, v).key = k
    BY DEF EntryType, Entry
  <2>2. /\ es \in Seq(EntryType) /\ Len(es) = Len(entries) + 1
        /\ \A i \in 1..Len(entries) : es[i] = entries[i]
        /\ es[Len(entries) + 1].key = k
    BY <1>1, <2>1, AppendProperties
  <2>3. SetEntries(es)
    BY <1>5 DEF Set
  <2>5. Kept(entries, es)
    BY <1>1, <2>2 DEF Kept, Live
  <2>4. entries' = es /\ Evolves
    BY <2>2, <2>3, <2>5, SetEntriesStep
  <2>6. \A i \in 1..Len(entries) : ~Same(entries[i].key, k)
    BY <1>1, <1>5 DEF Set, ScanAborts, Holds, Stops
  <2>7. UniqueKeys => UniqueKeys'
    <3> SUFFICES ASSUME UniqueKeys, NEW i \in Live(es), NEW j \in Live(es), i < j
                 PROVE  ~Same(entries[i].key, entries[j].key)'
      BY <2>4 DEF UniqueKeys
    <3>1. i \in 1..Len(entries) /\ j \in 1..(Len(entries) + 1)
      BY <1>1, <2>2 DEF Live
    <3>2. CASE j = Len(entries) + 1
      BY <1>3, <2>2, <2>4, <2>6, <3>1, <3>2 DEF Same
    <3>3. CASE j \in 1..Len(entries)
      <4>1. i \in Live(entries) /\ j \in Live(entries)
        BY <1>1, <2>2, <3>1, <3>3 DEF Live
      <4>2. QED  BY <1>3, <2>2, <2>4, <3>1, <3>3, <4>1 DEF UniqueKeys, Same
    <3>4. QED  BY <3>1, <3>2, <3>3
  <2>8. QED  BY <1>2, <2>4, <2>7
<1>6. QED  BY <1>4, <1>5

LEMMA ClearStep ==
  ASSUME TypeOK, Clear
  PROVE  Evolves /\ UniqueKeys'
<1> DEFINE es == [i \in DOMAIN entries |-> Tombstone]
<1>1. entries \in Seq(EntryType) /\ Len(lists) \in Nat
  BY EntriesType
<1>2. es \in Seq(EntryType) /\ Len(es) = Len(entries)
  BY <1>1 DEF EntryType
<1>3. SetEntries(es)
  BY DEF Clear
<1>4. Live(es) = {}
  BY DEF Live, Tombstone, Entry
<1> HIDE DEF es
<1>5. Kept(entries, es)
  BY <1>1, <1>2, <1>4 DEF Kept
<1>6. entries' = es /\ Evolves
  BY <1>2, <1>3, <1>5, SetEntriesStep
<1>7. QED  BY <1>4, <1>6 DEF UniqueKeys

LEMMA ConstructStep ==
  ASSUME TypeOK, NEW c \in {Undefined, StrIs}, Construct(c)
  PROVE  Evolves /\ UniqueKeys'
<1>1. Len(lists) \in Nat /\ lists \in Lists
  BY DEF TypeOK, Lists
<1>2. lists' = Append(lists, <<>>) /\ <<>> \in Seq(EntryType)
  BY DEF Construct
<1>3. /\ lists' \in Lists /\ Len(lists') = Len(lists) + 1 /\ entries' = <<>>
      /\ \A m \in 1..Len(lists) : lists'[m] = lists[m]
  BY <1>1, <1>2, AppendProperties DEF Lists, entries
<1>4. \A m \in 1..Len(lists) : Kept(lists[m], lists'[m])
  BY <1>1, <1>3 DEF Lists, Kept
<1>5. QED  BY <1>3, <1>4 DEF Evolves, UniqueKeys, Live

LEMMA SameListsStep ==
  ASSUME TypeOK, UNCHANGED <<lists, comparator>>
  PROVE  Evolves /\ (UniqueKeys => UniqueKeys')
<1>1. lists \in Lists
  BY DEF TypeOK, Lists
<1>2. entries' = entries
  BY DEF entries
<1>3. Evolves
  BY <1>1 DEF Evolves, Lists, Kept
<1>4. QED  BY <1>2, <1>3 DEF UniqueKeys, Same

-----------------------------------------------------------------------------
(***************************************************************************)
(* Iterators and walks.                                                    *)
(***************************************************************************)
FrameType == [list: Nat, pos: Nat, seen: SUBSET Nat]

LEMMA CountedStep ==
  ASSUME TypeOK, Placed, Counted, Evolves, UNCHANGED iters
  PROVE  Counted'
<1>1. entries \in Seq(EntryType) /\ Len(lists) \in Nat
  BY EntriesType
<1>2. SUFFICES ASSUME NEW i \in Iterators, iters[i].list = Len(lists')
               PROVE  /\ iters[i].pos <= Len(entries')
                      /\ Cardinality(LiveUpTo(entries', iters[i].pos))
                           <= iters[i].index
  BY DEF Counted
<1>3. iters[i] \in IterType /\ iters[i].list <= Len(lists)
  BY DEF TypeOK, Placed
<1>4. iters[i].list = Len(lists) /\ Len(lists') = Len(lists)
  BY <1>1, <1>2, <1>3 DEF Evolves
<1>5. /\ entries' \in Seq(EntryType)
      /\ Len(entries) <= Len(entries')
      /\ \A p \in 1..Len(entries) : p \in Live(entries') => p \in Live(entries)
  <2>1. entries' = lists'[Len(lists)] /\ Len(lists) \in 1..Len(lists)
    BY <1>4 DEF TypeOK, entries
  <2>2. Kept(entries, entries')
    BY <2>1 DEF Evolves, entries
  <2>3. lists'[Len(lists)] \in Seq(EntryType)
    BY <1>4, <2>1 DEF Evolves, Lists
  <2>4. QED  BY <2>1, <2>2, <2>3 DEF Kept
<1>6. /\ iters[i].pos <= Len(entries)
      /\ Cardinality(LiveUpTo(entries, iters[i].pos)) <= iters[i].index
  BY <1>4 DEF Counted
<1>7. iters[i].pos \in Nat /\ iters[i].index \in Nat
  BY <1>3 DEF IterType
<1>8. Cardinality(LiveUpTo(entries', iters[i].pos))
        <= Cardinality(LiveUpTo(entries, iters[i].pos))
  BY <1>1, <1>5, <1>6, <1>7, LiveUpToShrinks
<1>9. /\ Cardinality(LiveUpTo(entries', iters[i].pos)) \in Nat
      /\ Cardinality(LiveUpTo(entries, iters[i].pos)) \in Nat
  <2>1. iters[i].pos \in Int
    BY <1>7
  <2>2. Cardinality(LiveUpTo(entries', iters[i].pos)) \in Nat
    BY <1>5, <2>1, LiveUpToFinite
  <2>3. Cardinality(LiveUpTo(entries, iters[i].pos)) \in Nat
    BY <1>1, <2>1, LiveUpToFinite
  <2>4. QED  BY <2>2, <2>3
<1>10. iters[i].pos <= Len(entries')
  BY <1>1, <1>5, <1>6, <1>7
<1>11. QED  BY <1>6, <1>7, <1>8, <1>9, <1>10

LEMMA IterNextStep ==
  ASSUME TypeOK, Placed, Counted, NEW i \in Iterators, IterNext(i)
  PROVE  /\ iters' \in [Iterators -> IterType]
         /\ \A j \in Iterators : iters'[j].list <= Len(lists)
         /\ Counted'
         /\ \A j \in Iterators :
              iters'[j].index > iters[j].index /\ iters'[j].list = iters[j].list
                => iters'[j].pos > iters[j].pos
<1> DEFINE ps == NthLive(entries, iters[i].index)
           p  == First(ps)
<1>1. entries \in Seq(EntryType) /\ Len(lists) \in Nat
  BY EntriesType
<1>2. iters \in [Iterators -> IterType] /\ iters[i] \in IterType
  BY DEF TypeOK
<1>3. iters[i].index \in Nat /\ iters[i].pos \in Nat /\ iters[i].list \in Nat
  BY <1>2 DEF IterType
<1>4. \A j \in Iterators : iters[j].list <= Len(lists)
  BY DEF Placed
<1>5. UNCHANGED lists /\ entries' = entries
  BY DEF IterNext, entries
<1> DEFINE it == Yielded(iters[i], p)
<1>9. iters' = [iters EXCEPT ![i] =
                  IF ps = {} THEN [iters[i] EXCEPT !.on = "done"] ELSE it]
  BY DEF IterNext, Advance
<1>10. ps # {} => /\ Cardinality(LiveUpTo(entries, p)) = iters[i].index + 1
                 /\ p \in Live(entries)
  <2>1. LiveUpTo(entries, 0) = {}
    BY <1>1 DEF LiveUpTo, Live
  <2>2. Cardinality(LiveUpTo(entries, 0)) <= iters[i].index
    BY <1>3, <2>1, FS_EmptySet
  <2>3. QED  BY <1>1, <1>3, <2>2, NthLiveForward
<1>11. ASSUME ps # {}, iters[i].list = Len(lists)  PROVE p > iters[i].pos
  <2>1. Cardinality(LiveUpTo(entries, iters[i].pos)) <= iters[i].index
    BY <1>11 DEF Counted
  <2>2. QED  BY <1>1, <1>3, <1>11, <2>1, NthLiveForward
<1> HIDE DEF ps, p
<1>6. CASE ps = {}
  <2>1. iters' = [iters EXCEPT ![i] = [iters[i] EXCEPT !.on = "done"]]
    BY <1>6, <1>9
  <2>2. [iters[i] EXCEPT !.on = "done"] \in IterType
    BY <1>2 DEF IterType
  <2>3. iters' \in [Iterators -> IterType]
    BY <1>2, <2>1, <2>2
  <2>4. \A j \in Iterators : /\ iters'[j].list = iters[j].list
                             /\ iters'[j].pos = iters[j].pos
                             /\ iters'[j].index = iters[j].index
                             /\ iters[j].index \in Nat
    BY <1>2, <2>1 DEF IterType
  <2>5. QED  BY <1>4, <1>5, <2>3, <2>4 DEF Counted
<1>7. CASE ps # {}
  <2>1. iters' = [iters EXCEPT ![i] = it]
    BY <1>7, <1>9
  <2>3. /\ p \in Live(entries)
        /\ Cardinality(LiveUpTo(entries, p)) = iters[i].index + 1
    BY <1>7, <1>10
  <2>4. p \in 1..Len(entries)
    BY <1>1, <2>3 DEF Live
  <2>5. it \in IterType /\ it.list = Len(lists) /\ it.pos = p
        /\ it.index = iters[i].index + 1
    <3>1. p \in Nat /\ iters[i].index + 1 \in Nat
      BY <1>1, <1>3, <2>4
    <3>2. QED  BY <1>1, <3>1 DEF IterType, Yielded
  <2> HIDE DEF it
  <2>6. iters' \in [Iterators -> IterType] /\ iters'[i] = it
        /\ \A j \in Iterators : j # i => iters'[j] = iters[j]
    BY <1>2, <2>1, <2>5
  <2>7. \A j \in Iterators : iters'[j].list <= Len(lists)
    BY <1>1, <1>4, <2>5, <2>6
  <2>8. Counted'
    <3> SUFFICES ASSUME NEW j \in Iterators, iters'[j].list = Len(lists)
                 PROVE  /\ iters'[j].pos <= Len(entries)
                        /\ Cardinality(LiveUpTo(entries, iters'[j].pos))
                             <= iters'[j].index
      BY <1>5 DEF Counted
    <3>1. CASE j = i
      BY <1>1, <1>3, <2>3, <2>4, <2>5, <2>6, <3>1
    <3>2. CASE j # i
      BY <2>6, <3>2 DEF Counted
    <3>3. QED  BY <3>1, <3>2
  <2>9. iters[i].list = Len(lists) => p > iters[i].pos
    BY <1>7, <1>11
  <2>10. ASSUME NEW j \in Iterators, iters'[j].index > iters[j].index,
                iters'[j].list = iters[j].list
         PROVE  iters'[j].pos > iters[j].pos
    <3>1. CASE j = i
      BY <2>5, <2>6, <2>9, <2>10, <3>1
    <3>2. CASE j # i
      <4>1. iters[j].index \in Nat
        BY <1>2 DEF IterType
      <4>2. QED  BY <2>6, <2>10, <3>2, <4>1
    <3>3. QED  BY <3>1, <3>2
  <2>11. QED  BY <2>6, <2>7, <2>8, <2>10
<1>8. QED  BY <1>6, <1>7

(***************************************************************************)
(* A walk survives what a call does to its list.                           *)
(***************************************************************************)
LEMMA CoveredStep ==
  ASSUME TypeOK, Placed, Covered, Evolves, UNCHANGED frames
  PROVE  Covered'
<1>1. lists \in Lists /\ lists' \in Lists /\ frames \in Seq(FrameType)
  BY DEF TypeOK, Evolves, Lists, FrameType
<1>2. SUFFICES ASSUME NEW n \in DOMAIN frames
               PROVE  LET es == lists'[frames[n].list]
                      IN  /\ frames[n].pos <= Len(es)
                          /\ LiveUpTo(es, frames[n].pos) \subseteq frames[n].seen
  BY DEF Covered
<1> DEFINE es  == lists[frames[n].list]
           fs  == lists'[frames[n].list]
           pos == frames[n].pos
<1>3. frames[n].list \in 1..Len(lists) /\ pos \in Nat
  <2>1. frames[n] \in FrameType /\ frames[n].list \in DOMAIN lists
    BY <1>1 DEF Placed
  <2>2. QED  BY <1>1, <2>1 DEF Lists, FrameType
<1>4. es \in Seq(EntryType) /\ fs \in Seq(EntryType) /\ Kept(es, fs)
  <2>1. Kept(es, fs) /\ frames[n].list \in 1..Len(lists')
    BY <1>1, <1>3 DEF Evolves
  <2>2. es \in Seq(EntryType)
    BY <1>1, <1>3 DEF Lists
  <2>3. fs \in Seq(EntryType)
    BY <1>1, <2>1 DEF Lists
  <2> QED
    BY <2>1, <2>2, <2>3
<1>5. pos <= Len(es) /\ LiveUpTo(es, pos) \subseteq frames[n].seen
  BY DEF Covered
<1> HIDE DEF es, fs, pos
<1>6. LiveUpTo(fs, pos) \in SUBSET LiveUpTo(es, pos)
  BY <1>3, <1>4, <1>5, LiveUpToKept DEF Kept
<1>7. pos <= Len(fs)
  BY <1>3, <1>4, <1>5 DEF Kept
<1>8. QED  BY <1>5, <1>6, <1>7 DEF fs, pos

\* A walk that stands inside its list and has handed over what it passed.
Sound(f) ==
  /\ f \in FrameType /\ f.list \in DOMAIN lists
  /\ f.pos <= Len(lists[f.list])
  /\ LiveUpTo(lists[f.list], f.pos) \subseteq f.seen

LEMMA WalkStep ==
  ASSUME TypeOK, NEW f, Sound(f), LiveBeyond(lists[f.list], f.pos) # {}
  PROVE  Sound(Walk(f))
<1> DEFINE es == lists[f.list]
           q  == First(LiveBeyond(es, f.pos))
<1>1. f \in [list: Nat, pos: Nat, seen: SUBSET Nat]
  BY DEF Sound, FrameType
<1>2. es \in Seq(EntryType)
  BY DEF TypeOK, Sound
<1>3. q \in 1..Len(es) /\ LiveUpTo(es, q) \subseteq f.seen \cup {q}
  BY <1>1, <1>2, WalkCovers DEF Sound
<1>4. Walk(f) = [f EXCEPT !.pos = q, !.seen = f.seen \cup {q}]
  BY DEF Walk
<1>8. q \in Nat
  BY <1>2, <1>3
<1> HIDE DEF q
<1> DEFINE w == Walk(f)
<1>5. w \in FrameType /\ w.list = f.list /\ w.pos = q /\ w.seen = f.seen \cup {q}
  <2>1. f.seen \cup {q} \in SUBSET Nat
    BY <1>1, <1>8
  <2>2. QED  BY <1>1, <1>4, <1>8, <2>1 DEF FrameType
<1> HIDE DEF w
<1>6. Sound(w)
  BY <1>2, <1>3, <1>5 DEF Sound
<1>7. QED  BY <1>6 DEF w

(***************************************************************************)
(* forEach keeps every walk sound, and returns only when the innermost has *)
(* handed over every entry that is there.                                  *)
(***************************************************************************)
LEMMA ForEachStep ==
  ASSUME TypeOK, Placed, Covered, ForEachBegin \/ ForEachNext \/ ForEachEnd
  PROVE  /\ frames' \in Seq(FrameType)
         /\ \A n \in DOMAIN frames' : Sound(frames'[n])
         /\ Len(frames') < Len(frames) => Reached
<1>1. frames \in Seq(FrameType) /\ Len(frames) \in Nat
  BY DEF TypeOK, FrameType
<1>2. \A n \in 1..Len(frames) : Sound(frames[n])
  BY <1>1 DEF Placed, Covered, Sound
<1>3. CASE ForEachBegin /\ UNCHANGED frames
  BY <1>1, <1>2, <1>3
<1>4. CASE ForEachBegin /\ ~UNCHANGED frames
  <2>1. Live(entries) # {} /\ frames' = Append(frames, Walk(NewFrame))
    BY <1>4 DEF ForEachBegin
  <2>2. lists[NewFrame.list] = entries /\ entries \in Seq(EntryType)
    BY EntriesType DEF NewFrame, entries
  <2>3. /\ LiveBeyond(entries, NewFrame.pos) = Live(entries)
        /\ LiveUpTo(entries, NewFrame.pos) = {}
    BY <2>2 DEF NewFrame, LiveBeyond, LiveUpTo, Live
  <2>4. Sound(NewFrame)
    <3>1. NewFrame \in FrameType /\ NewFrame.list \in DOMAIN lists
      BY DEF NewFrame, FrameType, TypeOK
    <3>2. NewFrame.pos = 0
      BY DEF NewFrame
    <3>3. QED  BY <2>2, <2>3, <3>1, <3>2 DEF Sound
  <2>5. Sound(Walk(NewFrame))
    BY <2>1, <2>2, <2>3, <2>4, WalkStep
  <2> DEFINE w == Walk(NewFrame)
  <2> HIDE DEF w
  <2>6. frames' = Append(frames, w) /\ Sound(w) /\ w \in FrameType
    BY <2>1, <2>5 DEF w, Sound
  <2>7. QED  BY <1>1, <1>2, <2>6
<1>5. CASE ForEachNext
  <2> DEFINE top == frames[Len(frames)]
             w   == Walk(top)
  <2>1. /\ frames # <<>>
        /\ LiveBeyond(lists[top.list], top.pos) # {}
        /\ frames' = [frames EXCEPT ![Len(frames)] = w]
    BY <1>5 DEF ForEachNext
  <2>2. Len(frames) \in 1..Len(frames)
    BY <1>1, <2>1
  <2>3. Sound(w) /\ w \in FrameType
    <3>1. Sound(w)
      BY <1>2, <2>1, <2>2, WalkStep
    <3>2. QED  BY <3>1 DEF Sound
  <2> HIDE DEF w
  <2>4. QED  BY <1>1, <1>2, <2>1, <2>2, <2>3
<1>6. CASE ForEachEnd
  <2> DEFINE top == frames[Len(frames)]
  <2>1. /\ frames # <<>> /\ frames' = SubSeq(frames, 1, Len(frames) - 1)
        /\ LiveBeyond(lists[top.list], top.pos) = {}
    BY <1>6 DEF ForEachEnd
  <2>2. Sound(top)
    BY <1>1, <1>2, <2>1
  <2>3. /\ lists[top.list] \in Seq(EntryType) /\ top.pos \in Nat
        /\ top.seen \in SUBSET Nat
    BY <2>2 DEF Sound, FrameType, TypeOK
  <2>4. Live(lists[top.list]) \subseteq top.seen
    BY <2>1, <2>2, <2>3, WalkEnds DEF Sound
  <2>5. Reached
    BY <2>4 DEF Reached
  <2> HIDE DEF top
  <2>6. QED  BY <1>1, <1>2, <2>1, <2>5
<1>7. QED  BY <1>3, <1>4, <1>5, <1>6

-----------------------------------------------------------------------------
IInv == TypeOK /\ Placed /\ UniqueKeys /\ Counted /\ Covered

LEMMA InitInv == Init => IInv
<1> SUFFICES ASSUME Init  PROVE IInv
  OBVIOUS
<1>1. entries = <<>> /\ Len(lists) = 1 /\ lists \in Seq(Seq(EntryType))
  BY DEF Init, entries
<1>2. TypeOK
  BY <1>1 DEF Init, TypeOK, IterType, Unmade, Call
<1>3. Placed /\ UniqueKeys /\ Covered
  BY <1>1 DEF Init, Placed, UniqueKeys, Live, Unmade, Covered
<1>4. Counted
  BY <1>1 DEF Init, Counted, Unmade
<1>5. QED  BY <1>2, <1>3, <1>4 DEF IInv

(***************************************************************************)
(* The invariant survives every action, no action sends an iterator back,  *)
(* and none takes a forEach away that has not reached every entry.  One    *)
(* step per action; each rests on the lemma about it.                      *)
(***************************************************************************)
LEMMA NextInv ==
  ASSUME IInv, [Next]_vars
  PROVE  /\ IInv'
         /\ \A i \in Iterators :
              iters'[i].index > iters[i].index /\ iters'[i].list = iters[i].list
                => iters'[i].pos > iters[i].pos
         /\ Len(frames') < Len(frames) => Reached
<1> USE DEF IInv
<1> DEFINE Forward ==
      \A i \in Iterators :
        iters'[i].index > iters[i].index /\ iters'[i].list = iters[i].list
          => iters'[i].pos > iters[i].pos
<1> DEFINE Full == Len(frames') < Len(frames) => Reached
<1>1. /\ Len(lists) \in Nat /\ lists \in Lists /\ iters \in [Iterators -> IterType]
      /\ frames \in Seq(FrameType)
      /\ comparator \in {Undefined, StrIs} /\ status \in {"running", "aborted"}
      /\ last.answer \in Vals \cup {Self, Undefined, True, False}
  BY DEF TypeOK, Lists, FrameType
<1>2. ASSUME UNCHANGED iters  PROVE Forward
  <2>1. \A i \in Iterators : iters[i].index \in Nat
    BY <1>1 DEF IterType
  <2>2. QED  BY <1>2, <2>1
\* What is left to show for an operation on the entries.
<1>3. ASSUME Evolves, UniqueKeys', UNCHANGED <<iters, frames>>,
             comparator' \in {Undefined, StrIs}, status' \in {"running", "aborted"},
             last'.answer \in Vals \cup {Self, Undefined, True, False}
      PROVE  IInv' /\ Forward /\ Full
  <2>1. Counted' /\ Covered' /\ Full
    BY <1>1, <1>3, CountedStep, CoveredStep
  <2>2. TypeOK'
    BY <1>1, <1>3 DEF TypeOK, Lists, FrameType, Evolves
  <2>3. Placed'
    <3>1. DOMAIN lists \subseteq DOMAIN lists'
      BY <1>1, <1>3 DEF Lists, Evolves
    <3>2. \A i \in Iterators : iters[i].list \in Nat
      BY <1>1 DEF IterType
    <3>3. QED  BY <1>1, <1>3, <3>1, <3>2 DEF Placed, Evolves
  <2>4. QED  BY <1>2, <1>3, <2>1, <2>2, <2>3
<1>4. ASSUME NEW c \in {Undefined, StrIs}, Construct(c)  PROVE IInv' /\ Forward /\ Full
  <2>1. /\ UNCHANGED <<iters, frames>> /\ comparator' = c /\ status' = status
        /\ last'.answer = Self
    BY <1>4 DEF Construct, Answer, Call
  <2>2. QED  BY <1>1, <1>3, <1>4, <2>1, ConstructStep
<1>5. ASSUME NEW k \in Keys, NEW v \in Vals, Set(k, v)  PROVE IInv' /\ Forward /\ Full
  <2>1. UNCHANGED <<iters, frames, comparator, status>>
    BY <1>5 DEF Set
  <2>2. QED  BY <1>1, <1>3, <1>5, <2>1, SetStep
<1>6. ASSUME Clear  PROVE IInv' /\ Forward /\ Full
  <2>1. UNCHANGED <<iters, frames, comparator, status>> /\ last'.answer = Undefined
    BY <1>6 DEF Clear, Answer, Call
  <2>2. QED  BY <1>1, <1>3, <1>6, <2>1, ClearStep
\* The operations that leave the entries alone.
<1>7. ASSUME UNCHANGED <<lists, comparator, iters, frames>>,
             status' \in {"running", "aborted"},
             last'.answer \in Vals \cup {Self, Undefined, True, False}
      PROVE  IInv' /\ Forward /\ Full
  BY <1>1, <1>3, <1>7, SameListsStep
<1>8. ASSUME NEW k \in Keys, Get(k)  PROVE IInv' /\ Forward /\ Full
  <2>1. UNCHANGED <<lists, comparator, iters, frames, status>>
    BY <1>8 DEF Get
  <2>2. CASE Holds(entries, Same, k)
    <3>1. last'.answer = entries[At(entries, Same, k)].value
      BY <1>8, <2>2 DEF Get, Answer, Call
    <3>2. last'.answer \in Vals
      BY <2>2, <3>1, ScanStopsAtLive
    <3>3. QED  BY <1>1, <1>7, <2>1, <3>2
  <2>3. CASE ~Holds(entries, Same, k)
    <3>1. last'.answer = Undefined
      BY <1>8, <2>3 DEF Get, Answer, Call
    <3>2. QED  BY <1>1, <1>7, <2>1, <3>1
  <2>4. QED  BY <2>2, <2>3
<1>9. ASSUME NEW k \in Keys, Has(k) \/ Delete(k) \/ Crash(k)  PROVE IInv' /\ Forward /\ Full
  <2>1. UNCHANGED <<lists, comparator, iters, frames>>
    BY <1>9 DEF Has, Delete, Crash
  <2>2. status' \in {"running", "aborted"}
    BY <1>1, <1>9 DEF Has, Delete, Crash
  <2>3. last' = last \/ last'.answer \in {True, False}
    BY <1>9 DEF Has, Delete, Crash, Answer, Call, Truth
  <2>4. QED  BY <1>1, <1>7, <2>1, <2>2, <2>3
<1>14. ASSUME UNCHANGED <<lists, frames>>  PROVE Covered' /\ Full
  BY <1>1, <1>14 DEF Covered
<1>10. ASSUME NEW i \in Iterators, IterNew(i)  PROVE IInv' /\ Forward /\ Full
  <2>1. /\ UNCHANGED <<lists, comparator, frames, last, status>>
        /\ iters' = [iters EXCEPT ![i] = NewIter]
    BY <1>10 DEF IterNew
  <2>2. NewIter \in IterType /\ NewIter.list = 0 /\ NewIter.index = 0
    BY DEF NewIter, IterType
  <2>3. iters' \in [Iterators -> IterType] /\ iters'[i] = NewIter
        /\ \A j \in Iterators : j # i => iters'[j] = iters[j]
    BY <1>1, <2>1, <2>2
  <2>4. TypeOK' /\ UniqueKeys'
    BY <1>1, <2>1, <2>3, SameListsStep DEF TypeOK
  <2>5. Placed'
    BY <1>1, <2>1, <2>2, <2>3 DEF Placed
  <2>6. Counted'
    <3>1. Len(lists) # 0 /\ entries' = entries
      BY <2>1 DEF TypeOK, entries
    <3>2. QED  BY <2>1, <2>2, <2>3, <3>1 DEF Counted
  <2>7. Forward
    <3>1. \A j \in Iterators : iters[j].index \in Nat
      BY <1>1 DEF IterType
    <3>2. QED  BY <2>2, <2>3, <3>1
  <2>8. QED  BY <1>14, <2>1, <2>4, <2>5, <2>6, <2>7
<1>11. ASSUME NEW i \in Iterators, IterNext(i)  PROVE IInv' /\ Forward /\ Full
  <2>1. UNCHANGED <<lists, comparator, frames, last, status>>
    BY <1>11 DEF IterNext
  <2>2. /\ iters' \in [Iterators -> IterType]
        /\ \A j \in Iterators : iters'[j].list <= Len(lists)
        /\ Counted' /\ Forward
    BY <1>11, IterNextStep
  <2>3. TypeOK' /\ UniqueKeys'
    BY <1>1, <2>1, <2>2, SameListsStep DEF TypeOK
  <2>4. Placed'
    BY <2>1, <2>2 DEF Placed
  <2>5. QED  BY <1>14, <2>1, <2>2, <2>3, <2>4
<1>12. ASSUME ForEachBegin \/ ForEachNext \/ ForEachEnd  PROVE IInv' /\ Forward /\ Full
  <2>1. UNCHANGED <<lists, comparator, iters, status>>
    BY <1>12 DEF ForEachBegin, ForEachNext, ForEachEnd
  <2>2. last' = last \/ last'.answer = Undefined
    BY <1>12 DEF ForEachBegin, ForEachNext, ForEachEnd, Answer, Call
  <2>3. /\ frames' \in Seq(FrameType)
        /\ \A n \in DOMAIN frames' : Sound(frames'[n])
        /\ Full
    BY <1>12, ForEachStep
  <2>4. TypeOK' /\ UniqueKeys'
    <3>1. UniqueKeys'
      BY <2>1, SameListsStep
    <3>2. TypeOK'
      BY <1>1, <2>1, <2>2, <2>3 DEF TypeOK, FrameType
    <3>3. QED  BY <3>1, <3>2
  <2>5. Placed' /\ Counted' /\ Covered'
    <3>1. entries' = entries
      BY <2>1 DEF entries
    <3>2. QED  BY <2>1, <2>3, <3>1 DEF Placed, Counted, Covered, Sound
  <2>6. QED  BY <1>2, <2>1, <2>3, <2>4, <2>5
<1>13. ASSUME UNCHANGED vars  PROVE IInv' /\ Forward /\ Full
  BY <1>1, <1>7, <1>13 DEF vars
<1> HIDE DEF IInv, Forward, Full
<1>15. IInv' /\ Forward /\ Full
  <2>1. CASE Next
    BY <1>4, <1>5, <1>6, <1>8, <1>9, <1>10, <1>11, <1>12, <2>1, Zenon DEF Next
  <2>2. QED  BY <1>13, <2>1
<1>16. QED  BY <1>15 DEF Forward, Full

-----------------------------------------------------------------------------
THEOREM Invariance == Spec => []IInv
<1>1. IInv /\ [Next]_vars => IInv'
  BY NextInv
<1>2. QED  BY <1>1, InitInv, PTL DEF Spec

(***************************************************************************)
(* Every call leaves the map well formed, and no call returns the magic    *)
(* value that marks a cleared entry.                                       *)
(***************************************************************************)
THEOREM TypeCorrect == Spec => []TypeOK
<1>1. IInv => TypeOK
  BY DEF IInv
<1>2. QED  BY <1>1, Invariance, PTL

(***************************************************************************)
(* No key is ever in the map twice under the map's own comparison, however *)
(* set and clear are interleaved.                                          *)
(***************************************************************************)
THEOREM KeysAreUnique == Spec => []UniqueKeys
<1>1. IInv => UniqueKeys
  BY DEF IInv
<1>2. QED  BY <1>1, Invariance, PTL

(***************************************************************************)
(* No iterator ever goes back, although it finds its place by counting     *)
(* live entries and clear changes the count.                               *)
(***************************************************************************)
THEOREM IteratorsGoForward == Spec => IterForward
<1>1. IInv /\ [Next]_vars =>
        [\A i \in Iterators :
           iters'[i].index > iters[i].index /\ iters'[i].list = iters[i].list
             => iters'[i].pos > iters[i].pos]_vars
  BY NextInv
<1>2. QED  BY <1>1, Invariance, PTL DEF Spec, IterForward

(***************************************************************************)
(* forEach reaches every entry that is in the list when it returns, the    *)
(* ones its callbacks appended included, whatever they cleared, and even   *)
(* if one of them ran the constructor again and headed a new list.         *)
(***************************************************************************)
THEOREM ForEachIsComplete == Spec => ForEachReachesAll
<1>1. IInv /\ [Next]_vars =>
        [Len(frames') < Len(frames) =>
           LET top == frames[Len(frames)]
           IN  Live(lists[top.list]) \subseteq top.seen]_vars
  BY NextInv DEF Reached
<1>2. QED  BY <1>1, Invariance, PTL DEF Spec, ForEachReachesAll

-----------------------------------------------------------------------------
(***************************************************************************)
(* The refinement: the entries that are not blanked are the dictionary a   *)
(* Map promises.  It holds for the keys on which the runtime's comparisons *)
(* are ECMAScript's: not for a zero (SameValueZero takes any double with   *)
(* the high word of +0 for it, and SameValue tells +0 from itself), nor    *)
(* for a number in two representations, as the two NaNs.                   *)
(***************************************************************************)
OneForm ==
  /\ \A k \in Keys : k = Value(k.tag, k.val) /\ ~(IsNumber(k) /\ IsZero(k))
  /\ \A x, y \in Keys : IsNumber(x) /\ IsNumber(y) /\ x.val = y.val => x = y

LEMMA Comparisons ==
  ASSUME OneForm, NEW x \in Keys, NEW y \in Keys
  PROVE  /\ Same(x, y) <=> x = y
         /\ Abstract!SameValueZeroES6(x, y) <=> x = y
<1>1. /\ x = Value(x.tag, x.val) /\ y = Value(y.tag, y.val)
      /\ IsNumber(x) => ~IsZero(x)
      /\ IsNumber(y) => ~IsZero(y)
      /\ IsNumber(x) /\ IsNumber(y) /\ x.val = y.val => x = y
  BY DEF OneForm
<1>2. x.tag = y.tag /\ x.val = y.val => x = y
  BY <1>1 DEF Value
<1>3. x.tag = y.tag => (IsNumber(x) <=> IsNumber(y))
  BY DEF IsNumber
<1>4. SameValue(x, y) <=> x = y
  BY <1>1, <1>2, <1>3 DEF SameValue, NumEq, IsNaN, IsZero
<1>5. SameValueZero(x, y) <=> x = y
  BY <1>1, <1>2, <1>3 DEF SameValueZero, NumEq, IsNaN, IsZero
<1>6. Abstract!IsNumber(x) = IsNumber(x) /\ Abstract!IsNumber(y) = IsNumber(y)
  BY DEF IsNumber, NumberTags, Abstract!IsNumber, Abstract!NumberTags
<1>7. Abstract!SameValueZeroES6(x, y) <=> x = y
  BY <1>1, <1>6 DEF Abstract!SameValueZeroES6, Abstract!SameNumber
<1>8. QED  BY <1>4, <1>5, <1>7 DEF Same

\* A dictionary entry is a live entry of the list, at its rank.
LEMMA DictEntries ==
  ASSUME TypeOK
  PROVE  /\ entries \in Seq(EntryType)
         /\ LiveEntries(entries) \in Seq(EntryType)
         /\ \A p \in Live(entries) :
              /\ entries[p] \in [key: Keys, value: Vals]
              /\ Rank(entries, p) \in DOMAIN LiveEntries(entries)
              /\ LiveEntries(entries)[Rank(entries, p)] = entries[p]
         /\ \A n \in DOMAIN LiveEntries(entries) : \E p \in Live(entries) :
              n = Rank(entries, p) /\ LiveEntries(entries)[n] = entries[p]
<1>1. entries \in Seq(EntryType)
  BY EntriesType
<1>2. \A p \in Live(entries) : entries[p] \in EntryType /\ entries[p] # Tombstone
  BY <1>1 DEF Live, Tombstone, Entry
<1>3. /\ LiveEntries(entries) \in Seq(EntryType)
      /\ Len(LiveEntries(entries)) = Cardinality(Live(entries))
      /\ \A n \in 1..Cardinality(Live(entries)) : \E p \in Live(entries) :
           n = Rank(entries, p) /\ LiveEntries(entries)[n] = entries[p]
  BY <1>1, LiveEntriesType
<1>4. \A p \in Live(entries) :
        /\ Rank(entries, p) \in 1..Cardinality(Live(entries))
        /\ LiveEntries(entries)[Rank(entries, p)] = entries[p]
  BY <1>1, RankType, LiveEntriesAt
<1>5. QED  BY <1>1, <1>2, <1>3, <1>4 DEF EntryType

(***************************************************************************)
(* The scan over the list, tombstones and all, finds a key exactly where   *)
(* the dictionary has it.                                                  *)
(***************************************************************************)
LEMMA ScanIsLookup ==
  ASSUME OneForm, TypeOK, UniqueKeys, NEW k \in Keys, ~ScanAborts(entries, Same, k)
  PROVE  /\ ~Holds(entries, Same, k) => Abstract!Places(k) = {}
         /\ Holds(entries, Same, k) =>
              Abstract!Places(k) = {Rank(entries, At(entries, Same, k))}
<1> DEFINE D == LiveEntries(entries)
           p == At(entries, Same, k)
<1>1. \A n \in DOMAIN D : \E q \in Live(entries) :
        n = Rank(entries, q) /\ D[n] = entries[q] /\ entries[q].key \in Keys
  BY DictEntries
<1>2. Abstract!Places(k) = {n \in DOMAIN D : D[n].key = k}
  BY <1>1, Comparisons DEF Abstract!Places
<1>3. CASE ~Holds(entries, Same, k)
  <2>1. \A i \in Live(entries) : ~Same(entries[i].key, k)
    BY <1>3 DEF Holds, Stops, Live
  <2>2. \A i \in Live(entries) : entries[i].key # k
    BY <2>1, Comparisons
  <2>3. QED  BY <1>1, <1>2, <1>3, <2>2
<1>4. CASE Holds(entries, Same, k)
  <2>1. p \in Live(entries) /\ p \in Nat /\ entries[p].key \in Keys
    BY <1>4, ScanStopsAtLive
  <2>2. Same(entries[p].key, k)
    <3> DEFINE S == {i \in DOMAIN entries :
                       Same(entries[i].key, k) \/ SameAborts(entries[i].key, k)}
    <3>1. S # {} /\ S \in SUBSET Nat
      BY <1>4, EntriesType DEF Holds, Stops
    <3>2. First(S) \in S
      BY <3>1, FirstIsLeast
    <3>3. p = First(S) /\ ~SameAborts(entries[First(S)].key, k)
      BY <1>4 DEF At, Holds, ScanAborts, Stops
    <3>4. QED  BY <3>2, <3>3
  <2>3. entries[p].key = k
    BY <2>1, <2>2, Comparisons
  <2>4. ASSUME NEW q \in Live(entries), entries[q].key = k  PROVE q = p
    <3>1. Same(entries[q].key, entries[p].key) /\ Same(entries[p].key, entries[q].key)
      BY <2>3, <2>4, Comparisons
    <3>2. ~(q < p) /\ ~(p < q)
      BY <2>1, <3>1 DEF UniqueKeys
    <3>3. q \in Nat
      BY EntriesType DEF Live
    <3>4. QED  BY <2>1, <3>2, <3>3
  <2>5. Rank(entries, p) \in DOMAIN D /\ D[Rank(entries, p)] = entries[p]
    BY <2>1, DictEntries
  <2>6. QED  BY <1>1, <1>2, <1>4, <2>3, <2>4, <2>5
<1>5. QED  BY <1>3, <1>4

-----------------------------------------------------------------------------
(***************************************************************************)
(* Each operation is the dictionary's.                                     *)
(***************************************************************************)
LEMMA SetIsPut ==
  ASSUME OneForm, TypeOK, UniqueKeys, NEW k \in Keys, NEW v \in Vals, Set(k, v)
  PROVE  Abstract!Put(k, v)
<1> DEFINE D == LiveEntries(entries)
           p == At(entries, Same, k)
           r == Rank(entries, p)
<1>1. ~ScanAborts(entries, Same, k) /\ Abstract!Answer("put", k, Abstract!Self)
  BY DEF Set, Answer, Call, Self, Value, Abstract!Answer, Abstract!Call,
         Abstract!Self, Abstract!Value
<1>2. entries \in Seq(EntryType) /\ D \in Seq(EntryType)
  BY DictEntries
<1>3. ASSUME NEW es, SetEntries(es)  PROVE entries' = es
  BY <1>3 DEF SetEntries, entries, TypeOK
<1>4. CASE Holds(entries, Same, k)
  <2> DEFINE e  == [entries[p] EXCEPT !.value = v]
             es == [entries EXCEPT ![p] = e]
  <2>1. /\ p \in 1..Len(entries) /\ p \in Live(entries)
        /\ entries[p] \in [key: Keys, value: Vals]
    BY <1>4, ScanStopsAtLive
  <2>2. SetEntries([entries EXCEPT ![p].value = v])
    BY <1>4 DEF Set
  <2>3. [entries EXCEPT ![p].value = v] = es
    BY <1>2
  <2>4. entries' = es
    BY <1>3, <2>2, <2>3
  <2>5. e \in EntryType /\ e.key = entries[p].key /\ e.key # Empty
    BY <2>1 DEF EntryType, Live
  <2> HIDE DEF e
  <2>6. /\ es \in Seq(EntryType) /\ Len(es) = Len(entries) /\ es[p] = e
        /\ \A i \in 1..Len(entries) : i # p => es[i] = entries[i]
    BY <1>2, <2>1, <2>5
  <2> HIDE DEF es
  <2>7. LiveEntries(es) = [D EXCEPT ![r] = e]
    BY <1>2, <2>1, <2>5, <2>6, LiveEntriesRewrite
  <2>8. r \in DOMAIN D /\ D[r] = entries[p]
    BY <2>1, DictEntries
  <2>9. Abstract!Places(k) = {r}
    BY <1>1, <1>4, ScanIsLookup
  <2>10. [D EXCEPT ![r] = e]
           = [i \in DOMAIN D |-> IF i \in {r} THEN [D[i] EXCEPT !.value = v] ELSE D[i]]
    BY <1>2, <2>8 DEF e
  <2>11. QED  BY <1>1, <2>4, <2>7, <2>9, <2>10 DEF Abstract!Put
<1>5. CASE ~Holds(entries, Same, k)
  <2> DEFINE e == Entry(k, v)
  <2>1. SetEntries(Append(entries, e))
    BY <1>5 DEF Set
  <2>2. entries' = Append(entries, e)
    BY <1>3, <2>1
  <2>3. e \in EntryType /\ e.key # Empty /\ e = [key |-> k, value |-> v]
    BY MapAssumption DEF Entry, EntryType
  <2> HIDE DEF e
  <2>4. LiveEntries(Append(entries, e)) = Append(D, e)
    BY <1>2, <2>3, LiveEntriesAppend
  <2>5. Abstract!Places(k) = {}
    BY <1>1, <1>5, ScanIsLookup
  <2>6. QED  BY <1>1, <2>2, <2>3, <2>4, <2>5 DEF Abstract!Put
<1>6. QED  BY <1>4, <1>5

LEMMA LookupsAgree ==
  ASSUME OneForm, TypeOK, UniqueKeys, NEW k \in Keys
  PROVE  /\ Get(k) => Abstract!Get(k)
         /\ Has(k) => Abstract!Has(k)
         /\ Delete(k) => Abstract!RefuseRemove(k)
<1> DEFINE D == LiveEntries(entries)
           p == At(entries, Same, k)
<1>1. UNCHANGED lists => UNCHANGED D
  BY DEF entries
<1>2. Delete(k) => Abstract!RefuseRemove(k)
  BY <1>1 DEF Delete, Answer, Call, False, Value, Abstract!RefuseRemove,
              Abstract!Answer, Abstract!Call, Abstract!False, Abstract!Value
<1>3. Has(k) => Abstract!Has(k)
  <2> SUFFICES ASSUME Has(k)  PROVE Abstract!Has(k)
    OBVIOUS
  <2>1. ~ScanAborts(entries, Same, k) /\ UNCHANGED lists
    BY DEF Has
  <2>2. Holds(entries, Same, k) <=> Abstract!Places(k) # {}
    BY <2>1, ScanIsLookup
  <2>3. Abstract!Answer("has", k, Abstract!Truth(Abstract!Places(k) # {}))
    BY <2>2 DEF Has, Answer, Call, Truth, True, False, Value, Abstract!Answer,
                Abstract!Call, Abstract!Truth, Abstract!True, Abstract!False, Abstract!Value
  <2>4. QED  BY <1>1, <2>1, <2>3 DEF Abstract!Has
<1>4. Get(k) => Abstract!Get(k)
  <2> SUFFICES ASSUME Get(k)  PROVE Abstract!Get(k)
    OBVIOUS
  <2>1. ~ScanAborts(entries, Same, k) /\ UNCHANGED lists
    BY DEF Get
  <2>2. CASE Holds(entries, Same, k)
    <3>1. last' = Call("get", k, entries[p].value)
      BY <2>2 DEF Get, Answer
    <3>2. D[Rank(entries, p)] = entries[p]
      BY <2>2, ScanStopsAtLive, DictEntries
    <3>3. Abstract!Places(k) = {Rank(entries, p)}
      BY <2>1, <2>2, ScanIsLookup
    <3>4. (CHOOSE i \in Abstract!Places(k) : TRUE) = Rank(entries, p)
      BY <3>3
    <3>5. QED  BY <1>1, <2>1, <3>1, <3>2, <3>3, <3>4
               DEF Abstract!Get, Abstract!Answer, Abstract!Call, Call
  <2>3. CASE ~Holds(entries, Same, k)
    <3>1. last' = Call("get", k, Undefined)
      BY <2>3 DEF Get, Answer
    <3>2. Abstract!Places(k) = {}
      BY <2>1, <2>3, ScanIsLookup
    <3>3. QED  BY <1>1, <2>1, <3>1, <3>2
               DEF Abstract!Get, Abstract!Answer, Abstract!Call, Call,
                   Abstract!Undefined, Undefined, Abstract!Value, Value
  <2>4. QED  BY <2>2, <2>3
<1>5. QED  BY <1>2, <1>3, <1>4

\* clear and the constructor leave an empty dictionary.
LEMMA EmptyingSteps ==
  ASSUME TypeOK
  PROVE  /\ Clear => Abstract!Clear
         /\ \A c \in {Undefined, StrIs} : Construct(c) => Abstract!Construct
<1>1. entries \in Seq(EntryType) /\ Len(lists) \in Nat
  BY EntriesType
<1>2. ASSUME Clear  PROVE Abstract!Clear
  <2> DEFINE es == [i \in DOMAIN entries |-> Tombstone]
  <2>1. es \in Seq(EntryType) /\ Live(es) = {}
    BY <1>1 DEF EntryType, Live, Tombstone, Entry
  <2>2. entries' = es
    BY <1>2 DEF Clear, SetEntries, entries, TypeOK
  <2> HIDE DEF es
  <2>3. LiveEntries(entries') = <<>>
    BY <2>1, <2>2, LiveEntriesNone
  <2>4. last' = Call("clear", Undefined, Undefined)
    BY <1>2 DEF Clear, Answer
  <2>5. QED  BY <2>3, <2>4 DEF Abstract!Clear, Abstract!Answer, Abstract!Call, Call,
                            Abstract!Undefined, Undefined, Abstract!Value, Value
<1>3. ASSUME NEW c \in {Undefined, StrIs}, Construct(c)  PROVE Abstract!Construct
  <2>1. entries' = <<>>
    BY <1>1, <1>3, AppendProperties DEF Construct, entries, TypeOK
  <2>2. <<>> \in Seq(EntryType) /\ Live(<<>>) = {}
    BY DEF Live
  <2>3. LiveEntries(entries') = <<>>
    BY <2>1, <2>2, LiveEntriesNone
  <2>4. last' = Call("construct", Undefined, Self)
    BY <1>3 DEF Construct, Answer
  <2>5. QED  BY <2>3, <2>4 DEF Abstract!Construct, Abstract!Answer, Abstract!Call, Call, Self,
                 Abstract!Self, Abstract!Undefined, Undefined, Abstract!Value, Value
<1>4. QED  BY <1>2, <1>3

(***************************************************************************)
(* forEach is a call of the dictionary when it returns; its callbacks, the *)
(* iterators and the end of the process are no calls of it.                *)
(***************************************************************************)
LEMMA WalksAndIterators ==
  ASSUME UNCHANGED lists,
         \/ UNCHANGED last
         \/ last' = Call("forEach", Undefined, Undefined)
  PROVE  UNCHANGED Abstract!vars \/ Abstract!ForEach
<1>1. UNCHANGED LiveEntries(entries)
  BY DEF entries
<1>2. QED  BY <1>1 DEF Abstract!vars, Abstract!ForEach, Abstract!Answer, Abstract!Call, Call,
                    Abstract!Undefined, Undefined, Abstract!Value, Value

LEMMA NextRefines ==
  ASSUME OneForm, IInv, [Next]_vars
  PROVE  [Abstract!Calls \/ \E k \in Keys : Abstract!RefuseRemove(k)]_(Abstract!vars)
<1> DEFINE Goal == \/ Abstract!Calls
                   \/ \E k \in Keys : Abstract!RefuseRemove(k)
                   \/ UNCHANGED Abstract!vars
<1>1. TypeOK /\ UniqueKeys
  BY DEF IInv
<1>2. ASSUME NEW k \in Keys, NEW v \in Vals, Set(k, v)  PROVE Goal
  BY <1>1, <1>2, SetIsPut DEF Abstract!Calls
<1>3. ASSUME NEW k \in Keys, Get(k) \/ Has(k) \/ Delete(k)  PROVE Goal
  BY <1>1, <1>3, LookupsAgree DEF Abstract!Calls
<1>4. ASSUME Clear \/ \E c \in {Undefined, StrIs} : Construct(c)  PROVE Goal
  BY <1>1, <1>4, EmptyingSteps DEF Abstract!Calls
<1>5. ASSUME \/ \E k \in Keys : Crash(k)
             \/ \E i \in Iterators : IterNew(i) \/ IterNext(i)
             \/ ForEachBegin \/ ForEachNext \/ ForEachEnd
             \/ UNCHANGED vars
      PROVE  Goal
  <2>1. UNCHANGED lists
    BY <1>5 DEF Crash, IterNew, IterNext, ForEachBegin, ForEachNext, ForEachEnd, vars
  <2>2. UNCHANGED last \/ last' = Call("forEach", Undefined, Undefined)
    BY <1>5 DEF Crash, IterNew, IterNext, ForEachBegin, ForEachNext, ForEachEnd, vars, Answer
  <2>3. QED  BY <2>1, <2>2, WalksAndIterators DEF Abstract!Calls
<1> HIDE DEF Goal
<1>6. Goal
  BY <1>2, <1>3, <1>4, <1>5, Zenon DEF Next
<1>7. QED  BY <1>6 DEF Goal

(***************************************************************************)
(* The Map implements the ordered dictionary, whatever its clear leaves in *)
(* the list, whichever comparator it was made with, and however calls,     *)
(* iterators and callbacks are interleaved: no call ever answers anything  *)
(* the dictionary would not.                                               *)
(***************************************************************************)
THEOREM MapIsOrderedMap ==
  ASSUME OneForm
  PROVE  Spec => ImplementsOrderedMap
<1>1. Init => Abstract!Init
  <2> SUFFICES ASSUME Init  PROVE Abstract!Init
    OBVIOUS
  <2>1. entries = <<>> /\ <<>> \in Seq(EntryType) /\ Live(<<>>) = {}
    BY DEF Init, entries, Live
  <2>2. LiveEntries(entries) = <<>>
    BY <2>1, LiveEntriesNone
  <2>3. QED  BY <2>2 DEF Init, Abstract!Init, Abstract!Call, Call, Abstract!Undefined,
                      Undefined, Abstract!Value, Value
<1>2. IInv /\ [Next]_vars =>
        [Abstract!Calls \/ \E k \in Keys : Abstract!RefuseRemove(k)]_(Abstract!vars)
  BY OneForm, NextRefines
<1>3. QED  BY <1>1, <1>2, Invariance, PTL
           DEF Spec, ImplementsOrderedMap, Abstract!SpecWithoutDelete
=============================================================================
