------------------------- MODULE PropertyMap_proofs -------------------------
(***************************************************************************)
(* Proofs about PropertyMap: what a chain of entries is, what each         *)
(* operation makes of the chains, and from that the two linkings, the load *)
(* and the walks.                                                          *)
(***************************************************************************)
EXTENDS PropertyMap, FiniteSetTheorems, SequenceTheorems, WellFoundedInduction,
        TLAPS

\* The entry after the i-th of s, or the null pointer.
NextOf(s, i) == IF i < Len(s) THEN s[i + 1] ELSE NULL

\* Following `link' in h from n on passes the entries of s, once each, and ends.
IsChain(h, s, n, link) ==
  /\ s \in Seq(DOMAIN h)
  /\ n = NextOf(s, 0)
  /\ \A i \in 1 .. Len(s) : h[s[i]][link] = NextOf(s, i)
  /\ \A i, j \in 1 .. Len(s) : s[i] = s[j] => i = j

Entry == [name : Names, desc : Descs, next_insert : Pointer, next_bucket : Pointer]

IsHeap(h) ==
  /\ DOMAIN h \in SUBSET Nodes
  /\ IsFiniteSet(DOMAIN h)
  /\ h \in [DOMAIN h -> Entry]

Links == {"next_insert", "next_bucket"}

-----------------------------------------------------------------------------
\* A set of naturals that is not empty has a least element.
LEMMA LeastNatural ==
  ASSUME NEW S \in SUBSET Nat, S # {}
  PROVE  \E n \in S : \A m \in S : n <= m
<1>1. PICK n \in S : \A m \in S : ~(<<m, n>> \in OpToRel(<, Nat))
  BY NatLessThanWellFounded, WFMin
<1>2. ASSUME NEW m \in S, m < n PROVE <<m, n>> \in OpToRel(<, Nat)
  BY <1>2, <<m, n>> \in Nat \X Nat, <<m, n>>[1] < <<m, n>>[2] DEF OpToRel
<1>3. ASSUME NEW m \in S PROVE ~(m < n)
  BY <1>1, <1>2, Zenon
<1> QED
  BY <1>3

LEMMA FunctionIsSeq ==
  ASSUME NEW S, NEW n \in Nat, NEW f \in [1 .. n -> S]
  PROVE  f \in Seq(S) /\ Len(f) = n /\ DOMAIN f = 1 .. n
OBVIOUS

LEMMA LeastIs ==
  ASSUME NEW S \in SUBSET Nat, S # {}
  PROVE  Least(S) \in S /\ \A m \in S : Least(S) <= m
BY LeastNatural DEF Least

\* Of the naturals up to a bound that S holds there is a greatest.
LEMMA GreatestIs ==
  ASSUME NEW p \in Nat, NEW S \in SUBSET (1 .. p), S # {}
  PROVE  Greatest(S) \in S /\ \A m \in S : m <= Greatest(S)
<1> DEFINE T == {p - m : m \in S}
<1>1. T \in SUBSET Nat /\ T # {}
  <2>1. \A m \in S : p - m \in Nat
    OBVIOUS
  <2>2. PICK m \in S : TRUE
    OBVIOUS
  <2>3. p - m \in T
    OBVIOUS
  <2> QED
    BY <2>1, <2>3
<1>2. PICK t \in T : \A m \in T : t <= m
  <2> HIDE DEF T
  <2> QED
    BY <1>1, LeastNatural
<1>3. PICK n \in S : t = p - n
  BY <1>2
<1>4. \A m \in S : m <= n
  <2> TAKE m \in S
  <2>1. p - m \in T
    OBVIOUS
  <2> QED
    BY <1>2, <1>3, <2>1
<1> QED
  BY <1>3, <1>4 DEF Greatest

\* A sequence without repetition of elements of a finite set is no longer
\* than the set.
LEMMA ShortSequence ==
  ASSUME NEW T, IsFiniteSet(T), NEW s \in Seq(T),
         \A i, j \in 1 .. Len(s) : s[i] = s[j] => i = j
  PROVE  /\ Len(s) <= Cardinality(T)
         /\ Elements(s) = T => Len(s) = Cardinality(T)
<1>1. Len(s) \in Nat /\ Cardinality(T) \in Nat /\ DOMAIN s = 1 .. Len(s)
  BY FS_CardinalityType
<1>2. s \in Injection(1 .. Len(s), T)
  <2>1. s \in [1 .. Len(s) -> T]
    BY <1>1
  <2> QED
    BY <2>1 DEF Injection, IsInjective
<1>3. Cardinality(1 .. Len(s)) = Len(s)
  <2>1. Len(s) \in Int /\ 1 \in Int
    BY <1>1
  <2>2. Cardinality(1 .. Len(s)) = IF 1 > Len(s) THEN 0 ELSE Len(s) - 1 + 1
    BY <2>1, FS_Interval
  <2> QED
    BY <1>1, <2>2
<1>4. /\ Cardinality(1 .. Len(s)) <= Cardinality(T)
      /\ Cardinality(1 .. Len(s)) = Cardinality(T) <=> s \in Surjection(1 .. Len(s), T)
  BY <1>2, FS_Injection
<1>5. Elements(s) = T => s \in Surjection(1 .. Len(s), T)
  BY <1>1 DEF Surjection, Elements
<1> QED
  BY <1>3, <1>4, <1>5

\* There is one way only to follow a link: a chain is what ChainIn computes.
LEMMA ChainIsUnique ==
  ASSUME NEW h, IsHeap(h), NEW s, NEW n, NEW link, IsChain(h, s, n, link)
  PROVE  ChainIn(h, n, link) = s
<1> DEFINE size == Cardinality(DOMAIN h)
           follows == [m \in Pointer |-> IF m \in DOMAIN h THEN h[m][link] ELSE NULL]
           g == [k \in 0 .. size |-> NextOf(s, k)]
           Step(f) == f = [k \in 0 .. size |-> IF k = 0 THEN n ELSE follows[f[k - 1]]]
           at == CHOOSE f : Step(f)
           Ends == {k \in 0 .. size : at[k] = NULL \/ k = size}
<1>1. /\ size \in Nat /\ Len(s) \in Nat /\ Len(s) <= size
      /\ NULL \notin DOMAIN h /\ DOMAIN h \subseteq Pointer /\ NULL \in Pointer
      /\ \A i \in 1 .. Len(s) : s[i] \in DOMAIN h
      /\ DOMAIN s = 1 .. Len(s)
  BY ShortSequence, FS_CardinalityType, PropertyMapAssumption
  DEF IsHeap, IsChain, Pointer
<1>2. Step(g)
  <2>1. ASSUME NEW k \in 0 .. size, k # 0
        PROVE  NextOf(s, k) = follows[g[k - 1]]
    <3>0. k - 1 \in 0 .. size /\ g[k - 1] = NextOf(s, k - 1)
      BY <1>1, <2>1
    <3>1. CASE k <= Len(s)
      <4>1. NextOf(s, k - 1) = s[k] /\ s[k] \in DOMAIN h /\ k \in 1 .. Len(s)
        BY <1>1, <2>1, <3>1 DEF NextOf
      <4>2. follows[s[k]] = h[s[k]][link]
        BY <1>1, <4>1
      <4> QED
        BY <3>0, <4>1, <4>2 DEF IsChain
    <3>2. CASE ~(k <= Len(s))
      <4>1. NextOf(s, k - 1) = NULL /\ NextOf(s, k) = NULL
        BY <1>1, <2>1, <3>2 DEF NextOf
      <4> QED
        BY <1>1, <3>0, <4>1
    <3> QED
      BY <3>1, <3>2
  <2>2. 0 \in 0 .. size /\ NextOf(s, 0) = n
    BY <1>1 DEF IsChain
  <2> HIDE DEF follows
  <2>3. \A k \in 0 .. size : NextOf(s, k) = IF k = 0 THEN n ELSE follows[g[k - 1]]
    BY <2>1, <2>2
  <2> QED
    BY <2>3
<1>3. ASSUME NEW f, Step(f) PROVE \A k \in 0 .. size : f[k] = g[k]
  <2> DEFINE S == {k \in 0 .. size : f[k] # g[k]}
  <2> HIDE DEF g, follows, size
  <2>1. SUFFICES ASSUME S # {} PROVE FALSE
    OBVIOUS
  <2>2. S \in SUBSET Nat
    BY <1>1
  <2>3. PICK k \in S : \A m \in S : k <= m
    <3> HIDE DEF S
    <3> QED
      BY <2>1, <2>2, LeastNatural
  <2>4. k \in 0 .. size /\ f[k] # g[k]
    BY <2>3
  <2>5. f[k] = IF k = 0 THEN n ELSE follows[f[k - 1]]
    BY <1>3, <2>4
  <2>6. g[k] = IF k = 0 THEN n ELSE follows[g[k - 1]]
    BY <1>2, <2>4
  <2>7. k # 0 /\ k - 1 \in 0 .. size /\ ~(k <= k - 1)
    BY <1>1, <2>4, <2>5, <2>6
  <2>8. f[k - 1] = g[k - 1]
    BY <2>3, <2>7
  <2> QED
    BY <2>4, <2>5, <2>6, <2>7, <2>8
<1>4. \A k \in 0 .. size : at[k] = NextOf(s, k)
  <2>1. Step(at)
    <3> HIDE DEF g
    <3> QED
      BY <1>2
  <2> HIDE DEF at
  <2> QED
    BY <1>3, <2>1
<1>5. ChainIn(h, n, link) = [i \in 1 .. Least(Ends) |-> at[i - 1]]
  BY DEF ChainIn
<1>6. Least(Ends) = Len(s)
  <2>1. Ends \in SUBSET Nat
    BY <1>1
  <2>2. Len(s) \in Ends
    BY <1>1, <1>4 DEF NextOf
  <2>3. ASSUME NEW k \in Ends PROVE Len(s) <= k
    <3>1. k \in 0 .. size /\ (NextOf(s, k) = NULL \/ k = size)
      BY <1>4
    <3>2. CASE k < Len(s)
      <4>1. NextOf(s, k) = s[k + 1] /\ k + 1 \in 1 .. Len(s)
        BY <1>1, <3>1, <3>2 DEF NextOf
      <4> QED
        BY <1>1, <3>1, <3>2, <4>1
    <3> QED
      BY <1>1, <3>1, <3>2
  <2>4. Least(Ends) \in Ends /\ \A m \in Ends : Least(Ends) <= m
    <3> HIDE DEF Ends
    <3> QED
      BY <2>1, <2>2, LeastIs
  <2>5. Least(Ends) \in Nat
    BY <2>1, <2>4
  <2> HIDE DEF Ends
  <2>6. Least(Ends) <= Len(s) /\ Len(s) <= Least(Ends)
    BY <2>2, <2>3, <2>4
  <2> QED
    BY <1>1, <2>5, <2>6
<1>7. ASSUME NEW i \in 1 .. Len(s) PROVE at[i - 1] = s[i]
  <2>1. i - 1 \in 0 .. size /\ NextOf(s, i - 1) = s[i]
    BY <1>1 DEF NextOf
  <2> QED
    BY <1>4, <2>1
<1> HIDE DEF at, Ends, size
<1>8. s = [i \in 1 .. Len(s) |-> s[i]]
  BY <1>1 DEF IsChain
<1>9. ChainIn(h, n, link) = [i \in 1 .. Len(s) |-> at[i - 1]]
  BY <1>5, <1>6
<1>10. [i \in 1 .. Len(s) |-> at[i - 1]] = [i \in 1 .. Len(s) |-> s[i]]
  BY <1>7
<1> QED
  BY <1>8, <1>9, <1>10
-----------------------------------------------------------------------------
\* Allocating, and writing to, entries off a chain leaves the chain alone.
LEMMA ChainIsKept ==
  ASSUME NEW h, NEW s, NEW n, NEW link, IsChain(h, s, n, link),
         NEW h2, DOMAIN h \subseteq DOMAIN h2,
         \A m \in Elements(s) : h2[m][link] = h[m][link]
  PROVE  IsChain(h2, s, n, link)
<1>1. s \in Seq(DOMAIN h2) /\ DOMAIN s = 1 .. Len(s)
  <2>1. s \in Seq(DOMAIN h) /\ DOMAIN s = 1 .. Len(s) /\ Len(s) \in Nat
    BY DEF IsChain
  <2>2. s \in [1 .. Len(s) -> DOMAIN h2]
    BY <2>1
  <2> QED
    BY <2>1, <2>2
<1>2. \A i \in 1 .. Len(s) : h2[s[i]][link] = h[s[i]][link]
  BY <1>1 DEF Elements
<1> QED
  BY <1>1, <1>2 DEF IsChain

\* An entry off a chain that links to its first one is the first of a longer one.
LEMMA ChainPushed ==
  ASSUME NEW h, NEW s, NEW n, NEW link, IsChain(h, s, n, link),
         NEW x \in DOMAIN h, x \notin Elements(s), h[x][link] = n
  PROVE  /\ IsChain(h, <<x>> \o s, x, link)
         /\ Elements(<<x>> \o s) = Elements(s) \cup {x}
<1> DEFINE t == <<x>> \o s
<1>1. s \in Seq(DOMAIN h) /\ DOMAIN s = 1 .. Len(s) /\ Len(s) \in Nat
  BY DEF IsChain
<1>2. /\ t \in Seq(DOMAIN h) /\ Len(t) = 1 + Len(s) /\ DOMAIN t = 1 .. (1 + Len(s))
      /\ \A i \in 1 .. Len(t) : t[i] = IF i = 1 THEN x ELSE s[i - 1]
  BY <1>1
<1> HIDE DEF t
<1>3. x = NextOf(t, 0)
  BY <1>1, <1>2 DEF NextOf
<1>4. ASSUME NEW i \in 1 .. Len(t) PROVE h[t[i]][link] = NextOf(t, i)
  <2>1. CASE i = 1
    <3>1. NextOf(t, 1) = NextOf(s, 0)
      BY <1>1, <1>2 DEF NextOf
    <3> QED
      BY <1>1, <1>2, <2>1, <3>1 DEF IsChain
  <2>2. CASE i # 1
    <3>1. i - 1 \in 1 .. Len(s) /\ t[i] = s[i - 1]
      BY <1>1, <1>2, <2>2
    <3>2. NextOf(t, i) = NextOf(s, i - 1)
      <4>1. i < Len(t) <=> i - 1 < Len(s)
        BY <1>1, <1>2
      <4>2. i < Len(t) => t[i + 1] = s[(i - 1) + 1]
        <5>1. i < Len(t) => i + 1 \in 1 .. Len(t) /\ i + 1 # 1
          BY <1>1, <1>2
        <5>2. (i + 1) - 1 = (i - 1) + 1
          BY <1>1, <1>2
        <5> QED
          BY <1>2, <5>1, <5>2
      <4> QED
        BY <4>1, <4>2 DEF NextOf
    <3> QED
      BY <3>1, <3>2 DEF IsChain
  <2> QED
    BY <2>1, <2>2
<1>5. \A i \in 1 .. Len(s) : s[i] # x
  BY <1>1 DEF Elements
<1>6. ASSUME NEW i \in 1 .. Len(t), NEW j \in 1 .. Len(t), t[i] = t[j] PROVE i = j
  <2>1. CASE i = 1 \/ j = 1
    <3>1. ASSUME NEW k \in 1 .. Len(t), k # 1 PROVE t[k] # x
      <4>1. k - 1 \in 1 .. Len(s) /\ t[k] = s[k - 1]
        BY <1>1, <1>2, <3>1
      <4> QED
        BY <1>5, <4>1
    <3>2. t[i] = x \/ t[j] = x
      BY <1>2, <2>1
    <3> QED
      BY <1>6, <2>1, <3>1, <3>2
  <2>2. CASE i # 1 /\ j # 1
    <3>1. i - 1 \in 1 .. Len(s) /\ j - 1 \in 1 .. Len(s) /\ s[i - 1] = s[j - 1]
      BY <1>1, <1>2, <1>6, <2>2
    <3>2. i - 1 = j - 1
      BY <3>1 DEF IsChain
    <3> QED
      BY <1>2, <3>2
  <2> QED
    BY <2>1, <2>2
<1>7. IsChain(h, t, x, link)
  BY <1>2, <1>3, <1>4, <1>6 DEF IsChain
<1>8. Elements(t) = Elements(s) \cup {x}
  <2>1. Elements(t) \subseteq Elements(s) \cup {x}
    BY <1>1, <1>2 DEF Elements
  <2>2. x \in Elements(t)
    <3>1. 1 \in DOMAIN t /\ t[1] = x
      BY <1>1, <1>2
    <3> QED
      BY <3>1 DEF Elements
  <2>3. ASSUME NEW i \in DOMAIN s PROVE s[i] \in Elements(t)
    <3>1. i + 1 \in DOMAIN t /\ t[i + 1] = s[i]
      BY <1>1, <1>2
    <3> QED
      BY <3>1 DEF Elements
  <2> QED
    BY <2>1, <2>2, <2>3 DEF Elements
<1> QED
  BY <1>7, <1>8 DEF t

\* A new entry that the last one of a chain links to ends the longer chain.
LEMMA ChainAppended ==
  ASSUME NEW h, IsHeap(h), NEW s, NEW n, NEW link, IsChain(h, s, n, link),
         NEW x, x \notin DOMAIN h, NEW h2, DOMAIN h2 = DOMAIN h \cup {x},
         h2[x][link] = NULL,
         \A m \in DOMAIN h : h2[m][link] = IF m = LastOf(s) THEN x ELSE h[m][link]
  PROVE  /\ IsChain(h2, Append(s, x), IF n = NULL THEN x ELSE n, link)
         /\ Elements(Append(s, x)) = Elements(s) \cup {x}
         /\ LastOf(Append(s, x)) = x
<1> DEFINE t == Append(s, x)
           first == IF n = NULL THEN x ELSE n
<1>1. /\ s \in Seq(DOMAIN h) /\ DOMAIN s = 1 .. Len(s) /\ Len(s) \in Nat
      /\ s \in Seq(DOMAIN h2) /\ NULL \notin DOMAIN h
      /\ \A i \in 1 .. Len(s) : s[i] \in DOMAIN h
  <2>1. s \in Seq(DOMAIN h) /\ DOMAIN s = 1 .. Len(s) /\ Len(s) \in Nat
    BY DEF IsChain
  <2>2. s \in [1 .. Len(s) -> DOMAIN h2]
    BY <2>1
  <2>3. NULL \notin DOMAIN h
    BY PropertyMapAssumption DEF IsHeap
  <2> QED
    BY <2>1, <2>2, <2>3
<1>2. /\ t \in Seq(DOMAIN h2) /\ Len(t) = Len(s) + 1 /\ DOMAIN t = 1 .. (Len(s) + 1)
      /\ \A i \in 1 .. Len(s) : t[i] = s[i]
      /\ t[Len(s) + 1] = x
  BY <1>1, AppendProperties
<1> HIDE DEF t
<1>3. first = NextOf(t, 0)
  <2>1. CASE s = <<>>
    <3>1. n = NULL /\ Len(s) = 0
      BY <1>1, <2>1 DEF IsChain, NextOf
    <3> QED
      BY <1>2, <3>1 DEF NextOf
  <2>2. CASE s # <<>>
    <3>1. 1 \in 1 .. Len(s) /\ 0 < Len(s)
      BY <1>1, <2>2
    <3>2. n = s[1] /\ n # NULL
      BY <1>1, <3>1 DEF IsChain, NextOf
    <3> QED
      BY <1>1, <1>2, <3>1, <3>2 DEF NextOf
  <2> QED
    BY <2>1, <2>2
<1>4. ASSUME NEW i \in 1 .. Len(t) PROVE h2[t[i]][link] = NextOf(t, i)
  <2>1. CASE i = Len(s) + 1
    BY <1>1, <1>2, <2>1 DEF NextOf
  <2>2. CASE i = Len(s)
    <3>1. t[i] = s[i] /\ s[i] \in DOMAIN h
      BY <1>1, <1>2, <2>2
    <3>2. LastOf(s) = s[i]
      BY <1>1, <1>2, <2>2 DEF LastOf
    <3>3. NextOf(t, i) = x
      BY <1>1, <1>2, <2>2 DEF NextOf
    <3> QED
      BY <3>1, <3>2, <3>3
  <2>3. CASE i < Len(s)
    <3>1. /\ i \in 1 .. Len(s) /\ t[i] = s[i] /\ s[i] \in DOMAIN h
          /\ NextOf(t, i) = s[i + 1] /\ NextOf(s, i) = s[i + 1]
      BY <1>1, <1>2, <2>3 DEF NextOf
    <3>2. LastOf(s) = s[Len(s)] /\ Len(s) \in 1 .. Len(s)
      BY <1>1, <2>3 DEF LastOf
    <3>3. s[i] # LastOf(s)
      BY <1>1, <2>3, <3>1, <3>2 DEF IsChain
    <3> QED
      BY <3>1, <3>3 DEF IsChain
  <2>4. i = Len(s) + 1 \/ i = Len(s) \/ i < Len(s)
    <3>1. i \in 1 .. (Len(s) + 1) /\ Len(s) \in Nat
      BY <1>1, <1>2
    <3> QED
      BY <3>1
  <2> QED
    BY <2>1, <2>2, <2>3, <2>4, Zenon
<1>5. ASSUME NEW i \in 1 .. Len(t), NEW j \in 1 .. Len(t), t[i] = t[j] PROVE i = j
  <2>1. \A k \in 1 .. Len(s) : t[k] # x
    BY <1>1, <1>2
  <2>2. CASE i = Len(s) + 1 \/ j = Len(s) + 1
    BY <1>1, <1>2, <1>5, <2>1, <2>2
  <2>3. CASE i # Len(s) + 1 /\ j # Len(s) + 1
    <3>1. i \in 1 .. Len(s) /\ j \in 1 .. Len(s) /\ s[i] = s[j]
      BY <1>1, <1>2, <1>5, <2>3
    <3> QED
      BY <3>1 DEF IsChain
  <2> QED
    BY <2>2, <2>3
<1>6. IsChain(h2, t, first, link)
  <2> HIDE DEF first
  <2> QED
    BY <1>2, <1>3, <1>4, <1>5 DEF IsChain
<1>7. Elements(t) = Elements(s) \cup {x}
  <2>1. Elements(t) \subseteq Elements(s) \cup {x}
    <3> SUFFICES ASSUME NEW i \in DOMAIN t PROVE t[i] \in Elements(s) \cup {x}
      BY DEF Elements
    <3>1. CASE i = Len(s) + 1
      BY <1>2, <3>1
    <3>2. CASE i # Len(s) + 1
      <4>1. i \in DOMAIN s /\ t[i] = s[i]
        BY <1>1, <1>2, <3>2
      <4> QED
        BY <4>1 DEF Elements
    <3> QED
      BY <3>1, <3>2
  <2>2. x \in Elements(t)
    <3>1. Len(s) + 1 \in DOMAIN t /\ t[Len(s) + 1] = x
      BY <1>1, <1>2
    <3> QED
      BY <3>1 DEF Elements
  <2>3. ASSUME NEW i \in DOMAIN s PROVE s[i] \in Elements(t)
    <3>1. i \in DOMAIN t /\ t[i] = s[i]
      BY <1>1, <1>2
    <3> QED
      BY <3>1 DEF Elements
  <2> QED
    BY <2>1, <2>2, <2>3 DEF Elements
<1>8. LastOf(t) = x
  BY <1>1, <1>2 DEF LastOf
<1> QED
  BY <1>6, <1>7, <1>8 DEF t, first
-----------------------------------------------------------------------------
\* What is left of s when its p-th is taken out.
Dropped(s, p) == [i \in 1 .. Len(s) - 1 |-> IF i < p THEN s[i] ELSE s[i + 1]]

LEMMA DroppedIs ==
  ASSUME NEW T, NEW s \in Seq(T), NEW p \in 1 .. Len(s),
         \A i, j \in 1 .. Len(s) : s[i] = s[j] => i = j
  PROVE  /\ Dropped(s, p) \in Seq(T \ {s[p]})
         /\ Len(Dropped(s, p)) = Len(s) - 1
         /\ DOMAIN Dropped(s, p) = 1 .. (Len(s) - 1)
         /\ Elements(Dropped(s, p)) = Elements(s) \ {s[p]}
<1> DEFINE t == Dropped(s, p)
<1>1. Len(s) \in Nat /\ DOMAIN s = 1 .. Len(s) /\ Len(s) - 1 \in Nat /\ p \in Int
  OBVIOUS
<1>2. \A i \in 1 .. (Len(s) - 1) : t[i] = IF i < p THEN s[i] ELSE s[i + 1]
  BY DEF Dropped
<1>3. ASSUME NEW i \in 1 .. (Len(s) - 1) PROVE t[i] \in T \ {s[p]}
  <2>1. CASE i < p
    BY <1>1, <1>2, <2>1
  <2>2. CASE ~(i < p)
    BY <1>1, <1>2, <2>2
  <2> QED
    BY <2>1, <2>2
<1>4. /\ t \in Seq(T \ {s[p]}) /\ Len(t) = Len(s) - 1
      /\ DOMAIN t = 1 .. (Len(s) - 1)
  <2>1. t \in [1 .. (Len(s) - 1) -> T \ {s[p]}]
    BY <1>3 DEF Dropped
  <2> HIDE DEF t
  <2> QED
    BY <1>1, <2>1, FunctionIsSeq
<1>5. Elements(t) \subseteq Elements(s) \ {s[p]}
  <2> SUFFICES ASSUME NEW i \in 1 .. (Len(s) - 1) PROVE t[i] \in Elements(s) \ {s[p]}
    BY <1>4 DEF Elements
  <2>1. \E j \in DOMAIN s : t[i] = s[j]
    BY <1>1, <1>2
  <2> QED
    BY <1>3, <2>1 DEF Elements
<1>6. Elements(s) \ {s[p]} \subseteq Elements(t)
  <2> SUFFICES ASSUME NEW j \in DOMAIN s, s[j] # s[p] PROVE s[j] \in Elements(t)
    BY DEF Elements
  <2>1. CASE j < p
    <3>1. j \in DOMAIN t /\ t[j] = s[j]
      BY <1>1, <1>2, <1>4, <2>1
    <3> QED
      BY <3>1 DEF Elements
  <2>2. CASE j > p
    <3>1. j - 1 \in DOMAIN t /\ t[j - 1] = s[j]
      BY <1>1, <1>2, <1>4, <2>2
    <3> QED
      BY <3>1 DEF Elements
  <2>3. j < p \/ j > p
    BY <1>1
  <2> QED
    BY <2>1, <2>2, <2>3
<1> QED
  BY <1>4, <1>5, <1>6

\* Unlinking x leaves the other entries, and redirects the links to x.
LEMMA UnlinkedEntry ==
  ASSUME NEW h, IsHeap(h), NEW x \in DOMAIN h, NEW m \in DOMAIN h \ {x}
  PROVE  /\ Unlink(h, x)[m] \in Entry
         /\ Unlink(h, x)[m].name = h[m].name
         /\ Unlink(h, x)[m].desc = h[m].desc
         /\ Unlink(h, x)[m].next_insert =
              IF h[m].next_insert = x THEN h[x].next_insert ELSE h[m].next_insert
         /\ Unlink(h, x)[m].next_bucket =
              IF h[m].next_bucket = x THEN h[x].next_bucket ELSE h[m].next_bucket
<1> DEFINE u == Unlink(h, x)
<1>1. h[m] \in Entry /\ h[x] \in Entry
  BY DEF IsHeap
<1>2. u[m] = [h[m] EXCEPT
                !.next_bucket = IF h[m].next_bucket = x THEN h[x].next_bucket
                                ELSE h[m].next_bucket,
                !.next_insert = IF h[m].next_insert = x THEN h[x].next_insert
                                ELSE h[m].next_insert]
  BY DEF Unlink
<1> HIDE DEF u
<1>3. /\ u[m] \in Entry /\ u[m].name = h[m].name /\ u[m].desc = h[m].desc
      /\ u[m].next_insert =
           IF h[m].next_insert = x THEN h[x].next_insert ELSE h[m].next_insert
      /\ u[m].next_bucket =
           IF h[m].next_bucket = x THEN h[x].next_bucket ELSE h[m].next_bucket
  BY <1>1, <1>2 DEF Entry
<1> QED
  BY <1>3 DEF u

LEMMA UnlinkedLink ==
  ASSUME NEW h, IsHeap(h), NEW x \in DOMAIN h, NEW m \in DOMAIN h \ {x},
         NEW link \in Links
  PROVE  Unlink(h, x)[m][link] = IF h[m][link] = x THEN h[x][link] ELSE h[m][link]
<1>1. link = "next_insert" \/ link = "next_bucket"
  BY DEF Links
<1> QED
  BY <1>1, UnlinkedEntry

LEMMA UnlinkedHeap ==
  ASSUME NEW h, IsHeap(h), NEW x \in DOMAIN h
  PROVE  IsHeap(Unlink(h, x)) /\ DOMAIN Unlink(h, x) = DOMAIN h \ {x}
<1> DEFINE u == Unlink(h, x)
<1>1. DOMAIN u = DOMAIN h \ {x}
  BY DEF Unlink
<1>2. IsFiniteSet(DOMAIN u) /\ DOMAIN u \in SUBSET Nodes
  BY <1>1, FS_Subset DEF IsHeap
<1>3. u \in [DOMAIN u -> Entry]
  <2>1. u = [m \in DOMAIN u |-> u[m]]
    BY DEF Unlink
  <2>2. \A m \in DOMAIN u : u[m] \in Entry
    BY <1>1, UnlinkedEntry
  <2> HIDE DEF u
  <2> QED
    BY <2>1, <2>2
<1> QED
  BY <1>1, <1>2, <1>3 DEF IsHeap

\* A chain without x is the same after x is unlinked.
LEMMA UnlinkedOff ==
  ASSUME NEW h, IsHeap(h), NEW x \in DOMAIN h, NEW link \in Links,
         NEW s, NEW n, IsChain(h, s, n, link), x \notin Elements(s)
  PROVE  IsChain(Unlink(h, x), s, n, link) /\ n # x
<1>1. /\ s \in Seq(DOMAIN h) /\ DOMAIN s = 1 .. Len(s) /\ Len(s) \in Nat
      /\ \A i \in 1 .. Len(s) : s[i] \in DOMAIN h \ {x}
  BY DEF IsChain, Elements
<1>2. s \in Seq(DOMAIN h \ {x})
  <2>1. s \in [1 .. Len(s) -> DOMAIN h \ {x}]
    BY <1>1
  <2> QED
    BY <1>1, <2>1
<1>3. NULL # x
  BY PropertyMapAssumption DEF IsHeap
<1>4. ASSUME NEW i \in 0 .. Len(s) PROVE NextOf(s, i) # x
  BY <1>1, <1>3 DEF NextOf
<1>5. ASSUME NEW i \in 1 .. Len(s) PROVE Unlink(h, x)[s[i]][link] = NextOf(s, i)
  <2>1. h[s[i]][link] = NextOf(s, i) /\ NextOf(s, i) # x
    BY <1>1, <1>4 DEF IsChain
  <2> QED
    BY <1>1, <2>1, UnlinkedLink
<1>6. n # x
  <2>1. 0 \in 0 .. Len(s)
    BY <1>1
  <2> QED
    BY <1>4, <2>1 DEF IsChain
<1>7. s \in Seq(DOMAIN Unlink(h, x))
  BY <1>2, UnlinkedHeap
<1> QED
  BY <1>5, <1>6, <1>7 DEF IsChain

\* A chain with x skips it after x is unlinked.
LEMMA UnlinkedOn ==
  ASSUME NEW h, IsHeap(h), NEW link \in Links,
         NEW s, NEW n, IsChain(h, s, n, link), NEW p \in 1 .. Len(s)
  PROVE  /\ IsChain(Unlink(h, s[p]), Dropped(s, p),
                     IF n = s[p] THEN h[s[p]][link] ELSE n, link)
         /\ n = s[p] <=> p = 1
<1> DEFINE x == s[p]
           t == Dropped(s, p)
           first == IF n = x THEN h[x][link] ELSE n
<1>1. /\ s \in Seq(DOMAIN h) /\ DOMAIN s = 1 .. Len(s) /\ Len(s) \in Nat
      /\ \A i \in 1 .. Len(s) : s[i] \in DOMAIN h
      /\ \A i, j \in 1 .. Len(s) : s[i] = s[j] => i = j
      /\ x \in DOMAIN h /\ NULL # x /\ p \in Int /\ 1 <= p /\ p <= Len(s)
  BY PropertyMapAssumption DEF IsChain, IsHeap
<1>2. /\ t \in Seq(DOMAIN h \ {x}) /\ Len(t) = Len(s) - 1
      /\ DOMAIN t = 1 .. (Len(s) - 1)
      /\ \A i \in 1 .. (Len(s) - 1) : t[i] = IF i < p THEN s[i] ELSE s[i + 1]
  <2>1. \A i \in 1 .. (Len(s) - 1) : t[i] = IF i < p THEN s[i] ELSE s[i + 1]
    BY DEF Dropped
  <2> QED
    BY <1>1, <2>1, DroppedIs
<1> HIDE DEF t
<1>3. n = x <=> p = 1
  <2>1. 1 \in 1 .. Len(s) /\ n = s[1]
    BY <1>1 DEF IsChain, NextOf
  <2> QED
    BY <1>1, <2>1
<1>4. \A i \in 0 .. (Len(s) - 1) :
        NextOf(t, i) = IF i + 1 < p THEN NextOf(s, i) ELSE NextOf(s, i + 1)
  BY <1>1, <1>2 DEF NextOf
<1>5. h[x][link] = NextOf(s, p)
  BY DEF IsChain
<1>6. first = NextOf(t, 0)
  <2>1. 0 \in 0 .. (Len(s) - 1) /\ n = NextOf(s, 0)
    BY <1>1 DEF IsChain
  <2>2. NextOf(t, 0) = IF 1 < p THEN n ELSE NextOf(s, 1)
    BY <1>4, <2>1
  <2> QED
    BY <1>1, <1>3, <1>5, <2>2
<1>7. ASSUME NEW i \in 1 .. Len(t) PROVE Unlink(h, x)[t[i]][link] = NextOf(t, i)
  <2>0. /\ i \in 0 .. (Len(s) - 1) /\ i \in 1 .. (Len(s) - 1) /\ i \in Int
        /\ t[i] \in DOMAIN h \ {x}
    BY <1>2
  <2>1. Unlink(h, x)[t[i]][link] = IF h[t[i]][link] = x THEN h[x][link]
                                   ELSE h[t[i]][link]
    BY <1>1, <2>0, UnlinkedLink
  <2>2. CASE i + 1 < p
    <3>1. t[i] = s[i] /\ NextOf(t, i) = NextOf(s, i) /\ i \in 1 .. Len(s)
      BY <1>1, <1>2, <1>4, <2>0, <2>2
    <3>2. NextOf(s, i) # x
      <4>1. NextOf(s, i) = s[i + 1] /\ i + 1 \in 1 .. Len(s) /\ i + 1 # p
        BY <1>1, <2>0, <2>2 DEF NextOf
      <4> QED
        BY <1>1, <4>1
    <3>3. h[s[i]][link] = NextOf(s, i)
      BY <3>1 DEF IsChain
    <3> QED
      BY <2>1, <3>1, <3>2, <3>3
  <2>3. CASE i + 1 = p
    <3>1. t[i] = s[i] /\ NextOf(t, i) = NextOf(s, p) /\ i \in 1 .. Len(s)
      BY <1>1, <1>2, <1>4, <2>0, <2>3
    <3>2. h[s[i]][link] = NextOf(s, i)
      BY <3>1 DEF IsChain
    <3>3. NextOf(s, i) = x
      BY <1>1, <2>0, <2>3 DEF NextOf
    <3> QED
      BY <1>5, <2>1, <3>1, <3>2, <3>3
  <2>4. CASE p <= i
    <3>1. t[i] = s[i + 1] /\ NextOf(t, i) = NextOf(s, i + 1) /\ i + 1 \in 1 .. Len(s)
      BY <1>1, <1>2, <1>4, <2>0, <2>4
    <3>2. h[s[i + 1]][link] = NextOf(s, i + 1)
      BY <3>1 DEF IsChain
    <3>3. NextOf(s, i + 1) # x
      <4>1. CASE i + 1 < Len(s)
        <5>1. NextOf(s, i + 1) = s[i + 2] /\ i + 2 \in 1 .. Len(s) /\ i + 2 # p
          BY <1>1, <2>0, <2>4, <4>1 DEF NextOf
        <5> QED
          BY <1>1, <5>1
      <4>2. CASE ~(i + 1 < Len(s))
        BY <1>1, <4>2 DEF NextOf
      <4> QED
        BY <4>1, <4>2
    <3> QED
      BY <2>1, <3>1, <3>2, <3>3
  <2>5. i + 1 < p \/ i + 1 = p \/ p <= i
    BY <1>1, <2>0
  <2> QED
    BY <2>2, <2>3, <2>4, <2>5, Zenon
<1>8. ASSUME NEW i \in 1 .. Len(t), NEW j \in 1 .. Len(t), t[i] = t[j] PROVE i = j
  <2>1. i \in 1 .. (Len(s) - 1) /\ j \in 1 .. (Len(s) - 1)
    BY <1>2
  <2> DEFINE At(k) == IF k < p THEN k ELSE k + 1
  <2>2. At(i) \in 1 .. Len(s) /\ At(j) \in 1 .. Len(s)
    BY <1>1, <2>1
  <2>3. t[i] = s[At(i)] /\ t[j] = s[At(j)]
    BY <1>2, <2>1
  <2>4. At(i) = At(j)
    <3> HIDE DEF At
    <3> QED
      BY <1>1, <1>8, <2>2, <2>3
  <2> QED
    BY <1>1, <2>1, <2>4
<1>9. t \in Seq(DOMAIN Unlink(h, x))
  BY <1>1, <1>2, UnlinkedHeap
<1>10. IsChain(Unlink(h, x), t, first, link)
  <2> HIDE DEF first, x
  <2> QED
    BY <1>6, <1>7, <1>8, <1>9 DEF IsChain
<1> QED
  BY <1>3, <1>10 DEF t
-----------------------------------------------------------------------------
\* The chain s from n on holds the entries of h that fall in bucket b of size.
BucketIs(h, s, n, b, size) ==
  /\ IsChain(h, s, n, "next_bucket")
  /\ Elements(s) = {m \in DOMAIN h : BucketOf(h[m].name, size) = b}

\* Every bucket holds its entries.
BucketsAre(h, bks, size) ==
  /\ size \in Nat
  /\ bks \in [0 .. size - 1 -> Pointer]
  /\ \A b \in 0 .. size - 1 : BucketIs(h, ChainIn(h, bks[b], "next_bucket"), bks[b], b, size)

\* The insertion list is `order', which holds every entry.
ListIs(h, order, hd, tl) ==
  /\ IsChain(h, order, hd, "next_insert")
  /\ Elements(order) = DOMAIN h
  /\ tl = LastOf(order)

\* A walk has read the entries up to the one it is at.
WalkOK ==
  /\ walk \in [on : {"idle", "walking", "dangling"}, at : Pointer, seen : SUBSET Nodes]
  /\ walk.on = "idle" => walk = NoWalk
  /\ walk.on = "walking" =>
       \E p \in 1 .. Len(Inserted) : /\ walk.at = Inserted[p]
                                     /\ walk.seen = {Inserted[i] : i \in 1 .. p}

IInv ==
  /\ IsHeap(heap)
  /\ inuse = Cardinality(DOMAIN heap)
  /\ DOMAIN heap # {} => nbuckets # 0
  /\ ListIs(heap, Inserted, head, tail)
  /\ BucketsAre(heap, buckets, nbuckets)
  /\ LoadBounded
  /\ WalkOK
-----------------------------------------------------------------------------
LEMMA BucketOfType ==
  ASSUME NEW name \in Names, NEW n \in Nat \ {0}
  PROVE  BucketOf(name, n) \in 0 .. n - 1
<1>1. Hash[name] \in Nat
  BY PropertyMapAssumption
<1> QED
  BY <1>1 DEF BucketOf

\* Of no entries none is the last in its bucket.
LEMMA TopOfNone ==
  ASSUME NEW h, NEW es, NEW b, NEW n
  PROVE  TopOf(h, es, 0, b, n) = NULL
BY DEF TopOf

\* The next entry is the last in its bucket, and changes no other.
LEMMA TopOfNext ==
  ASSUME NEW h, NEW es, NEW b, NEW n, NEW p \in Nat
  PROVE  TopOf(h, es, p + 1, b, n) =
           IF BucketOf(h[es[p + 1]].name, n) = b THEN es[p + 1]
           ELSE TopOf(h, es, p, b, n)
<1> DEFINE Is(q) == {i \in 1 .. q : BucketOf(h[es[i]].name, n) = b}
<1>1. CASE BucketOf(h[es[p + 1]].name, n) = b
  <2>1. p + 1 \in Is(p + 1)
    BY <1>1
  <2>2. Is(p + 1) \in SUBSET (1 .. (p + 1)) /\ Is(p + 1) # {} /\ p + 1 \in Nat
    BY <2>1
  <2>3. TopOf(h, es, p + 1, b, n) = es[Greatest(Is(p + 1))]
    BY <2>1 DEF TopOf
  <2> HIDE DEF Is
  <2>4. Greatest(Is(p + 1)) \in Is(p + 1) /\ \A m \in Is(p + 1) : m <= Greatest(Is(p + 1))
    BY <2>2, GreatestIs
  <2>5. Greatest(Is(p + 1)) \in 1 .. (p + 1) /\ p + 1 <= Greatest(Is(p + 1))
    BY <2>1, <2>2, <2>4
  <2>6. Greatest(Is(p + 1)) = p + 1
    BY <2>5
  <2> QED
    BY <1>1, <2>3, <2>6
<1>2. CASE BucketOf(h[es[p + 1]].name, n) # b
  <2>1. Is(p + 1) = Is(p)
    <3>1. \A i \in Nat : i \in 1 .. (p + 1) <=> (i \in 1 .. p \/ i = p + 1)
      OBVIOUS
    <3> QED
      BY <1>2, <3>1
  <2>2. /\ TopOf(h, es, p + 1, b, n) = IF Is(p + 1) = {} THEN NULL ELSE es[Greatest(Is(p + 1))]
        /\ TopOf(h, es, p, b, n) = IF Is(p) = {} THEN NULL ELSE es[Greatest(Is(p))]
    BY DEF TopOf
  <2> HIDE DEF Is
  <2> QED
    BY <1>2, <2>1, <2>2
<1> QED
  BY <1>1, <1>2

LEMMA TopOfType ==
  ASSUME NEW h, NEW es, NEW p \in Nat, NEW b, NEW n,
         \A i \in 1 .. p : es[i] \in Pointer
  PROVE  TopOf(h, es, p, b, n) \in Pointer
<1> DEFINE is == {i \in 1 .. p : BucketOf(h[es[i]].name, n) = b}
<1>1. CASE is = {}
  BY <1>1 DEF TopOf, Pointer
<1>2. CASE is # {}
  <2>1. TopOf(h, es, p, b, n) = es[Greatest(is)]
    BY <1>2 DEF TopOf
  <2>2. is \in SUBSET (1 .. p)
    OBVIOUS
  <2> HIDE DEF is
  <2>3. Greatest(is) \in is
    BY <1>2, <2>2, GreatestIs
  <2> QED
    BY <2>1, <2>2, <2>3
<1> QED
  BY <1>1, <1>2

\* What rehash makes of an entry: it links to the entry before it that falls
\* in its bucket.
LEMMA RehashedEntry ==
  ASSUME NEW h, IsHeap(h), NEW order, NEW hd, NEW tl, ListIs(h, order, hd, tl),
         NEW n, NEW k \in 1 .. Len(order)
  PROVE  LET e == Rehashed(h, order, n)[order[k]]
         IN  /\ e \in Entry
             /\ e.name = h[order[k]].name /\ e.desc = h[order[k]].desc
             /\ e.next_insert = h[order[k]].next_insert
             /\ e.next_bucket = TopOf(h, order, k - 1, BucketOf(h[order[k]].name, n), n)
<1> DEFINE m == order[k]
           top == TopOf(h, order, k - 1, BucketOf(h[m].name, n), n)
<1>1. /\ Len(order) \in Nat /\ DOMAIN order = 1 .. Len(order)
      /\ \A i \in 1 .. Len(order) : order[i] \in DOMAIN h
      /\ \A i, j \in 1 .. Len(order) : order[i] = order[j] => i = j
  BY DEF ListIs, IsChain
<1>2. h[m] \in Entry /\ m \in DOMAIN h /\ DOMAIN h \subseteq Pointer
  BY <1>1 DEF IsHeap, Pointer
<1>3. top \in Pointer
  <2>1. k - 1 \in Nat /\ \A i \in 1 .. (k - 1) : order[i] \in Pointer
    BY <1>1, <1>2
  <2> QED
    BY <2>1, TopOfType
<1>4. (CHOOSE i \in DOMAIN order : order[i] = m) = k
  BY <1>1
<1>5. Rehashed(h, order, n)[m] = [h[m] EXCEPT !.next_bucket = top]
  BY <1>2, <1>4 DEF Rehashed
<1> HIDE DEF top
<1>6. /\ [h[m] EXCEPT !.next_bucket = top] \in Entry
      /\ [h[m] EXCEPT !.next_bucket = top].name = h[m].name
      /\ [h[m] EXCEPT !.next_bucket = top].desc = h[m].desc
      /\ [h[m] EXCEPT !.next_bucket = top].next_insert = h[m].next_insert
      /\ [h[m] EXCEPT !.next_bucket = top].next_bucket = top
  BY <1>2, <1>3 DEF Entry
<1> QED
  BY <1>5, <1>6 DEF top

\* Rehash leaves the insertion list, the names and the descriptors.
LEMMA RehashedList ==
  ASSUME NEW h, IsHeap(h), NEW order, NEW hd, NEW tl, ListIs(h, order, hd, tl), NEW n
  PROVE  /\ DOMAIN Rehashed(h, order, n) = DOMAIN h
         /\ IsHeap(Rehashed(h, order, n))
         /\ ListIs(Rehashed(h, order, n), order, hd, tl)
         /\ \A m \in DOMAIN h : /\ Rehashed(h, order, n)[m].name = h[m].name
                                /\ Rehashed(h, order, n)[m].desc = h[m].desc
<1> DEFINE r == Rehashed(h, order, n)
<1>1. DOMAIN r = DOMAIN h /\ r = [m \in DOMAIN h |-> r[m]]
  BY DEF Rehashed
<1>2. ASSUME NEW m \in DOMAIN h
      PROVE  /\ r[m] \in Entry /\ r[m].name = h[m].name /\ r[m].desc = h[m].desc
             /\ r[m].next_insert = h[m].next_insert
  <2>1. PICK k \in 1 .. Len(order) : m = order[k]
    BY DEF ListIs, Elements, IsChain
  <2> QED
    BY <2>1, RehashedEntry
<1> HIDE DEF r
<1>3. IsHeap(r)
  BY <1>1, <1>2 DEF IsHeap
<1>4. IsChain(r, order, hd, "next_insert")
  <2>1. \A m \in Elements(order) : r[m]["next_insert"] = h[m]["next_insert"]
    BY <1>2 DEF ListIs
  <2> QED
    BY <1>1, <2>1, ChainIsKept DEF ListIs
<1> QED
  BY <1>1, <1>2, <1>3, <1>4 DEF ListIs, r

\* Rehash puts every entry in its bucket.
LEMMA RehashedBuckets ==
  ASSUME NEW h, IsHeap(h), NEW order, NEW hd, NEW tl, ListIs(h, order, hd, tl),
         NEW n \in Nat \ {0}
  PROVE  BucketsAre(Rehashed(h, order, n),
                    [b \in 0 .. n - 1 |-> TopOf(h, order, Len(order), b, n)], n)
<1> DEFINE r == Rehashed(h, order, n)
           Of(p, b) == {m \in DOMAIN h : /\ BucketOf(h[m].name, n) = b
                                         /\ \E i \in 1 .. p : order[i] = m}
           Done(p) == \A b \in 0 .. n - 1 : \E s :
                        /\ IsChain(r, s, TopOf(h, order, p, b, n), "next_bucket")
                        /\ Elements(s) = Of(p, b)
           S == {p \in 0 .. Len(order) : ~Done(p)}
<1>1. /\ Len(order) \in Nat /\ DOMAIN order = 1 .. Len(order)
      /\ \A i \in 1 .. Len(order) : order[i] \in DOMAIN h
      /\ \A i, j \in 1 .. Len(order) : order[i] = order[j] => i = j
      /\ DOMAIN r = DOMAIN h /\ IsHeap(r)
  BY RehashedList DEF ListIs, IsChain
<1>2. Done(0)
  <2> SUFFICES ASSUME NEW b \in 0 .. n - 1
               PROVE  IsChain(r, <<>>, TopOf(h, order, 0, b, n), "next_bucket")
                      /\ Elements(<<>>) = Of(0, b)
    OBVIOUS
  <2>1. IsChain(r, <<>>, NULL, "next_bucket")
    BY DEF IsChain, NextOf
  <2>2. Elements(<<>>) = {} /\ Of(0, b) = {}
    BY DEF Elements
  <2> QED
    BY <2>1, <2>2, TopOfNone
<1>3. ASSUME NEW p \in Nat, p + 1 \in 0 .. Len(order), Done(p) PROVE Done(p + 1)
  <2> DEFINE x == order[p + 1]
             c == BucketOf(h[x].name, n)
  <2>1. /\ p + 1 \in 1 .. Len(order) /\ x \in DOMAIN h /\ x \in DOMAIN r
        /\ \A i \in 1 .. p : order[i] # x
    BY <1>1, <1>3
  <2>2. r[x]["next_bucket"] = TopOf(h, order, p, c, n)
    <3>1. p + 1 - 1 = p
      OBVIOUS
    <3> QED
      BY <2>1, <3>1, RehashedEntry
  <2> SUFFICES ASSUME NEW b \in 0 .. n - 1
               PROVE  \E s : /\ IsChain(r, s, TopOf(h, order, p + 1, b, n), "next_bucket")
                             /\ Elements(s) = Of(p + 1, b)
    OBVIOUS
  <2>3. PICK s : /\ IsChain(r, s, TopOf(h, order, p, b, n), "next_bucket")
                 /\ Elements(s) = Of(p, b)
    BY <1>3
  <2>4. TopOf(h, order, p + 1, b, n) = IF c = b THEN x ELSE TopOf(h, order, p, b, n)
    BY TopOfNext
  <2>5. \A i \in Nat : i \in 1 .. (p + 1) <=> (i \in 1 .. p \/ i = p + 1)
    OBVIOUS
  <2>6. CASE c = b
    <3>1. x \notin Elements(s)
      BY <2>1, <2>3
    <3>2. Of(p + 1, b) = Of(p, b) \cup {x}
      BY <2>1, <2>5, <2>6
    <3> HIDE DEF r, c, x, Of
    <3>3. /\ IsChain(r, <<x>> \o s, x, "next_bucket")
          /\ Elements(<<x>> \o s) = Elements(s) \cup {x}
      BY <2>1, <2>2, <2>3, <2>6, <3>1, ChainPushed
    <3> QED
      BY <2>3, <2>4, <2>6, <3>2, <3>3
  <2>7. CASE c # b
    <3>1. Of(p + 1, b) = Of(p, b)
      BY <2>1, <2>5, <2>7
    <3> QED
      BY <2>3, <2>4, <2>7, <3>1
  <2> QED
    BY <2>6, <2>7
<1>4. \A p \in 0 .. Len(order) : Done(p)
  <2> HIDE DEF Done
  <2>1. SUFFICES ASSUME S # {} PROVE FALSE
    OBVIOUS
  <2>2. S \in SUBSET Nat
    BY <1>1
  <2>3. PICK p \in S : \A m \in S : p <= m
    <3> HIDE DEF S
    <3> QED
      BY <2>1, <2>2, LeastNatural
  <2>4. p \in 0 .. Len(order) /\ ~Done(p) /\ p # 0
    BY <1>2, <2>3
  <2>5. p - 1 \in 0 .. Len(order) /\ ~(p <= p - 1) /\ p - 1 \in Nat /\ p - 1 + 1 = p
    BY <1>1, <2>4
  <2>6. Done(p - 1)
    BY <2>3, <2>5
  <2> QED
    BY <1>3, <2>4, <2>5, <2>6
<1>5. Done(Len(order))
  <2> HIDE DEF Done
  <2>1. Len(order) \in 0 .. Len(order)
    BY <1>1
  <2> QED
    BY <1>4, <2>1
<1> DEFINE bks == [b \in 0 .. n - 1 |-> TopOf(h, order, Len(order), b, n)]
<1>6. bks \in [0 .. n - 1 -> Pointer]
  <2>1. \A i \in 1 .. Len(order) : order[i] \in Pointer
    BY <1>1 DEF IsHeap, Pointer
  <2>2. \A b \in 0 .. n - 1 : TopOf(h, order, Len(order), b, n) \in Pointer
    BY <1>1, <2>1, TopOfType
  <2> QED
    BY <2>2
<1>7. ASSUME NEW b \in 0 .. n - 1
      PROVE  BucketIs(r, ChainIn(r, bks[b], "next_bucket"), bks[b], b, n)
  <2>1. PICK s : /\ IsChain(r, s, bks[b], "next_bucket")
                 /\ Elements(s) = Of(Len(order), b)
    BY <1>5
  <2>2. Of(Len(order), b) = {m \in DOMAIN r : BucketOf(r[m].name, n) = b}
    <3>1. \A m \in DOMAIN h : \E i \in 1 .. Len(order) : order[i] = m
      BY <1>1 DEF ListIs, Elements
    <3>2. \A m \in DOMAIN h : r[m].name = h[m].name
      BY RehashedList
    <3> HIDE DEF r
    <3> QED
      BY <1>1, <3>1, <3>2
  <2> HIDE DEF r, Of, bks
  <2>3. ChainIn(r, bks[b], "next_bucket") = s
    BY <1>1, <2>1, ChainIsUnique
  <2> QED
    BY <2>1, <2>2, <2>3 DEF BucketIs
<1> QED
  BY <1>6, <1>7 DEF BucketsAre
-----------------------------------------------------------------------------
\* How many buckets there are after the first insert has allocated them.
Size == Cardinality(DOMAIN FirstBuckets)

LEMMA SizeOfBuckets ==
  ASSUME NEW n \in Nat
  PROVE  Cardinality(0 .. n - 1) = n
<1>1. Cardinality(0 .. n - 1) = IF 0 > n - 1 THEN 0 ELSE (n - 1) - 0 + 1
  <2>1. 0 \in Int /\ n - 1 \in Int
    OBVIOUS
  <2> QED
    BY <2>1, FS_Interval
<1> QED
  BY <1>1

\* The buckets an insert goes by hold the entries there are.
LEMMA FirstBucketsAre ==
  ASSUME IInv
  PROVE  /\ Size \in Nat \ {0}
         /\ BucketsAre(heap, FirstBuckets, Size)
         /\ Running => 4 * inuse <= 3 * Size
<1>1. /\ nbuckets \in Nat /\ buckets \in [0 .. nbuckets - 1 -> Pointer]
      /\ BucketsAre(heap, buckets, nbuckets)
  BY DEF IInv, BucketsAre
<1>2. CASE buckets = <<>>
  <2> DEFINE first == [b \in 0 .. Primes[1] - 1 |-> NULL]
  <2>1. Primes[1] \in Nat \ {0}
    BY PropertyMapAssumption
  <2>2. FirstBuckets = first
    BY <1>2 DEF FirstBuckets
  <2>3. Size = Primes[1]
    BY <2>1, <2>2, SizeOfBuckets DEF Size
  <2>4. nbuckets = 0
    <3>1. DOMAIN buckets = {}
      BY <1>2
    <3> QED
      BY <3>1, FS_EmptySet DEF nbuckets
  <2>5. DOMAIN heap = {} /\ inuse = 0
    BY <2>4, FS_EmptySet DEF IInv
  <2>6. ASSUME NEW b \in 0 .. Size - 1
        PROVE  BucketIs(heap, ChainIn(heap, first[b], "next_bucket"), first[b], b, Size)
    <3>1. first[b] = NULL
      BY <2>3
    <3>2. IsChain(heap, <<>>, NULL, "next_bucket")
      BY DEF IsChain, NextOf
    <3>3. ChainIn(heap, NULL, "next_bucket") = <<>>
      BY <3>2, ChainIsUnique DEF IInv
    <3>4. Elements(<<>>) = {}
      BY DEF Elements
    <3> HIDE DEF first
    <3> QED
      BY <2>5, <3>1, <3>2, <3>3, <3>4 DEF BucketIs
  <2>7. first \in [0 .. Size - 1 -> Pointer]
    BY <2>3 DEF Pointer
  <2> HIDE DEF first
  <2> QED
    BY <2>1, <2>2, <2>3, <2>5, <2>6, <2>7 DEF BucketsAre
<1>3. CASE buckets # <<>>
  <2>1. FirstBuckets = buckets
    BY <1>3 DEF FirstBuckets
  <2>2. Size = nbuckets
    BY <2>1 DEF Size, nbuckets
  <2>3. nbuckets # 0
    <3> SUFFICES ASSUME nbuckets = 0 PROVE FALSE
      OBVIOUS
    <3>1. buckets \in [1 .. 0 -> Pointer]
      <4>1. 0 .. nbuckets - 1 = 1 .. 0
        OBVIOUS
      <4> QED
        BY <1>1, <4>1
    <3>2. buckets = <<>>
      BY <3>1
    <3> QED
      BY <1>3, <3>2
  <2> QED
    BY <1>1, <2>1, <2>2, <2>3 DEF IInv, LoadBounded
<1> QED
  BY <1>2, <1>3

\* The table with a new entry: it ends the list and heads its bucket.
LEMMA LinkedIs ==
  ASSUME IInv, NEW n \in Nodes \ DOMAIN heap, NEW name \in Names, NEW desc \in Descs
  PROVE  LET new == Linked(n, name, desc)
         IN  /\ IsHeap(new.heap)
             /\ DOMAIN new.heap = DOMAIN heap \cup {n}
             /\ Cardinality(DOMAIN new.heap) = inuse + 1
             /\ DOMAIN new.buckets = DOMAIN FirstBuckets
             /\ ListIs(new.heap, Append(Inserted, n), IF head = NULL THEN n ELSE head, n)
             /\ BucketsAre(new.heap, new.buckets, Size)
             /\ new.heap[n].name = name /\ new.heap[n].desc = desc
             /\ \A m \in DOMAIN heap : /\ new.heap[m].name = heap[m].name
                                       /\ new.heap[m].desc = heap[m].desc
<1> DEFINE fb == FirstBuckets
           b == BucketOf(name, Size)
           h == Linked(n, name, desc).heap
           bks == Linked(n, name, desc).buckets
           added == [name |-> name, desc |-> desc, next_insert |-> NULL,
                     next_bucket |-> fb[b]]
<1>1. /\ Size \in Nat \ {0} /\ BucketsAre(heap, fb, Size) /\ b \in 0 .. Size - 1
      /\ fb \in [0 .. Size - 1 -> Pointer]
  BY FirstBucketsAre, BucketOfType DEF BucketsAre
<1>2. /\ IsHeap(heap) /\ ListIs(heap, Inserted, head, tail) /\ tail = LastOf(Inserted)
      /\ DOMAIN heap \subseteq Pointer /\ n \in Pointer /\ NULL \in Pointer
      /\ \A m \in DOMAIN heap : heap[m] \in Entry
  BY DEF IInv, ListIs, IsHeap, Pointer
<1>3. /\ DOMAIN h = DOMAIN heap \cup {n} /\ h = [m \in DOMAIN h |-> h[m]]
      /\ h[n] = added
      /\ \A m \in DOMAIN heap :
           h[m] = IF m = tail THEN [heap[m] EXCEPT !.next_insert = n] ELSE heap[m]
      /\ bks = [fb EXCEPT ![b] = n]
  BY DEF Linked, Size
<1> HIDE DEF h, bks
<1>4. ASSUME NEW m \in DOMAIN heap
      PROVE  /\ h[m] \in Entry
             /\ h[m].name = heap[m].name /\ h[m].desc = heap[m].desc
             /\ h[m].next_insert = IF m = tail THEN n ELSE heap[m].next_insert
             /\ h[m].next_bucket = heap[m].next_bucket
  <2>1. heap[m] \in Entry
    BY <1>2
  <2>2. CASE m = tail
    <3>1. h[m] = [heap[m] EXCEPT !.next_insert = n]
      BY <1>3, <2>2
    <3> QED
      BY <1>2, <2>1, <2>2, <3>1 DEF Entry
  <2>3. CASE m # tail
    BY <1>3, <2>1, <2>3
  <2> QED
    BY <2>2, <2>3
<1>5. added \in Entry /\ fb[b] \in Pointer
  BY <1>1, <1>2 DEF Entry
<1>6. IsHeap(h) /\ Cardinality(DOMAIN h) = inuse + 1
  <2>1. h \in [DOMAIN h -> Entry]
    BY <1>3, <1>4, <1>5
  <2>2. IsFiniteSet(DOMAIN h) /\ Cardinality(DOMAIN h) = Cardinality(DOMAIN heap) + 1
    BY <1>2, <1>3, FS_AddElement DEF IsHeap
  <2>3. DOMAIN h \in SUBSET Nodes
    BY <1>2, <1>3 DEF IsHeap
  <2> QED
    BY <2>1, <2>2, <2>3 DEF IsHeap, IInv
<1>7. ListIs(h, Append(Inserted, n), IF head = NULL THEN n ELSE head, n)
  <2>1. h[n]["next_insert"] = NULL
    BY <1>3
  <2>2. \A m \in DOMAIN heap : h[m]["next_insert"] =
          IF m = LastOf(Inserted) THEN n ELSE heap[m]["next_insert"]
    BY <1>2, <1>4
  <2>3. IsChain(heap, Inserted, head, "next_insert") /\ Elements(Inserted) = DOMAIN heap
    BY <1>2 DEF ListIs
  <2>4. /\ IsChain(h, Append(Inserted, n), IF head = NULL THEN n ELSE head, "next_insert")
        /\ Elements(Append(Inserted, n)) = Elements(Inserted) \cup {n}
        /\ LastOf(Append(Inserted, n)) = n
    BY <1>2, <1>3, <2>1, <2>2, <2>3, ChainAppended
  <2> QED
    BY <1>3, <2>3, <2>4 DEF ListIs
<1>8. BucketsAre(h, bks, Size)
  <2>1. bks \in [0 .. Size - 1 -> Pointer]
    BY <1>1, <1>2, <1>3
  <2>2. ASSUME NEW c \in 0 .. Size - 1
        PROVE  BucketIs(h, ChainIn(h, bks[c], "next_bucket"), bks[c], c, Size)
    <3> DEFINE s == ChainIn(heap, fb[c], "next_bucket")
    <3>1. /\ IsChain(heap, s, fb[c], "next_bucket")
          /\ Elements(s) = {m \in DOMAIN heap : BucketOf(heap[m].name, Size) = c}
      BY <1>1 DEF BucketsAre, BucketIs
    <3> HIDE DEF s
    <3>2. IsChain(h, s, fb[c], "next_bucket")
      <4>1. \A m \in Elements(s) : h[m]["next_bucket"] = heap[m]["next_bucket"]
        BY <1>4, <3>1
      <4> QED
        BY <1>3, <3>1, <4>1, ChainIsKept
    <3>3. CASE c = b
      <4>1. n \in DOMAIN h /\ n \notin Elements(s) /\ h[n]["next_bucket"] = fb[c]
        BY <1>3, <3>1, <3>3
      <4>2. /\ IsChain(h, <<n>> \o s, n, "next_bucket")
            /\ Elements(<<n>> \o s) = Elements(s) \cup {n}
        BY <3>2, <4>1, ChainPushed
      <4>3. bks[c] = n
        BY <1>1, <1>3, <3>3
      <4>4. Elements(<<n>> \o s) = {m \in DOMAIN h : BucketOf(h[m].name, Size) = c}
        BY <1>3, <1>4, <3>1, <3>3, <4>2
      <4>5. ChainIn(h, n, "next_bucket") = <<n>> \o s
        BY <1>6, <4>2, ChainIsUnique
      <4> QED
        BY <4>2, <4>3, <4>4, <4>5 DEF BucketIs
    <3>4. CASE c # b
      <4>1. bks[c] = fb[c]
        BY <1>1, <1>3, <3>4
      <4>2. Elements(s) = {m \in DOMAIN h : BucketOf(h[m].name, Size) = c}
        BY <1>3, <1>4, <3>1, <3>4
      <4>3. ChainIn(h, fb[c], "next_bucket") = s
        BY <1>6, <3>2, ChainIsUnique
      <4> QED
        BY <3>2, <4>1, <4>2, <4>3 DEF BucketIs
    <3> QED
      BY <3>3, <3>4
  <2> QED
    BY <1>1, <2>1, <2>2 DEF BucketsAre
<1>9. DOMAIN bks = DOMAIN FirstBuckets
  BY <1>1, <1>3
<1>10. h[n].name = name /\ h[n].desc = desc
  BY <1>3
<1>11. \A m \in DOMAIN heap : h[m].name = heap[m].name /\ h[m].desc = heap[m].desc
  BY <1>4
<1> QED
  BY <1>3, <1>6, <1>7, <1>8, <1>9, <1>10, <1>11 DEF h, bks
-----------------------------------------------------------------------------
LEMMA BucketChainIs ==
  ASSUME IInv, NEW b \in 0 .. nbuckets - 1
  PROVE  /\ IsChain(heap, Chain(buckets[b], "next_bucket"), buckets[b], "next_bucket")
         /\ Elements(Chain(buckets[b], "next_bucket")) =
              {m \in DOMAIN heap : BucketOf(heap[m].name, nbuckets) = b}
BY DEF IInv, BucketsAre, BucketIs, Chain

\* The entry a scan stops at is in the table, in the bucket of the name, and has it.
LEMMA MatchIs ==
  ASSUME IInv, NEW name \in Names, Match(name) # NULL
  PROVE  /\ nbuckets \in Nat \ {0}
         /\ Match(name) \in DOMAIN heap
         /\ BucketOf(heap[Match(name)].name, nbuckets) = BucketOf(name, nbuckets)
         /\ StrictEq(heap[Match(name)].name, name)
<1> DEFINE b == BucketOf(name, nbuckets)
           s == Chain(buckets[b], "next_bucket")
           is == {i \in DOMAIN s : StrictEq(heap[s[i]].name, name)}
<1>1. nbuckets \in Nat \ {0}
  BY DEF Match, IInv, BucketsAre
<1>2. b \in 0 .. nbuckets - 1
  BY <1>1, BucketOfType
<1>3. /\ IsChain(heap, s, buckets[b], "next_bucket")
      /\ Elements(s) = {m \in DOMAIN heap : BucketOf(heap[m].name, nbuckets) = b}
  BY <1>2, BucketChainIs
<1>4. Match(name) = IF is = {} THEN NULL ELSE s[Least(is)]
  BY <1>1 DEF Match
<1>5. is # {} /\ Match(name) = s[Least(is)]
  BY <1>4
<1> HIDE DEF s
<1>6. DOMAIN s = 1 .. Len(s) /\ Len(s) \in Nat
  BY <1>3 DEF IsChain
<1>7. is \in SUBSET Nat
  BY <1>6
<1> DEFINE k == Least(is)
<1>8. k \in is
  <2> HIDE DEF is
  <2> QED
    BY <1>5, <1>7, LeastIs
<1> HIDE DEF k
<1>9. k \in DOMAIN s /\ StrictEq(heap[s[k]].name, name)
  BY <1>8
<1>10. s[k] \in Elements(s) /\ Match(name) = s[k]
  BY <1>5, <1>9 DEF Elements, k
<1> QED
  BY <1>1, <1>3, <1>9, <1>10

\* A scan that runs to the end of the bucket has missed no entry of that name.
LEMMA MatchNone ==
  ASSUME IInv, NEW name \in Names, Match(name) = NULL, NEW m \in DOMAIN heap
  PROVE  ~StrictEq(heap[m].name, name)
<1> DEFINE b == BucketOf(name, nbuckets)
           s == Chain(buckets[b], "next_bucket")
           is == {i \in DOMAIN s : StrictEq(heap[s[i]].name, name)}
<1>1. nbuckets \in Nat \ {0}
  BY DEF IInv, BucketsAre
<1>2. b \in 0 .. nbuckets - 1
  BY <1>1, BucketOfType
<1>3. /\ IsChain(heap, s, buckets[b], "next_bucket")
      /\ Elements(s) = {x \in DOMAIN heap : BucketOf(heap[x].name, nbuckets) = b}
  BY <1>2, BucketChainIs
<1>4. Match(name) = IF is = {} THEN NULL ELSE s[Least(is)]
  BY <1>1 DEF Match
<1> HIDE DEF s
<1>5. /\ DOMAIN s = 1 .. Len(s) /\ Len(s) \in Nat
      /\ \A i \in DOMAIN s : s[i] \in DOMAIN heap
  BY <1>3 DEF IsChain
<1>6. NULL \notin DOMAIN heap
  BY PropertyMapAssumption DEF IInv, IsHeap
<1>7. is = {}
  <2> SUFFICES ASSUME is # {} PROVE FALSE
    OBVIOUS
  <2>1. is \in SUBSET Nat /\ is \subseteq DOMAIN s
    BY <1>5
  <2> HIDE DEF is
  <2>2. Least(is) \in is
    BY <2>1, LeastIs
  <2> QED
    BY <1>4, <1>5, <1>6, <2>1, <2>2
<1> SUFFICES ASSUME StrictEq(heap[m].name, name) PROVE FALSE
  OBVIOUS
<1>8. heap[m].name \in Names
  BY DEF IInv, IsHeap, Entry
<1>9. Hash[heap[m].name] = Hash[name]
  BY <1>8, PropertyMapAssumption
<1>10. BucketOf(heap[m].name, nbuckets) = b
  BY <1>9 DEF BucketOf
<1>11. m \in Elements(s)
  BY <1>3, <1>10
<1>12. PICK i \in DOMAIN s : s[i] = m
  BY <1>11 DEF Elements
<1>13. i \in is
  BY <1>12
<1> QED
  BY <1>7, <1>13

\* The prime after a table's size makes room for one entry at least.
LEMMA NextPrimeGrows ==
  ASSUME NEW n \in Nat, NextPrime(n) # 0
  PROVE  /\ NextPrime(n) \in Nat \ {0}
         /\ (3 * n) \div 4 < (3 * NextPrime(n)) \div 4
<1> DEFINE at == {i \in 1 .. Len(Primes) - 1 : Primes[i] = n}
           i == CHOOSE i \in at : TRUE
<1>1. NextPrime(n) = IF at = {} THEN 0 ELSE Primes[1 + i]
  BY DEF NextPrime
<1>2. at # {} /\ i \in at /\ NextPrime(n) = Primes[1 + i]
  BY <1>1
<1> HIDE DEF i
<1>3. /\ i \in 1 .. Len(Primes) - 1 /\ Primes[i] = n /\ Len(Primes) \in Nat
      /\ DOMAIN Primes = 1 .. Len(Primes) /\ 1 + i \in 1 .. Len(Primes) /\ 1 + i = i + 1
  BY <1>2, PropertyMapAssumption
<1>4. Primes[1 + i] \in Nat \ {0}
  BY <1>3, PropertyMapAssumption
<1>5. (3 * Primes[i]) \div 4 < (3 * Primes[i + 1]) \div 4
  BY <1>3, PropertyMapAssumption
<1> QED
  BY <1>2, <1>3, <1>4, <1>5

\* What the list is, the traversal of it computes.
LEMMA InsertedNext ==
  ASSUME NEW s, IsHeap(heap)', ListIs(heap', s, head', tail')
  PROVE  Inserted' = s
<1>1. ChainIn(heap', head', "next_insert") = s
  BY ChainIsUnique DEF ListIs, IsHeap
<1> QED
  BY <1>1 DEF Inserted, Chain

LEMMA AddKeeps ==
  ASSUME IInv, NEW n \in Nodes, NEW name \in Names, NEW desc \in Descs,
         Add(n, name, desc)
  PROVE  /\ IInv'
         /\ Inserted' = Append(Inserted, n)
         /\ DOMAIN heap' = DOMAIN heap \cup {n}
         /\ heap'[n].name = name /\ heap'[n].desc = desc
         /\ \A m \in DOMAIN heap : heap'[m].name = heap[m].name /\ heap'[m].desc = heap[m].desc
<1> DEFINE new == Linked(n, name, desc)
           order == Append(Inserted, n)
           next == NextPrime(Size)
           hd == IF head = NULL THEN n ELSE head
<1>1. n \in Nodes \ DOMAIN heap /\ Running
  BY DEF Add
<1>2. /\ IsHeap(new.heap)
      /\ DOMAIN new.heap = DOMAIN heap \cup {n}
      /\ Cardinality(DOMAIN new.heap) = inuse + 1
      /\ DOMAIN new.buckets = DOMAIN FirstBuckets
      /\ ListIs(new.heap, order, hd, n)
      /\ BucketsAre(new.heap, new.buckets, Size)
      /\ new.heap[n].name = name /\ new.heap[n].desc = desc
      /\ \A m \in DOMAIN heap : /\ new.heap[m].name = heap[m].name
                                /\ new.heap[m].desc = heap[m].desc
  BY <1>1, LinkedIs
<1> HIDE DEF new, order
<1>3. /\ inuse' = inuse + 1 /\ head' = hd /\ tail' = n /\ walk' = walk
      /\ IF Full /\ next # 0
         THEN /\ heap' = Rehashed(new.heap, order, next)
              /\ buckets' = [b \in 0 .. next - 1 |-> TopOf(new.heap, order, Len(order), b, next)]
              /\ status' = status
         ELSE /\ heap' = new.heap
              /\ buckets' = new.buckets
              /\ status' = IF Full THEN "aborted" ELSE status
  BY <1>2 DEF Add, new, order, Size
<1>4. Size \in Nat \ {0} /\ 4 * inuse <= 3 * Size /\ inuse \in Nat
  BY <1>1, FirstBucketsAre, FS_CardinalityType DEF IInv, IsHeap
<1>5. /\ IsHeap(heap') /\ DOMAIN heap' = DOMAIN new.heap
      /\ ListIs(heap', order, head', tail')
      /\ BucketsAre(heap', buckets', nbuckets') /\ nbuckets' # 0
      /\ LoadBounded'
      /\ \A m \in DOMAIN new.heap : /\ heap'[m].name = new.heap[m].name
                                    /\ heap'[m].desc = new.heap[m].desc
  <2>1. CASE Full /\ next # 0
    <3>0. /\ heap' = Rehashed(new.heap, order, next)
          /\ buckets' = [b \in 0 .. next - 1 |-> TopOf(new.heap, order, Len(order), b, next)]
      BY <1>3, <2>1
    <3>1. next \in Nat \ {0} /\ (3 * Size) \div 4 < (3 * next) \div 4
      BY <1>4, <2>1, NextPrimeGrows
    <3> HIDE DEF next
    <3>2. nbuckets' = next
      <4>1. DOMAIN buckets' = 0 .. next - 1
        BY <3>0
      <4> QED
        BY <3>1, <4>1, SizeOfBuckets DEF nbuckets
    <3>3. BucketsAre(heap', buckets', next)
      BY <1>2, <3>0, <3>1, RehashedBuckets
    <3>4. 4 * (inuse + 1) <= 3 * next
      BY <1>4, <3>1
    <3>5. LoadBounded'
      BY <1>3, <3>2, <3>4 DEF LoadBounded
    <3>6. /\ DOMAIN heap' = DOMAIN new.heap /\ IsHeap(heap')
          /\ ListIs(heap', order, hd, n)
          /\ \A m \in DOMAIN new.heap : /\ heap'[m].name = new.heap[m].name
                                        /\ heap'[m].desc = new.heap[m].desc
      <4> DEFINE h == new.heap
                 r == Rehashed(h, order, next)
      <4>1. IsHeap(h) /\ ListIs(h, order, hd, n)
        BY <1>2
      <4> HIDE DEF h, hd
      <4>2. /\ DOMAIN r = DOMAIN h /\ IsHeap(r) /\ ListIs(r, order, hd, n)
            /\ \A m \in DOMAIN h : r[m].name = h[m].name /\ r[m].desc = h[m].desc
        BY <4>1, RehashedList
      <4> QED
        BY <3>0, <4>2 DEF h
    <3> QED
      BY <1>3, <3>1, <3>2, <3>3, <3>5, <3>6
  <2>2. CASE ~(Full /\ next # 0)
    <3>1. nbuckets' = Size
      <4>1. DOMAIN buckets' = DOMAIN FirstBuckets
        BY <1>2, <1>3, <2>2
      <4> QED
        BY <4>1 DEF nbuckets, Size
    <3>2. LoadBounded'
      <4> SUFFICES ASSUME Running' PROVE 4 * inuse' <= 3 * nbuckets'
        BY DEF LoadBounded
      <4>1. ~Full
        BY <1>3, <2>2 DEF Running
      <4> QED
        BY <1>3, <1>4, <3>1, <4>1 DEF Full, Size
    <3> QED
      BY <1>2, <1>3, <1>4, <2>2, <3>1, <3>2
  <2> QED
    BY <2>1, <2>2
<1>6. Inserted' = order
  BY <1>5, InsertedNext
<1>7. ListIs(heap, Inserted, head, tail)'
  BY <1>5, <1>6
<1>8. WalkOK'
  <2>1. \A i \in 1 .. Len(Inserted) : order[i] = Inserted[i] /\ i \in 1 .. Len(order)
    BY DEF order, IInv, ListIs, IsChain
  <2>2. ASSUME NEW p \in 1 .. Len(Inserted), walk.at = Inserted[p],
               walk.seen = {Inserted[i] : i \in 1 .. p}
        PROVE  /\ p \in 1 .. Len(order) /\ walk.at = order[p]
               /\ walk.seen = {order[i] : i \in 1 .. p}
    <3>1. \A i \in 1 .. p : i \in 1 .. Len(Inserted)
      BY DEF IInv, ListIs, IsChain
    <3> QED
      BY <2>1, <2>2, <3>1
  <2> QED
    BY <1>3, <1>6, <2>2 DEF IInv, WalkOK
<1>9. inuse' = Cardinality(DOMAIN heap')
  BY <1>2, <1>3, <1>5
<1> QED
  BY <1>2, <1>5, <1>6, <1>7, <1>8, <1>9 DEF IInv, order
-----------------------------------------------------------------------------
\* The entries up to the r-th, less the p-th, are those up to where the r-th
\* is once the p-th is taken out.
LEMMA DroppedPrefix ==
  ASSUME NEW T, NEW s \in Seq(T), NEW p \in 1 .. Len(s), NEW r \in 1 .. Len(s), r # p,
         \A i, j \in 1 .. Len(s) : s[i] = s[j] => i = j
  PROVE  \E q \in 1 .. Len(Dropped(s, p)) :
           /\ Dropped(s, p)[q] = s[r]
           /\ {Dropped(s, p)[i] : i \in 1 .. q} = {s[i] : i \in 1 .. r} \ {s[p]}
<1> DEFINE t == Dropped(s, p)
           q == IF r < p THEN r ELSE r - 1
<1>1. Len(s) \in Nat /\ p \in Int /\ r \in Int /\ 1 <= p /\ p <= Len(s) /\ r <= Len(s) /\ 1 <= r
  OBVIOUS
<1>2. /\ Len(t) = Len(s) - 1
      /\ \A i \in 1 .. (Len(s) - 1) : t[i] = IF i < p THEN s[i] ELSE s[i + 1]
  <2>1. \A i \in 1 .. (Len(s) - 1) : t[i] = IF i < p THEN s[i] ELSE s[i + 1]
    BY DEF Dropped
  <2> QED
    BY <2>1, DroppedIs
<1> HIDE DEF t
<1>3. /\ q \in 1 .. (Len(s) - 1) /\ q \in 1 .. Len(t) /\ q \in Int /\ q <= r
      /\ r <= q + 1 /\ (p < r => r = q + 1) /\ (r < p => r = q)
  BY <1>1, <1>2
<1> HIDE DEF q
<1>4. t[q] = s[r]
  BY <1>1, <1>2, <1>3
<1>5. ASSUME NEW i \in 1 .. q PROVE t[i] \in {s[j] : j \in 1 .. r} \ {s[p]}
  <2>1. i \in 1 .. (Len(s) - 1) /\ i \in Int
    BY <1>3
  <2>2. CASE i < p
    <3>1. t[i] = s[i] /\ i \in 1 .. r /\ i \in 1 .. Len(s) /\ i # p
      BY <1>1, <1>2, <1>3, <2>1, <2>2
    <3> QED
      BY <3>1
  <2>3. CASE ~(i < p)
    <3>1. p < r
      BY <1>1, <1>3, <2>1, <2>3
    <3>2. t[i] = s[i + 1] /\ i + 1 \in 1 .. r /\ i + 1 \in 1 .. Len(s) /\ i + 1 # p
      BY <1>1, <1>2, <1>3, <2>1, <2>3, <3>1
    <3> QED
      BY <3>2
  <2> QED
    BY <2>2, <2>3
<1>6. ASSUME NEW j \in 1 .. r, s[j] # s[p] PROVE s[j] \in {t[i] : i \in 1 .. q}
  <2>1. CASE j < p
    <3>1. j \in 1 .. q /\ t[j] = s[j]
      BY <1>1, <1>2, <1>3, <2>1
    <3> QED
      BY <3>1
  <2>2. CASE p < j
    <3>1. j - 1 \in 1 .. q /\ t[j - 1] = s[j]
      BY <1>1, <1>2, <1>3, <2>2
    <3> QED
      BY <3>1
  <2>3. j < p \/ p < j
    BY <1>1, <1>6
  <2> QED
    BY <2>1, <2>2, <2>3
<1>7. {t[i] : i \in 1 .. q} = {s[j] : j \in 1 .. r} \ {s[p]}
  BY <1>5, <1>6
<1> QED
  BY <1>3, <1>4, <1>7 DEF t

\* The last one, after the p-th is taken out.
LEMMA DroppedLast ==
  ASSUME NEW T, NEW s \in Seq(T), NEW p \in 1 .. Len(s),
         \A i, j \in 1 .. Len(s) : s[i] = s[j] => i = j
  PROVE  /\ LastOf(s) = s[p] <=> p = Len(s)
         /\ LastOf(Dropped(s, p)) =
              IF p # Len(s) THEN LastOf(s) ELSE IF p = 1 THEN NULL ELSE s[p - 1]
<1> DEFINE t == Dropped(s, p)
<1>1. Len(s) \in Nat /\ p \in Int /\ 1 <= p /\ p <= Len(s) /\ Len(s) \in 1 .. Len(s)
      /\ s # <<>>
  OBVIOUS
<1>2. /\ Len(t) = Len(s) - 1 /\ t \in Seq(T \ {s[p]})
      /\ \A i \in 1 .. (Len(s) - 1) : t[i] = IF i < p THEN s[i] ELSE s[i + 1]
  <2>1. \A i \in 1 .. (Len(s) - 1) : t[i] = IF i < p THEN s[i] ELSE s[i + 1]
    BY DEF Dropped
  <2> QED
    BY <2>1, DroppedIs
<1> HIDE DEF t
<1>3. LastOf(s) = s[Len(s)] /\ (LastOf(s) = s[p] <=> p = Len(s))
  BY <1>1 DEF LastOf
<1>4. CASE Len(s) = 1
  <2>1. t = <<>> /\ p = 1
    BY <1>1, <1>2, <1>4
  <2> QED
    BY <1>3, <1>4, <2>1 DEF LastOf, t
<1>5. CASE Len(s) > 1
  <2>1. t # <<>> /\ LastOf(t) = t[Len(s) - 1] /\ Len(s) - 1 \in 1 .. (Len(s) - 1)
    BY <1>1, <1>2, <1>5 DEF LastOf
  <2>2. t[Len(s) - 1] = IF Len(s) - 1 < p THEN s[Len(s) - 1] ELSE s[Len(s) - 1 + 1]
    BY <1>2, <2>1
  <2>3. Len(s) - 1 + 1 = Len(s) /\ (Len(s) - 1 < p <=> p = Len(s)) /\ (p = Len(s) => p # 1)
    BY <1>1, <1>5
  <2> QED
    BY <1>3, <2>1, <2>2, <2>3 DEF t
<1>6. Len(s) = 1 \/ Len(s) > 1
  <2>1. \A n \in Nat : 1 <= n => n = 1 \/ n > 1
    OBVIOUS
  <2>2. Len(s) \in Nat /\ 1 <= Len(s)
    BY <1>1
  <2> QED
    BY <2>1, <2>2, Zenon
<1> QED
  BY <1>4, <1>5, <1>6, Zenon

\* What a remove that finds its entry does, and that it keeps the invariant.
LEMMA RemoveKeeps ==
  ASSUME IInv, NEW name \in Names, Remove(name), inuse # 0, Match(name) # NULL,
         NEW p \in 1 .. Len(Inserted), Inserted[p] = Match(name)
  PROVE  /\ IInv'
         /\ Inserted' = Dropped(Inserted, p)
         /\ DOMAIN heap' = DOMAIN heap \ {Match(name)}
         /\ \A m \in DOMAIN heap' : heap'[m].name = heap[m].name /\ heap'[m].desc = heap[m].desc
<1> DEFINE x == Match(name)
           b == BucketOf(name, nbuckets)
           order == Dropped(Inserted, p)
<1>1. /\ nbuckets \in Nat \ {0} /\ x \in DOMAIN heap /\ x \in Nodes /\ x # NULL
      /\ BucketOf(heap[x].name, nbuckets) = b /\ b \in 0 .. nbuckets - 1
  BY MatchIs, BucketOfType DEF IInv, IsHeap
<1>2. /\ heap' = Unlink(heap, x)
      /\ buckets' = [buckets EXCEPT ![b] = IF buckets[b] = x THEN heap[x].next_bucket
                                            ELSE buckets[b]]
      /\ head' = IF head = x THEN heap[x].next_insert ELSE head
      /\ tail' = IF tail # x THEN tail ELSE IF head = x THEN NULL
                 ELSE CHOOSE m \in Before(x) : TRUE
      /\ inuse' = inuse - 1
      /\ walk' = [walk EXCEPT !.on = IF walk.at = x THEN "dangling" ELSE walk.on,
                              !.seen = walk.seen \ {x}]
      /\ status' = status
  BY DEF Remove
<1> HIDE DEF x, b
<1>3. /\ IsHeap(heap) /\ ListIs(heap, Inserted, head, tail)
      /\ Inserted \in Seq(DOMAIN heap) /\ Len(Inserted) \in Nat
      /\ DOMAIN Inserted = 1 .. Len(Inserted)
      /\ \A i, j \in 1 .. Len(Inserted) : Inserted[i] = Inserted[j] => i = j
      /\ Inserted[p] = x
      /\ IsChain(heap, Inserted, head, "next_insert")
      /\ Elements(Inserted) = DOMAIN heap /\ tail = LastOf(Inserted)
  BY DEF IInv, ListIs, IsChain, x
<1>4. /\ IsHeap(heap') /\ DOMAIN heap' = DOMAIN heap \ {x}
      /\ \A m \in DOMAIN heap' : heap'[m].name = heap[m].name /\ heap'[m].desc = heap[m].desc
  <2>1. IsHeap(Unlink(heap, x)) /\ DOMAIN Unlink(heap, x) = DOMAIN heap \ {x}
    BY <1>1, <1>3, UnlinkedHeap
  <2>2. \A m \in DOMAIN heap \ {x} : /\ Unlink(heap, x)[m].name = heap[m].name
                                    /\ Unlink(heap, x)[m].desc = heap[m].desc
    BY <1>1, <1>3, UnlinkedEntry
  <2> QED
    BY <1>2, <2>1, <2>2
<1>5. ListIs(heap', order, head', tail')
  <2>1. /\ IsChain(heap', order, head', "next_insert")
        /\ head = x <=> p = 1
    <3>1. "next_insert" \in Links
      BY DEF Links
    <3>2. /\ IsChain(Unlink(heap, Inserted[p]), Dropped(Inserted, p),
                     IF head = Inserted[p] THEN heap[Inserted[p]]["next_insert"] ELSE head,
                     "next_insert")
          /\ head = Inserted[p] <=> p = 1
      BY <1>3, <3>1, UnlinkedOn
    <3>3. Inserted[p] = x
      BY <1>3
    <3>4. head' = IF head = Inserted[p] THEN heap[Inserted[p]]["next_insert"] ELSE head
      BY <1>2, <3>3
    <3> QED
      <4> HIDE DEF order
      <4>1. IsChain(heap', order, head', "next_insert")
        BY <1>2, <3>2, <3>3, <3>4 DEF order
      <4> QED
        BY <3>2, <3>3, <4>1
  <2>2. Elements(order) = DOMAIN heap'
    <3>1. Elements(order) = Elements(Inserted) \ {Inserted[p]}
      BY <1>3, DroppedIs
    <3> QED
      BY <1>3, <1>4, <3>1
  <2>3. tail' = LastOf(order)
    <3>1. /\ tail = x <=> p = Len(Inserted)
          /\ LastOf(order) = IF p # Len(Inserted) THEN tail
                             ELSE IF p = 1 THEN NULL ELSE Inserted[p - 1]
      BY <1>3, DroppedLast
    <3>2. CASE p = Len(Inserted) /\ p # 1
      <4> DEFINE q == p - 1
      <4>1. q \in 1 .. Len(Inserted) /\ q < Len(Inserted) /\ q + 1 = p /\ Inserted[q] \in DOMAIN heap
        BY <1>3, <3>2
      <4>2. heap[Inserted[q]].next_insert = x
        BY <1>3, <4>1 DEF IsChain, NextOf
      <4>3. ASSUME NEW m \in Before(x) PROVE m = Inserted[q]
        <5>1. PICK i \in 1 .. Len(Inserted) : m = Inserted[i]
          BY <1>3 DEF Before, Elements
        <5>2. NextOf(Inserted, i) = x
          BY <1>3, <5>1 DEF Before, IsChain
        <5>3. i < Len(Inserted) /\ Inserted[i + 1] = x
          BY <1>1, <5>2 DEF NextOf
        <5>4. i + 1 = p
          BY <1>3, <5>3
        <5>5. i = q
          BY <1>3, <5>4
        <5> QED
          BY <5>1, <5>5
      <4>4. Inserted[q] \in Before(x)
        BY <4>1, <4>2 DEF Before
      <4>5. (CHOOSE m \in Before(x) : TRUE) = Inserted[q]
        BY <4>3, <4>4
      <4> QED
        BY <1>2, <2>1, <3>1, <3>2, <4>5
    <3>3. CASE ~(p = Len(Inserted) /\ p # 1)
      BY <1>2, <2>1, <3>1, <3>3
    <3> QED
      BY <3>2, <3>3
  <2> QED
    BY <2>1, <2>2, <2>3 DEF ListIs
<1>6. nbuckets' = nbuckets
  <2>1. DOMAIN buckets' = DOMAIN buckets
    BY <1>2
  <2> QED
    BY <2>1 DEF nbuckets
<1>7. BucketsAre(heap', buckets', nbuckets)
  <2> DEFINE link == "next_bucket"
  <2>0. link \in Links /\ BucketsAre(heap, buckets, nbuckets)
        /\ buckets \in [0 .. nbuckets - 1 -> Pointer]
    BY DEF Links, IInv, BucketsAre
  <2>1. buckets' \in [0 .. nbuckets - 1 -> Pointer]
    <3>1. heap[x] \in Entry
      BY <1>1, <1>3 DEF IsHeap
    <3>2. heap[x].next_bucket \in Pointer /\ buckets[b] \in Pointer
      BY <1>1, <2>0, <3>1 DEF Entry
    <3> QED
      BY <1>2, <2>0, <3>2
  <2>2. ASSUME NEW c \in 0 .. nbuckets - 1
        PROVE  BucketIs(heap', ChainIn(heap', buckets'[c], link), buckets'[c], c, nbuckets)
    <3> DEFINE s == ChainIn(heap, buckets[c], link)
    <3>1. /\ IsChain(heap, s, buckets[c], link)
          /\ Elements(s) = {m \in DOMAIN heap : BucketOf(heap[m].name, nbuckets) = c}
      BY <2>0 DEF BucketsAre, BucketIs
    <3> HIDE DEF s
    <3>2. CASE c = b
      <4>1. PICK q \in 1 .. Len(s) : s[q] = x
        <5>1. x \in Elements(s) /\ DOMAIN s = 1 .. Len(s)
          BY <1>1, <3>1, <3>2 DEF IsChain
        <5> QED
          BY <5>1 DEF Elements
      <4>2. IsChain(heap', Dropped(s, q), buckets'[c], link)
        <5>1. IsChain(Unlink(heap, s[q]), Dropped(s, q),
                      IF buckets[c] = s[q] THEN heap[s[q]][link] ELSE buckets[c], link)
          BY <1>3, <2>0, <3>1, UnlinkedOn
        <5>2. buckets'[c] = IF buckets[c] = x THEN heap[x][link] ELSE buckets[c]
          BY <1>2, <2>0, <3>2
        <5> QED
          BY <1>2, <4>1, <5>1, <5>2
      <4>3. Elements(Dropped(s, q)) = {m \in DOMAIN heap' : BucketOf(heap'[m].name, nbuckets) = c}
        <5>1. Elements(Dropped(s, q)) = Elements(s) \ {x}
          BY <3>1, <4>1, DroppedIs DEF IsChain
        <5> QED
          BY <1>4, <3>1, <5>1
      <4>4. ChainIn(heap', buckets'[c], link) = Dropped(s, q)
        BY <1>4, <4>2, ChainIsUnique
      <4> QED
        BY <4>2, <4>3, <4>4 DEF BucketIs
    <3>3. CASE c # b
      <4>1. x \notin Elements(s)
        BY <1>1, <3>1, <3>3
      <4>2. IsChain(Unlink(heap, x), s, buckets[c], link)
        BY <1>1, <1>3, <2>0, <3>1, <4>1, UnlinkedOff
      <4>3. buckets'[c] = buckets[c]
        BY <1>2, <2>0, <3>3
      <4>4. Elements(s) = {m \in DOMAIN heap' : BucketOf(heap'[m].name, nbuckets) = c}
        BY <1>4, <3>1, <4>1
      <4>5. IsChain(heap', s, buckets'[c], link)
        BY <1>2, <4>2, <4>3
      <4>6. ChainIn(heap', buckets'[c], link) = s
        BY <1>4, <4>5, ChainIsUnique
      <4> QED
        BY <4>4, <4>5, <4>6 DEF BucketIs
    <3> QED
      BY <3>2, <3>3
  <2> QED
    BY <1>1, <2>1, <2>2 DEF BucketsAre
<1>8. Inserted' = order
  BY <1>4, <1>5, InsertedNext
<1>9. inuse' = Cardinality(DOMAIN heap')
  BY <1>1, <1>2, <1>3, <1>4, FS_RemoveElement DEF IInv, IsHeap
<1>10. LoadBounded'
  <2>1. inuse \in Nat
    BY <1>3, FS_CardinalityType DEF IInv, IsHeap
  <2> QED
    BY <1>1, <1>2, <1>6, <2>1 DEF IInv, LoadBounded, Running
<1>11. WalkOK'
  <2>1. walk \in [on : {"idle", "walking", "dangling"}, at : Pointer, seen : SUBSET Nodes]
    BY DEF IInv, WalkOK
  <2>2. /\ walk' \in [on : {"idle", "walking", "dangling"}, at : Pointer, seen : SUBSET Nodes]
        /\ walk'.on = IF walk.at = x THEN "dangling" ELSE walk.on
        /\ walk'.at = walk.at
        /\ walk'.seen = walk.seen \ {x}
    BY <1>2, <2>1
  <2>3. walk'.on = "idle" => walk' = NoWalk
    <3> SUFFICES ASSUME walk'.on = "idle" PROVE walk' = NoWalk
      OBVIOUS
    <3>1. walk = NoWalk
      BY <2>2 DEF IInv, WalkOK
    <3> QED
      BY <2>2, <3>1 DEF NoWalk
  <2>4. ASSUME walk'.on = "walking"
        PROVE  \E q \in 1 .. Len(order) : /\ walk'.at = order[q]
                                          /\ walk'.seen = {order[i] : i \in 1 .. q}
    <3>1. walk.on = "walking" /\ walk.at # x
      BY <2>2, <2>4
    <3>2. PICK r \in 1 .. Len(Inserted) : /\ walk.at = Inserted[r]
                                          /\ walk.seen = {Inserted[i] : i \in 1 .. r}
      BY <3>1 DEF IInv, WalkOK
    <3>3. r # p
      BY <1>3, <3>1, <3>2
    <3>4. \E q \in 1 .. Len(order) :
            /\ order[q] = Inserted[r]
            /\ {order[i] : i \in 1 .. q} = {Inserted[i] : i \in 1 .. r} \ {Inserted[p]}
      BY <1>3, <3>3, DroppedPrefix
    <3> HIDE DEF order
    <3> QED
      BY <1>3, <2>2, <3>2, <3>4
  <2> QED
    BY <1>8, <2>2, <2>3, <2>4 DEF WalkOK
<1>12. DOMAIN heap' # {} => nbuckets' # 0
  BY <1>1, <1>6
<1>13. ListIs(heap, Inserted, head, tail)' /\ BucketsAre(heap, buckets, nbuckets)' /\ IsHeap(heap)'
  BY <1>4, <1>5, <1>6, <1>7, <1>8
<1> QED
  BY <1>4, <1>8, <1>9, <1>10, <1>11, <1>12, <1>13 DEF IInv, x
-----------------------------------------------------------------------------
LEMMA ReplaceKeeps ==
  ASSUME IInv, NEW name \in Names, NEW desc \in Descs, Replace(name, desc)
  PROVE  /\ IInv'
         /\ Inserted' = Inserted
         /\ DOMAIN heap' = DOMAIN heap
         /\ \A m \in DOMAIN heap :
              /\ heap'[m].name = heap[m].name
              /\ heap'[m].desc = IF m = Match(name) THEN desc ELSE heap[m].desc
<1>1. /\ Match(name) # NULL
      /\ heap' = [heap EXCEPT ![Match(name)] = [heap[Match(name)] EXCEPT !.desc = desc]]
      /\ UNCHANGED <<head, tail, buckets, inuse, found, walk, status>>
  BY DEF Replace
<1> DEFINE x == Match(name)
<1>2. x \in DOMAIN heap /\ IsHeap(heap) /\ ListIs(heap, Inserted, head, tail)
  BY <1>1, MatchIs DEF IInv
<1> HIDE DEF x
<1>3. DOMAIN heap' = DOMAIN heap /\ heap' = [m \in DOMAIN heap |-> heap'[m]]
  BY <1>1
<1>4. ASSUME NEW m \in DOMAIN heap
      PROVE  /\ heap'[m] \in Entry
             /\ heap'[m].name = heap[m].name
             /\ heap'[m].desc = IF m = x THEN desc ELSE heap[m].desc
             /\ heap'[m].next_insert = heap[m].next_insert
             /\ heap'[m].next_bucket = heap[m].next_bucket
  <2>1. heap[m] \in Entry
    BY <1>2 DEF IsHeap
  <2>2. heap'[m] = IF m = x THEN [heap[m] EXCEPT !.desc = desc] ELSE heap[m]
    BY <1>1, <1>2 DEF x
  <2> QED
    BY <2>1, <2>2 DEF Entry
<1>5. IsHeap(heap')
  BY <1>2, <1>3, <1>4 DEF IsHeap
<1>6. ListIs(heap', Inserted, head', tail')
  <2>1. \A m \in Elements(Inserted) : heap'[m]["next_insert"] = heap[m]["next_insert"]
    BY <1>2, <1>4 DEF ListIs
  <2>2. IsChain(heap', Inserted, head, "next_insert")
    BY <1>2, <1>3, <2>1, ChainIsKept DEF ListIs
  <2> QED
    BY <1>1, <1>2, <1>3, <2>2 DEF ListIs
<1>7. Inserted' = Inserted
  BY <1>5, <1>6, InsertedNext
<1>8. nbuckets' = nbuckets /\ buckets' = buckets
  BY <1>1 DEF nbuckets
<1>9. ASSUME NEW b \in 0 .. nbuckets - 1
      PROVE  BucketIs(heap', ChainIn(heap', buckets[b], "next_bucket"), buckets[b], b, nbuckets)
  <2> DEFINE s == ChainIn(heap, buckets[b], "next_bucket")
  <2>1. /\ IsChain(heap, s, buckets[b], "next_bucket")
        /\ Elements(s) = {m \in DOMAIN heap : BucketOf(heap[m].name, nbuckets) = b}
    BY DEF IInv, BucketsAre, BucketIs
  <2> HIDE DEF s
  <2>2. IsChain(heap', s, buckets[b], "next_bucket")
    <3>1. \A m \in Elements(s) : heap'[m]["next_bucket"] = heap[m]["next_bucket"]
      BY <1>4, <2>1
    <3> QED
      BY <1>3, <2>1, <3>1, ChainIsKept
  <2>3. Elements(s) = {m \in DOMAIN heap' : BucketOf(heap'[m].name, nbuckets) = b}
    BY <1>3, <1>4, <2>1
  <2>4. ChainIn(heap', buckets[b], "next_bucket") = s
    BY <1>5, <2>2, ChainIsUnique
  <2> QED
    BY <2>2, <2>3, <2>4 DEF BucketIs
<1>10. BucketsAre(heap', buckets', nbuckets')
  BY <1>8, <1>9 DEF IInv, BucketsAre
<1>11. LoadBounded' /\ WalkOK'
  BY <1>1, <1>7, <1>8 DEF IInv, LoadBounded, WalkOK, Running
<1>12. inuse' = Cardinality(DOMAIN heap') /\ (DOMAIN heap' # {} => nbuckets' # 0)
  BY <1>1, <1>3, <1>8 DEF IInv
<1>13. IInv'
  <2>1. ListIs(heap, Inserted, head, tail)' /\ BucketsAre(heap, buckets, nbuckets)' /\ IsHeap(heap)'
    BY <1>5, <1>6, <1>7, <1>10
  <2> QED
    BY <1>11, <1>12, <2>1 DEF IInv
<1> QED
  BY <1>3, <1>4, <1>7, <1>13 DEF x

\* What leaves the table alone leaves the invariant to the walk.
LEMMA TableKept ==
  ASSUME IInv, UNCHANGED <<table, status>>, WalkOK'
  PROVE  IInv' /\ Inserted' = Inserted
<1>1. UNCHANGED <<heap, head, tail, buckets, inuse, status>>
  BY DEF table
<1>2. Inserted' = Inserted /\ nbuckets' = nbuckets /\ LoadBounded'
  BY <1>1 DEF Inserted, Chain, nbuckets, IInv, LoadBounded, Running
<1> QED
  BY <1>1, <1>2 DEF IInv

LEMMA SameList ==
  ASSUME UNCHANGED table
  PROVE  Inserted' = Inserted /\ nbuckets' = nbuckets
BY DEF table, Inserted, Chain, nbuckets

LEMMA WalkKeeps ==
  ASSUME IInv, WalkBegin \/ WalkNext \/ WalkEnd
  PROVE  WalkOK'
<1>1. /\ Inserted' = Inserted /\ Len(Inserted) \in Nat
      /\ Inserted \in Seq(DOMAIN heap) /\ DOMAIN heap \subseteq Nodes
      /\ head = NextOf(Inserted, 0)
      /\ \A i \in 1 .. Len(Inserted) : heap[Inserted[i]].next_insert = NextOf(Inserted, i)
      /\ \A i \in 1 .. Len(Inserted) : Inserted[i] \in Nodes /\ Inserted[i] \in Pointer
  <2>1. UNCHANGED table
    BY DEF WalkBegin, WalkNext, WalkEnd
  <2>2. IsChain(heap, Inserted, head, "next_insert") /\ DOMAIN heap \subseteq Nodes
    BY DEF IInv, ListIs, IsHeap
  <2>3. \A i \in 1 .. Len(Inserted) : heap[Inserted[i]].next_insert = NextOf(Inserted, i)
    BY <2>2 DEF IsChain
  <2>4. /\ Inserted \in Seq(DOMAIN heap) /\ Len(Inserted) \in Nat
        /\ head = NextOf(Inserted, 0)
        /\ \A i \in 1 .. Len(Inserted) : Inserted[i] \in DOMAIN heap
    BY <2>2 DEF IsChain
  <2>5. Inserted' = Inserted
    BY <2>1, SameList
  <2> QED
    BY <2>2, <2>3, <2>4, <2>5 DEF Pointer
<1>2. walk.seen \in SUBSET Nodes /\ walk.at \in Pointer
  BY DEF IInv, WalkOK
<1>3. ASSUME NEW p \in 1 .. Len(Inserted),
             walk' = WalkTo(Inserted[p]),
             walk.seen = {Inserted[i] : i \in 1 .. (p - 1)}
      PROVE  WalkOK'
  <2>1. \A i \in Int : i \in 1 .. p <=> (i \in 1 .. (p - 1) \/ i = p)
    BY <1>1
  <2>2. walk'.seen = {Inserted[i] : i \in 1 .. p}
    BY <1>3, <2>1 DEF WalkTo
  <2>3. walk' \in [on : {"idle", "walking", "dangling"}, at : Pointer, seen : SUBSET Nodes]
    BY <1>1, <1>2, <1>3 DEF WalkTo
  <2>4. walk'.on = "walking" /\ walk'.at = Inserted[p]
    BY <1>3 DEF WalkTo
  <2> QED
    BY <1>1, <2>2, <2>3, <2>4 DEF WalkOK
<1>4. CASE WalkBegin
  <2>1. walk' = WalkTo(head) /\ head # NULL /\ walk.seen = {}
    BY <1>4 DEF WalkBegin, IInv, WalkOK, NoWalk
  <2>2. 1 \in 1 .. Len(Inserted) /\ head = Inserted[1]
    BY <1>1, <2>1 DEF NextOf
  <2>3. walk.seen = {Inserted[i] : i \in 1 .. (1 - 1)}
    BY <2>1
  <2> QED
    BY <1>3, <2>1, <2>2, <2>3
<1>5. CASE WalkNext
  <2>1. /\ walk.on = "walking" /\ heap[walk.at].next_insert # NULL
        /\ walk' = WalkTo(heap[walk.at].next_insert)
    BY <1>5 DEF WalkNext
  <2>2. PICK p \in 1 .. Len(Inserted) : /\ walk.at = Inserted[p]
                                        /\ walk.seen = {Inserted[i] : i \in 1 .. p}
    BY <2>1 DEF IInv, WalkOK
  <2>3. NextOf(Inserted, p) # NULL /\ walk' = WalkTo(NextOf(Inserted, p))
    BY <1>1, <2>1, <2>2
  <2>4. p + 1 \in 1 .. Len(Inserted) /\ NextOf(Inserted, p) = Inserted[p + 1] /\ p + 1 - 1 = p
    BY <1>1, <2>3 DEF NextOf
  <2> QED
    BY <1>3, <2>2, <2>3, <2>4
<1>6. CASE WalkEnd
  <2>1. walk' = NoWalk
    BY <1>6 DEF WalkEnd
  <2> QED
    BY <2>1 DEF WalkOK, NoWalk, Pointer
<1> QED
  BY <1>4, <1>5, <1>6

LEMMA InitInv ==
  ASSUME Init
  PROVE  IInv /\ Inserted = <<>>
<1>1. /\ heap = <<>> /\ DOMAIN heap = {} /\ head = NULL /\ tail = NULL /\ buckets = <<>>
      /\ inuse = 0 /\ walk = NoWalk
  BY DEF Init
<1>2. IsHeap(heap) /\ Cardinality(DOMAIN heap) = 0 /\ nbuckets = 0
  <2>1. IsFiniteSet({}) /\ Cardinality({}) = 0
    BY FS_EmptySet
  <2>2. heap \in [DOMAIN heap -> Entry]
    BY <1>1
  <2>3. nbuckets = 0
    BY <1>1, <2>1 DEF nbuckets
  <2> QED
    BY <1>1, <2>1, <2>2, <2>3 DEF IsHeap
<1>3. ListIs(heap, <<>>, head, tail)
  BY <1>1 DEF ListIs, IsChain, NextOf, Elements, LastOf
<1>4. Inserted = <<>>
  BY <1>2, <1>3, ChainIsUnique DEF ListIs, Inserted, Chain
<1>5. BucketsAre(heap, buckets, nbuckets)
  <2>1. 0 .. nbuckets - 1 = {} /\ nbuckets \in Nat
    BY <1>2
  <2>2. buckets \in [{} -> Pointer]
    BY <1>1
  <2> QED
    BY <2>1, <2>2 DEF BucketsAre
<1>6. LoadBounded /\ WalkOK
  BY <1>1, <1>2 DEF LoadBounded, WalkOK, NoWalk, Pointer
<1> QED
  BY <1>1, <1>2, <1>3, <1>4, <1>5, <1>6 DEF IInv

\* A walk that reads a freed entry ends the behaviour.
LEMMA FreedKeeps ==
  ASSUME IInv, WalkFreed
  PROVE  IInv' /\ Inserted' = Inserted
<1>1. UNCHANGED table /\ walk' = walk /\ status' = "undefined"
  BY DEF WalkFreed
<1>2. UNCHANGED <<heap, head, tail, buckets, inuse>>
  BY <1>1 DEF table
<1>3. Inserted' = Inserted /\ nbuckets' = nbuckets /\ LoadBounded'
  BY <1>1, <1>2, SameList DEF LoadBounded, Running
<1>4. WalkOK'
  BY <1>1, <1>3 DEF IInv, WalkOK
<1> QED
  BY <1>2, <1>3, <1>4 DEF IInv

\* Where the entry a remove finds is in the list.
LEMMA InsertedAt ==
  ASSUME IInv, NEW m \in DOMAIN heap
  PROVE  \E p \in 1 .. Len(Inserted) : Inserted[p] = m
BY DEF IInv, ListIs, IsChain, Elements

LEMMA NextInv ==
  ASSUME IInv, [Next]_vars
  PROVE  IInv'
<1>1. CASE UNCHANGED vars
  <2>1. UNCHANGED <<table, status, walk>> /\ Inserted' = Inserted
    BY <1>1, SameList DEF vars, table
  <2>2. WalkOK'
    BY <2>1 DEF IInv, WalkOK
  <2> QED
    BY <2>1, <2>2, TableKept
<1>2. ASSUME NEW name \in Names, Lookup(name) PROVE IInv'
  <2>1. UNCHANGED <<table, status, walk>> /\ Inserted' = Inserted
    BY <1>2, SameList DEF Lookup, table
  <2>2. WalkOK'
    BY <2>1 DEF IInv, WalkOK
  <2> QED
    BY <2>1, <2>2, TableKept
<1>3. ASSUME NEW name \in Names, Remove(name) PROVE IInv'
  <2>1. CASE inuse = 0 \/ Match(name) = NULL
    <3>1. UNCHANGED <<table, status, walk>> /\ Inserted' = Inserted
      BY <1>3, <2>1, SameList DEF Remove, table
    <3>2. WalkOK'
      BY <3>1 DEF IInv, WalkOK
    <3> QED
      BY <3>1, <3>2, TableKept
  <2>2. CASE inuse # 0 /\ Match(name) # NULL
    <3>1. PICK p \in 1 .. Len(Inserted) : Inserted[p] = Match(name)
      BY <2>2, MatchIs, InsertedAt
    <3> QED
      BY <1>3, <2>2, <3>1, RemoveKeeps
  <2> QED
    BY <2>1, <2>2
<1>4. ASSUME NEW name \in Names, NEW desc \in Descs, Replace(name, desc) PROVE IInv'
  BY <1>4, ReplaceKeeps
<1>5. ASSUME NEW name \in Names, NEW desc \in Descs, NEW n \in Nodes, Add(n, name, desc)
      PROVE  IInv'
  BY <1>5, AddKeeps
<1>6. CASE WalkBegin \/ WalkNext \/ WalkEnd
  <2>1. UNCHANGED <<table, status>>
    BY <1>6 DEF WalkBegin, WalkNext, WalkEnd, table
  <2> QED
    BY <1>6, <2>1, WalkKeeps, TableKept
<1>7. CASE WalkFreed
  BY <1>7, FreedKeeps
<1> QED
  BY <1>1, <1>2, <1>3, <1>4, <1>5, <1>6, <1>7, Zenon DEF Next

LEMMA Invariance == Spec => []IInv
<1>1. Init => IInv
  BY InitInv
<1>2. IInv /\ [Next]_vars => IInv'
  BY NextInv
<1> QED
  BY <1>1, <1>2, PTL DEF Spec
-----------------------------------------------------------------------------
(***************************************************************************)
(* Whatever the names, their hashes and the bucket counts, the insertion   *)
(* list and the bucket chains hold the same entries, each once, and the    *)
(* count and the tail agree with them (_ejs_propertymap_insert, _remove    *)
(* and _rehash).                                                           *)
(***************************************************************************)
THEOREM LinkingsAgree == Spec => []WellLinked
<1>1. ASSUME IInv PROVE WellLinked
  <2>1. /\ Elements(Inserted) = DOMAIN heap /\ Cardinality(DOMAIN heap) = inuse
        /\ tail = LastOf(Inserted) /\ IsFiniteSet(DOMAIN heap)
        /\ Inserted \in Seq(DOMAIN heap)
        /\ \A i, j \in 1 .. Len(Inserted) : Inserted[i] = Inserted[j] => i = j
    BY <1>1 DEF IInv, ListIs, IsHeap, IsChain
  <2>2. Len(Inserted) = inuse
    BY <2>1, ShortSequence
  <2>3. ASSUME NEW b \in DOMAIN buckets
        PROVE  /\ Elements(BucketChain(b)) =
                    {n \in DOMAIN heap : BucketOf(heap[n].name, nbuckets) = b}
               /\ Len(BucketChain(b)) = Cardinality(Elements(BucketChain(b)))
    <3> DEFINE s == BucketChain(b)
    <3>1. b \in 0 .. nbuckets - 1
      BY <1>1 DEF IInv, BucketsAre
    <3>2. /\ IsChain(heap, s, buckets[b], "next_bucket")
          /\ Elements(s) = {n \in DOMAIN heap : BucketOf(heap[n].name, nbuckets) = b}
      BY <1>1, <3>1, BucketChainIs DEF BucketChain
    <3> HIDE DEF s
    <3>3. /\ s \in Seq(DOMAIN heap) /\ DOMAIN s = 1 .. Len(s) /\ Len(s) \in Nat
          /\ \A i, j \in 1 .. Len(s) : s[i] = s[j] => i = j
      BY <3>2 DEF IsChain
    <3>4. s \in Seq(Elements(s))
      <4>1. s \in [1 .. Len(s) -> Elements(s)]
        BY <3>3 DEF Elements
      <4> QED
        BY <3>3, <4>1, FunctionIsSeq
    <3>5. IsFiniteSet(Elements(s))
      <4>1. Elements(s) \in SUBSET DOMAIN heap
        BY <3>2
      <4> QED
        BY <2>1, <4>1, FS_Subset
    <3>6. Len(s) = Cardinality(Elements(s))
      BY <3>3, <3>4, <3>5, ShortSequence
    <3> QED
      BY <3>2, <3>6 DEF s
  <2> QED
    BY <2>1, <2>2, <2>3 DEF WellLinked
<1> QED
  BY <1>1, Invariance, PTL

(***************************************************************************)
(* A table in use is never more than three quarters full, whatever bucket  *)
(* counts it grows through, provided each has room for one entry more than *)
(* the one before: rehash in _ejs_propertymap_insert grows it once only.   *)
(***************************************************************************)
THEOREM TableHasRoom == Spec => []LoadBounded
<1>1. IInv => LoadBounded
  BY DEF IInv
<1> QED
  BY <1>1, Invariance, PTL

(***************************************************************************)
(* A loop over the insertion list that lets JavaScript change the map      *)
(* between two entries, and whose entry was not freed, has read every      *)
(* entry when it ends.                                                     *)
(***************************************************************************)
THEOREM WalkIsComplete == Spec => WalkReadsAll
<1>1. ASSUME IInv, [Next]_vars, walk.on = "walking", walk'.on = "idle"
      PROVE  walk.seen = DOMAIN heap
  <2>1. walk' # walk
    BY <1>1
  <2>2. walk \in [on : {"idle", "walking", "dangling"}, at : Pointer, seen : SUBSET Nodes]
    BY <1>1 DEF IInv, WalkOK
  <2>3. ASSUME NEW name \in Names PROVE ~Lookup(name) /\ ~Remove(name)
    <3>1. ~Lookup(name)
      BY <2>1 DEF Lookup
    <3>2. ASSUME Remove(name) PROVE walk'.on \in {walk.on, "dangling"}
      BY <2>2, <3>2 DEF Remove
    <3> QED
      BY <1>1, <3>1, <3>2
  <2>4. ASSUME NEW name \in Names, NEW desc \in Descs
        PROVE  ~Replace(name, desc) /\ \A n \in Nodes : ~Add(n, name, desc)
    BY <2>1 DEF Replace, Add
  <2>5. ~WalkBegin /\ ~WalkFreed
    BY <1>1, <2>1 DEF WalkBegin, WalkFreed
  <2>6. ~WalkNext
    BY <1>1 DEF WalkNext, WalkTo
  <2>7. ~UNCHANGED vars
    BY <2>1 DEF vars
  <2>8. WalkEnd
    BY <1>1, <2>3, <2>4, <2>5, <2>6, <2>7, Zenon DEF Next
  <2>9. PICK p \in 1 .. Len(Inserted) : /\ walk.at = Inserted[p]
                                        /\ walk.seen = {Inserted[i] : i \in 1 .. p}
    BY <1>1 DEF IInv, WalkOK
  <2>10. /\ IsChain(heap, Inserted, head, "next_insert") /\ Elements(Inserted) = DOMAIN heap
         /\ DOMAIN Inserted = 1 .. Len(Inserted) /\ Len(Inserted) \in Nat
         /\ NULL \notin DOMAIN heap
         /\ \A i \in 1 .. Len(Inserted) : Inserted[i] \in DOMAIN heap
    BY <1>1, PropertyMapAssumption DEF IInv, ListIs, IsChain, IsHeap
  <2>11. NextOf(Inserted, p) = NULL
    BY <2>8, <2>9, <2>10 DEF WalkEnd, IsChain
  <2>12. p = Len(Inserted)
    <3>1. ASSUME p < Len(Inserted) PROVE FALSE
      <4>1. p + 1 \in 1 .. Len(Inserted) /\ NextOf(Inserted, p) = Inserted[p + 1]
        BY <2>10, <3>1 DEF NextOf
      <4> QED
        BY <2>10, <2>11, <4>1
    <3>2. \A n \in Nat : \A i \in 1 .. n : i < n \/ i = n
      OBVIOUS
    <3> QED
      BY <2>10, <3>1, <3>2
  <2> QED
    BY <2>9, <2>10, <2>12 DEF Elements
<1>2. IInv /\ [Next]_vars =>
        [walk.on = "walking" /\ walk'.on = "idle" => walk.seen = DOMAIN heap]_vars
  BY <1>1
<1> QED
  BY <1>2, Invariance, PTL DEF Spec, WalkReadsAll
-----------------------------------------------------------------------------
(***************************************************************************)
(* The refinement is of names that strict equality tells apart as the      *)
(* table does: NaN, which equals no name, is not among them, and of the    *)
(* two zeros, which are equal, one only is.                                *)
(***************************************************************************)
OneForm == \A m, n \in Names : StrictEq(m, n) <=> m = n

\* No two entries have the same name.
NamesOnce == \A m, n \in DOMAIN heap : heap[m].name = heap[n].name => m = n

Listed == Properties(heap, Inserted)

LEMMA ListedIs ==
  ASSUME IInv
  PROVE  /\ Len(Inserted) \in Nat /\ DOMAIN Inserted = 1 .. Len(Inserted)
         /\ DOMAIN Listed = 1 .. Len(Inserted) /\ Len(Listed) = Len(Inserted)
         /\ \A i \in 1 .. Len(Inserted) : /\ Inserted[i] \in DOMAIN heap
                                         /\ Listed[i].name = heap[Inserted[i]].name
                                         /\ Listed[i].desc = heap[Inserted[i]].desc
                                         /\ Listed[i] = [name |-> heap[Inserted[i]].name,
                                                        desc |-> heap[Inserted[i]].desc]
         /\ \A i, j \in 1 .. Len(Inserted) : Inserted[i] = Inserted[j] => i = j
         /\ Inserted \in Seq(DOMAIN heap)
<1>1. /\ Len(Inserted) \in Nat /\ DOMAIN Inserted = 1 .. Len(Inserted)
      /\ \A i \in 1 .. Len(Inserted) : Inserted[i] \in DOMAIN heap
      /\ \A i, j \in 1 .. Len(Inserted) : Inserted[i] = Inserted[j] => i = j
      /\ Inserted \in Seq(DOMAIN heap)
  BY DEF IInv, ListIs, IsChain
<1>2. Listed = [i \in 1 .. Len(Inserted) |-> [name |-> heap[Inserted[i]].name,
                                             desc |-> heap[Inserted[i]].desc]]
  BY DEF Listed, Properties
<1>3. Len(Listed) = Len(Inserted) /\ DOMAIN Listed = 1 .. Len(Inserted)
  BY <1>1, <1>2
<1>4. \A i \in 1 .. Len(Inserted) : /\ Listed[i].name = heap[Inserted[i]].name
                                    /\ Listed[i].desc = heap[Inserted[i]].desc
                                    /\ Listed[i] = [name |-> heap[Inserted[i]].name,
                                                   desc |-> heap[Inserted[i]].desc]
  BY <1>2
<1> QED
  BY <1>1, <1>3, <1>4

\* The table has a name exactly where the scan of the bucket finds it.
LEMMA PlacesIs ==
  ASSUME IInv, NamesOnce, OneForm, NEW name \in Names
  PROVE  /\ Match(name) = NULL => Abstract!Places(name) = {}
         /\ \A p \in 1 .. Len(Inserted) :
              Inserted[p] = Match(name) => Abstract!Places(name) = {p}
<1>1. Abstract!Places(name) = {i \in 1 .. Len(Inserted) : heap[Inserted[i]].name = name}
  <2>1. Abstract!Places(name) = {i \in DOMAIN Listed : Listed[i].name = name}
    BY DEF Abstract!Places, Listed
  <2> QED
    BY <2>1, ListedIs
<1>2. \A m \in DOMAIN heap : heap[m].name \in Names
  BY DEF IInv, IsHeap, Entry
<1>3. \A i \in 1 .. Len(Inserted) : Inserted[i] \in DOMAIN heap
  BY ListedIs
<1>4. ASSUME Match(name) = NULL PROVE Abstract!Places(name) = {}
  <2>1. \A m \in DOMAIN heap : ~StrictEq(heap[m].name, name)
    BY <1>4, MatchNone
  <2>2. \A m \in DOMAIN heap : heap[m].name # name
    BY <1>2, <2>1, OneForm DEF OneForm
  <2> QED
    BY <1>1, <1>3, <2>2
<1>5. ASSUME NEW p \in 1 .. Len(Inserted), Inserted[p] = Match(name)
      PROVE  Abstract!Places(name) = {p}
  <2>1. Match(name) # NULL
    BY <1>3, <1>5, PropertyMapAssumption DEF IInv, IsHeap
  <2>2. StrictEq(heap[Inserted[p]].name, name)
    BY <1>5, <2>1, MatchIs
  <2>3. heap[Inserted[p]].name = name
    BY <1>2, <1>3, <2>2, OneForm DEF OneForm
  <2>4. ASSUME NEW i \in 1 .. Len(Inserted), heap[Inserted[i]].name = name PROVE i = p
    <3>1. Inserted[i] = Inserted[p]
      BY <1>3, <2>3, <2>4 DEF NamesOnce
    <3> QED
      BY <3>1, ListedIs
  <2> QED
    BY <1>1, <2>3, <2>4
<1> QED
  BY <1>4, <1>5

\* An entry is never added beside one of the same name.
LEMMA NamesKept ==
  ASSUME OneForm, IInv, NamesOnce, [Next]_vars
  PROVE  NamesOnce'
<1>1. CASE UNCHANGED heap
  BY <1>1 DEF NamesOnce
<1>2. ASSUME NEW name \in Names, Remove(name) PROVE NamesOnce'
  <2>1. CASE inuse = 0 \/ Match(name) = NULL
    <3>1. UNCHANGED heap
      BY <1>2, <2>1 DEF Remove, table
    <3> QED
      BY <1>1, <3>1
  <2>2. CASE inuse # 0 /\ Match(name) # NULL
    <3>1. PICK p \in 1 .. Len(Inserted) : Inserted[p] = Match(name)
      BY <2>2, MatchIs, InsertedAt
    <3>2. /\ DOMAIN heap' \subseteq DOMAIN heap
          /\ \A m \in DOMAIN heap' : heap'[m].name = heap[m].name
      BY <1>2, <2>2, <3>1, RemoveKeeps
    <3> QED
      BY <3>2 DEF NamesOnce
  <2> QED
    BY <2>1, <2>2
<1>3. ASSUME NEW name \in Names, NEW desc \in Descs, Replace(name, desc) PROVE NamesOnce'
  <2>1. DOMAIN heap' = DOMAIN heap /\ \A m \in DOMAIN heap : heap'[m].name = heap[m].name
    BY <1>3, ReplaceKeeps
  <2> QED
    BY <2>1 DEF NamesOnce
<1>4. ASSUME NEW name \in Names, NEW desc \in Descs, NEW n \in Nodes, Add(n, name, desc)
      PROVE  NamesOnce'
  <2>1. /\ DOMAIN heap' = DOMAIN heap \cup {n} /\ heap'[n].name = name
        /\ \A m \in DOMAIN heap : heap'[m].name = heap[m].name
    BY <1>4, AddKeeps
  <2>2. Match(name) = NULL
    BY <1>4 DEF Add
  <2>3. \A m \in DOMAIN heap : heap[m].name # name
    <3>1. \A m \in DOMAIN heap : ~StrictEq(heap[m].name, name)
      BY <2>2, MatchNone
    <3>2. \A m \in DOMAIN heap : heap[m].name \in Names
      BY DEF IInv, IsHeap, Entry
    <3> QED
      BY <3>1, <3>2, OneForm DEF OneForm
  <2> QED
    BY <2>1, <2>3 DEF NamesOnce
<1>5. ASSUME \/ UNCHANGED vars \/ (\E name \in Names : Lookup(name))
             \/ WalkBegin \/ WalkNext \/ WalkEnd \/ WalkFreed
      PROVE  UNCHANGED heap
  BY <1>5 DEF vars, table, Lookup, WalkBegin, WalkNext, WalkEnd, WalkFreed
<1> QED
  BY <1>1, <1>2, <1>3, <1>4, <1>5, Zenon DEF Next
\* The table after a step, from the list and the entries after it.
LEMMA ListedNext ==
  ASSUME IInv', NEW t, DOMAIN t = 1 .. Len(Inserted'), t = [i \in DOMAIN t |-> t[i]],
         \A i \in 1 .. Len(Inserted') :
           t[i] = [name |-> heap'[Inserted'[i]].name, desc |-> heap'[Inserted'[i]].desc]
  PROVE  Listed' = t
<1>1. Listed' = [i \in 1 .. Len(Inserted') |-> [name |-> heap'[Inserted'[i]].name,
                                              desc |-> heap'[Inserted'[i]].desc]]
  BY DEF Listed, Properties
<1> QED
  BY <1>1

LEMMA LookupRefines ==
  ASSUME OneForm, IInv, NamesOnce, NEW name \in Names, Lookup(name)
  PROVE  Abstract!Lookup(name)
<1>1. Listed' = Listed
  BY SameList DEF Lookup, Listed, table
<1>2. inuse = 0 => Match(name) = NULL
  <2> SUFFICES ASSUME inuse = 0, Match(name) # NULL PROVE FALSE
    OBVIOUS
  <2>1. Match(name) \in DOMAIN heap /\ Cardinality(DOMAIN heap) = 0 /\ IsFiniteSet(DOMAIN heap)
    BY MatchIs DEF IInv, IsHeap
  <2> QED
    BY <2>1, FS_EmptySet
<1>3. found' = IF Match(name) = NULL THEN NULL ELSE heap[Match(name)].desc
  BY <1>2 DEF Lookup
<1>4. found' = IF Abstract!Places(name) = {} THEN NULL
               ELSE Listed[CHOOSE i \in Abstract!Places(name) : TRUE].desc
  <2>1. CASE Match(name) = NULL
    BY <1>3, <2>1, PlacesIs
  <2>2. CASE Match(name) # NULL
    <3>1. PICK p \in 1 .. Len(Inserted) : Inserted[p] = Match(name)
      BY <2>2, MatchIs, InsertedAt
    <3>2. Abstract!Places(name) = {p}
      BY <3>1, PlacesIs
    <3>3. Abstract!Places(name) # {} /\ (CHOOSE i \in Abstract!Places(name) : TRUE) = p
      BY <3>2
    <3>4. Listed[p].desc = heap[Match(name)].desc
      BY <3>1, ListedIs
    <3> QED
      BY <1>3, <2>2, <3>3, <3>4
  <2> QED
    BY <2>1, <2>2
<1> QED
  BY <1>1, <1>4 DEF Abstract!Lookup, Listed

LEMMA ReplaceRefines ==
  ASSUME OneForm, IInv, NamesOnce, NEW name \in Names, NEW desc \in Descs,
         Replace(name, desc)
  PROVE  Abstract!Insert(name, desc)
<1> DEFINE t == [i \in DOMAIN Listed |->
                   IF i \in Abstract!Places(name) THEN [name |-> name, desc |-> desc]
                   ELSE Listed[i]]
<1>1. Match(name) # NULL /\ UNCHANGED found
  BY DEF Replace
<1>2. PICK p \in 1 .. Len(Inserted) : Inserted[p] = Match(name)
  BY <1>1, MatchIs, InsertedAt
<1>3. Abstract!Places(name) = {p}
  BY <1>2, PlacesIs
<1>4. /\ IInv' /\ Inserted' = Inserted
      /\ \A m \in DOMAIN heap :
           /\ heap'[m].name = heap[m].name
           /\ heap'[m].desc = IF m = Match(name) THEN desc ELSE heap[m].desc
  BY ReplaceKeeps
<1>5. heap[Inserted[p]].name = name
  <2>1. p \in Abstract!Places(name)
    BY <1>3
  <2>2. Listed[p].name = name
    BY <2>1 DEF Abstract!Places, Listed
  <2> QED
    BY <2>2, ListedIs
<1>6. DOMAIN t = 1 .. Len(Inserted') /\ t = [i \in DOMAIN t |-> t[i]]
  BY <1>4, ListedIs
<1>7. ASSUME NEW i \in 1 .. Len(Inserted')
      PROVE  t[i] = [name |-> heap'[Inserted'[i]].name, desc |-> heap'[Inserted'[i]].desc]
  <2>1. i \in 1 .. Len(Inserted) /\ i \in DOMAIN Listed /\ Inserted[i] \in DOMAIN heap
        /\ Inserted'[i] = Inserted[i]
    BY <1>4, ListedIs
  <2>2. CASE i = p
    <3>1. t[i] = [name |-> name, desc |-> desc]
      BY <1>3, <2>1, <2>2
    <3>2. heap'[Inserted[i]].name = name /\ heap'[Inserted[i]].desc = desc
      BY <1>2, <1>4, <1>5, <2>1, <2>2
    <3> QED
      BY <2>1, <3>1, <3>2
  <2>3. CASE i # p
    <3>1. t[i] = Listed[i]
      BY <1>3, <2>1, <2>3
    <3>2. Inserted[i] # Match(name)
      BY <1>2, <2>1, <2>3, ListedIs
    <3>3. /\ heap'[Inserted[i]].name = heap[Inserted[i]].name
          /\ heap'[Inserted[i]].desc = heap[Inserted[i]].desc
      BY <1>4, <2>1, <3>2
    <3>4. Listed[i] = [name |-> heap[Inserted[i]].name, desc |-> heap[Inserted[i]].desc]
      BY <2>1, ListedIs
    <3> QED
      BY <2>1, <3>1, <3>3, <3>4
  <2> QED
    BY <2>2, <2>3
<1> HIDE DEF t
<1>8. Listed' = t
  BY <1>4, <1>6, <1>7, ListedNext
<1>9. Abstract!Places(name) # {}
  BY <1>3
<1> QED
  BY <1>1, <1>8, <1>9 DEF Abstract!Insert, t, Listed

LEMMA AddRefines ==
  ASSUME OneForm, IInv, NamesOnce, NEW name \in Names, NEW desc \in Descs,
         NEW n \in Nodes, Add(n, name, desc)
  PROVE  Abstract!Insert(name, desc)
<1> DEFINE new == [name |-> name, desc |-> desc]
           t == Append(Listed, new)
<1>1. Match(name) = NULL /\ UNCHANGED found
  BY DEF Add
<1>2. Abstract!Places(name) = {}
  BY <1>1, PlacesIs
<1>3. /\ IInv' /\ Inserted' = Append(Inserted, n)
      /\ heap'[n].name = name /\ heap'[n].desc = desc
      /\ \A m \in DOMAIN heap : heap'[m].name = heap[m].name /\ heap'[m].desc = heap[m].desc
  BY AddKeeps
<1>4. /\ Len(Inserted) \in Nat /\ Len(Inserted') = Len(Inserted) + 1
      /\ \A i \in 1 .. Len(Inserted) : Inserted'[i] = Inserted[i]
      /\ Inserted'[Len(Inserted) + 1] = n
  BY <1>3, ListedIs
<1>5. /\ t = [i \in 1 .. (Len(Inserted) + 1) |-> IF i = Len(Inserted) + 1 THEN new ELSE Listed[i]]
  BY ListedIs
<1> HIDE DEF new, t
<1>6. DOMAIN t = 1 .. Len(Inserted') /\ t = [i \in DOMAIN t |-> t[i]]
  BY <1>4, <1>5
<1>7. ASSUME NEW i \in 1 .. Len(Inserted')
      PROVE  t[i] = [name |-> heap'[Inserted'[i]].name, desc |-> heap'[Inserted'[i]].desc]
  <2>1. CASE i = Len(Inserted) + 1
    <3>1. t[i] = new
      BY <1>4, <1>5, <2>1
    <3> QED
      BY <1>3, <1>4, <2>1, <3>1 DEF new
  <2>2. CASE i # Len(Inserted) + 1
    <3>1. i \in 1 .. Len(Inserted) /\ t[i] = Listed[i] /\ Inserted'[i] = Inserted[i]
      BY <1>4, <1>5, <2>2
    <3>2. /\ Listed[i] = [name |-> heap[Inserted[i]].name, desc |-> heap[Inserted[i]].desc]
          /\ Inserted[i] \in DOMAIN heap
      BY <3>1, ListedIs
    <3> QED
      BY <1>3, <3>1, <3>2
  <2> QED
    BY <2>1, <2>2
<1>8. Listed' = t
  BY <1>3, <1>6, <1>7, ListedNext
<1> QED
  BY <1>1, <1>2, <1>8 DEF Abstract!Insert, t, new, Listed

LEMMA RemoveRefines ==
  ASSUME OneForm, IInv, NamesOnce, NEW name \in Names, Remove(name),
         inuse # 0, Match(name) # NULL
  PROVE  Abstract!Remove(name)
<1>1. PICK p \in 1 .. Len(Inserted) : Inserted[p] = Match(name)
  BY MatchIs, InsertedAt
<1> DEFINE t == [i \in 1 .. Len(Listed) - 1 |-> IF i < p THEN Listed[i] ELSE Listed[i + 1]]
<1>2. Abstract!Places(name) = {p}
  BY <1>1, PlacesIs
<1>3. /\ IInv' /\ Inserted' = Dropped(Inserted, p)
      /\ DOMAIN heap' = DOMAIN heap \ {Match(name)}
      /\ \A m \in DOMAIN heap' : heap'[m].name = heap[m].name /\ heap'[m].desc = heap[m].desc
  BY <1>1, RemoveKeeps
<1>4. /\ Len(Inserted) \in Nat /\ Len(Inserted') = Len(Inserted) - 1
      /\ \A i \in 1 .. (Len(Inserted) - 1) :
           Inserted'[i] = IF i < p THEN Inserted[i] ELSE Inserted[i + 1]
  <2>1. \A i \in 1 .. (Len(Inserted) - 1) :
          Dropped(Inserted, p)[i] = IF i < p THEN Inserted[i] ELSE Inserted[i + 1]
    BY DEF Dropped
  <2>2. Len(Dropped(Inserted, p)) = Len(Inserted) - 1
    BY ListedIs, DroppedIs
  <2> QED
    BY <1>3, <2>1, <2>2, ListedIs
<1>5. DOMAIN t = 1 .. Len(Inserted') /\ t = [i \in DOMAIN t |-> t[i]]
  BY <1>4, ListedIs
<1>6. ASSUME NEW i \in 1 .. Len(Inserted')
      PROVE  t[i] = [name |-> heap'[Inserted'[i]].name, desc |-> heap'[Inserted'[i]].desc]
  <2>1. i \in 1 .. (Len(Inserted) - 1) /\ i \in 1 .. Len(Listed) - 1
    BY <1>4, ListedIs
  <2> DEFINE j == IF i < p THEN i ELSE i + 1
  <2>2. j \in 1 .. Len(Inserted) /\ t[i] = Listed[j] /\ Inserted'[i] = Inserted[j] /\ j # p
    BY <1>4, <2>1
  <2> HIDE DEF j
  <2>3. Inserted[j] \in DOMAIN heap /\ Inserted[j] # Match(name)
    BY <1>1, <2>2, ListedIs
  <2>4. Listed[j] = [name |-> heap[Inserted[j]].name, desc |-> heap[Inserted[j]].desc]
    BY <2>2, ListedIs
  <2> QED
    BY <1>3, <2>2, <2>3, <2>4
<1> HIDE DEF t
<1>7. Listed' = t
  BY <1>3, <1>5, <1>6, ListedNext
<1>8. Abstract!Places(name) # {} /\ (CHOOSE i \in Abstract!Places(name) : TRUE) = p
  BY <1>2
<1>9. UNCHANGED found
  BY DEF Remove
<1> QED
  BY <1>7, <1>8, <1>9 DEF Abstract!Remove, Abstract!Without, t, Listed

LEMMA NextRefines ==
  ASSUME OneForm, IInv, NamesOnce, [Next]_vars
  PROVE  [Abstract!Next]_(Abstract!vars)
<1> USE DEF Abstract!vars
<1>1. ASSUME UNCHANGED <<table, found>> PROVE UNCHANGED Abstract!vars
  <2>1. Inserted' = Inserted /\ heap' = heap /\ found' = found
    BY <1>1, SameList DEF table
  <2> QED
    BY <2>1 DEF Properties
<1>2. ASSUME \/ UNCHANGED vars \/ WalkBegin \/ WalkNext \/ WalkEnd \/ WalkFreed
      PROVE  UNCHANGED Abstract!vars
  <2>1. UNCHANGED <<table, found>>
    BY <1>2 DEF vars, table, WalkBegin, WalkNext, WalkEnd, WalkFreed
  <2> QED
    BY <1>1, <2>1
<1>3. ASSUME NEW name \in Names, Lookup(name) PROVE Abstract!Next
  BY <1>3, LookupRefines DEF Abstract!Next
<1>4. ASSUME NEW name \in Names, Remove(name) PROVE [Abstract!Next]_(Abstract!vars)
  <2>1. CASE inuse = 0 \/ Match(name) = NULL
    <3>1. UNCHANGED <<table, found>>
      BY <1>4, <2>1 DEF Remove
    <3> QED
      BY <1>1, <3>1
  <2>2. CASE inuse # 0 /\ Match(name) # NULL
    BY <1>4, <2>2, RemoveRefines DEF Abstract!Next
  <2> QED
    BY <2>1, <2>2
<1>5. ASSUME NEW name \in Names, NEW desc \in Descs, Replace(name, desc)
      PROVE  Abstract!Next
  BY <1>5, ReplaceRefines DEF Abstract!Next
<1>6. ASSUME NEW name \in Names, NEW desc \in Descs, NEW n \in Nodes, Add(n, name, desc)
      PROVE  Abstract!Next
  BY <1>6, AddRefines DEF Abstract!Next
<1> USE DEF Next
<1> QED
  BY <1>2, <1>3, <1>4, <1>5, <1>6, Zenon

(***************************************************************************)
(* Whatever the names, their hashes, the addresses malloc answers with and *)
(* the bucket counts, a property map is a table that keeps the properties  *)
(* in the order of their first insert, if strict equality tells the names  *)
(* apart.                                                                  *)
(***************************************************************************)
THEOREM PropertyMapIsTable ==
  ASSUME OneForm
  PROVE  Spec => ImplementsTable
<1>1. Init => Abstract!Init /\ NamesOnce
  <2> SUFFICES ASSUME Init PROVE Abstract!Init /\ NamesOnce
    OBVIOUS
  <2>1. Inserted = <<>> /\ found = NULL /\ heap = <<>>
    BY InitInv DEF Init
  <2>2. Properties(heap, <<>>) = <<>>
    BY DEF Properties
  <2>3. NamesOnce
    BY <2>1 DEF NamesOnce
  <2> QED
    BY <2>1, <2>2, <2>3 DEF Abstract!Init
<1>2. IInv /\ NamesOnce /\ [Next]_vars => NamesOnce'
  BY OneForm, NamesKept
<1>3. IInv /\ NamesOnce /\ [Next]_vars => [Abstract!Next]_(Abstract!vars)
  BY OneForm, NextRefines
<1> QED
  BY <1>1, <1>2, <1>3, Invariance, PTL DEF Spec, ImplementsTable, Abstract!Spec
=============================================================================
