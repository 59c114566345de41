------------------------------- MODULE Texts --------------------------------
(***************************************************************************)
(* What ECMAScript says the methods of a string answer, on texts: immutable*)
(* sequences of characters.                                                *)
(***************************************************************************)
EXTENDS Integers, Sequences, FiniteSets

Undef == -99   \* an argument that is not there, an answer that is no number
NaN == -98     \* the number that charCodeAt answers out of range

Clamp(i, low, high) == IF i < low THEN low ELSE IF i > high THEN high ELSE i
Or(i, default) == IF i = Undef THEN default ELSE i
Lowest(S) == CHOOSE i \in S : \A j \in S : i <= j
Highest(S) == CHOOSE i \in S : \A j \in S : i >= j

Slice(t, from, to) == SubSeq(t, from + 1, to)

MatchesAt(t, s, i) == i + Len(s) <= Len(t) /\ Slice(t, i, i + Len(s)) = s
Matches(t, s) == {i \in 0..Len(t) : MatchesAt(t, s, i)}

SubstringText(t, a, b) ==
  LET from == Clamp(Or(a, 0), 0, Len(t))
      to == Clamp(Or(b, Len(t)), 0, Len(t))
  IN IF from < to THEN Slice(t, from, to) ELSE Slice(t, to, from)

FromEnd(t, i) == IF i < 0 THEN Clamp(Len(t) + i, 0, Len(t)) ELSE Clamp(i, 0, Len(t))

SliceText(t, a, b) == Slice(t, FromEnd(t, Or(a, 0)), FromEnd(t, Or(b, Len(t))))

SubstrText(t, a, n) ==
  LET from == FromEnd(t, Or(a, 0)) IN Slice(t, from, Clamp(from + n, from, Len(t)))

HasChar(t, i) == i \in 0..(Len(t) - 1)
CharText(t, i) == IF HasChar(t, i) THEN <<t[i + 1]>> ELSE <<>>

IndexOfText(t, s) == IF Matches(t, s) = {} THEN -1 ELSE Lowest(Matches(t, s))
LastIndexOfText(t, s) == IF Matches(t, s) = {} THEN -1 ELSE Highest(Matches(t, s))

StartsWithText(t, s, pos) == MatchesAt(t, s, Clamp(Or(pos, 0), 0, Len(t)))
EndsWithText(t, s, end) ==
  LET e == Clamp(Or(end, Len(t)), 0, Len(t))
  IN e >= Len(s) /\ Slice(t, e - Len(s), e) = s
ContainsText(t, s, pos) ==
  \E i \in Matches(t, s) : i >= Clamp(Or(pos, 0), 0, Len(t))

RepeatText(t, n) ==
  LET r[k \in 0..n] == IF k = 0 THEN <<>> ELSE r[k - 1] \o t IN r[n]

ReplaceText(t, s, r) ==
  IF Matches(t, s) = {} THEN t
  ELSE LET i == Lowest(Matches(t, s))
       IN Slice(t, 0, i) \o r \o Slice(t, i + Len(s), Len(t))

MatchesFrom(t, s, p) == {i \in Matches(t, s) : i >= p}

\* The pieces of t from position p on, between the places where s is.
Pieces(t, s) ==
  LET from[p \in 0..Len(t)] ==
        IF MatchesFrom(t, s, p) = {} THEN <<Slice(t, p, Len(t))>>
        ELSE <<Slice(t, p, Lowest(MatchesFrom(t, s, p)))>>
               \o from[Lowest(MatchesFrom(t, s, p)) + Len(s)]
  IN from[0]

SplitText(t, s, limit) ==
  LET all == IF s = <<>> THEN [i \in 1..Len(t) |-> <<t[i]>>] ELSE Pieces(t, s)
  IN SubSeq(all, 1, Clamp(Or(limit, Len(all)), 0, Len(all)))

Mapped(t, f) == [i \in 1..Len(t) |-> f[t[i]]]
=============================================================================
