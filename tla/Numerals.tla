------------------------------ MODULE Numerals ------------------------------
(***************************************************************************)
(* Numerals: IntToString and NumberToString, which write an integer, and   *)
(* parseInt, which reads one (ejs-ops.c).  A text is a sequence of         *)
(* characters, a character a string of length one.                         *)
(***************************************************************************)
EXTENDS Integers, Sequences
LOCAL INSTANCE SequencesExt

CONSTANT IntMax  \* the largest int: 2^31 - 1 in the code

ASSUME NumeralsAssumption == IntMax \in Nat \ {0}

Radix == <<"0", "1", "2", "3", "4", "5", "6", "7", "8", "9">>

\* The characters of a text put together.
Text(s) == FoldLeft(LAMBDA t, c : t \o c, "", s)

RECURSIVE Digits(_)
Digits(u) == (IF u < 10 THEN <<>> ELSE Digits(u \div 10)) \o <<Radix[(u % 10) + 1]>>

\* Radix 10, the only one it is called with.  The sign is written when the
\* unsigned, which the loop has brought to 0, is not i.
IntToString(i) ==
  LET u == 0 IN (IF u # i THEN <<"-">> ELSE <<>>) \o Digits(IF i < 0 THEN -i ELSE i)

\* The characters of int_buf: the digits of the largest unsigned, and a NUL.
BufferLength == Len(Digits(2 * IntMax + 1)) + 1

\* What is written over the end of int_buf.
Overrun == <<"undefined behaviour">>

\* Numbers from 0 to 200 are atoms.  Any other is written to int_buf, which has
\* no room for a sign before the most digits.
NumeralOf(i) ==
  CASE i \in 0..200 -> Digits(i)
    [] Len(IntToString(i)) + 1 <= BufferLength -> IntToString(i)
    [] OTHER -> Overrun

-----------------------------------------------------------------------------
NotANumber == 999999   \* what stands for NaN among the answers
NotImplemented == 999998
Overflow == 999997     \* of a signed int: undefined behaviour

DigitsOf(R) ==
  CASE R = 8  -> SubSeq(Radix, 1, 8)
    [] R = 10 -> Radix
    [] R = 16 -> Radix \o <<"a", "b", "c", "d", "e", "f">>
LettersUp == <<"A", "B", "C", "D", "E", "F">>

IsDigit(c, R) == c \in {DigitsOf(R)[i] : i \in DOMAIN DigitsOf(R)} \/ (R = 16 /\ Contains(LettersUp, c))
DigitValue(c, R) ==
  IF R = 16 /\ Contains(LettersUp, c) THEN 9 + CHOOSE i \in 1..6 : LettersUp[i] = c
  ELSE (CHOOSE i \in DOMAIN DigitsOf(R) : DigitsOf(R)[i] = c) - 1

\* the longest prefix of digits
DigitPrefix(s, R) ==
  LET stops == {i \in DOMAIN s : ~IsDigit(s[i], R)}
  IN IF stops = {} THEN s ELSE SubSeq(s, 1, (CHOOSE i \in stops : \A j \in stops : i <= j) - 1)

\* mathInt, an int, which may pass its largest value.
Magnitude(z, R) ==
  FoldLeft(LAMBDA n, c : IF n = Overflow \/ n * R + DigitValue(c, R) > IntMax
                         THEN Overflow ELSE n * R + DigitValue(c, R), 0, z)
Negated(n, sign) == IF n = Overflow THEN n ELSE n * sign

SignOf(s)   == IF s[1] = "-" THEN -1 ELSE 1
Unsigned(s) == IF s # <<>> /\ s[1] \in {"-", "+"} THEN Tail(s) ELSE s
HexPrefix(s) == Len(s) >= 2 /\ s[1] = "0" /\ s[2] \in {"x", "X"}
HasPrefix(s) == Len(s) > 2 /\ HexPrefix(s)

\* One that takes the first two characters away before it looks at the sign.
ParseIntPrefixFirst(s, radix) ==
  LET strip == radix \in {0, 16} /\ HasPrefix(s)
      R     == IF strip THEN 16 ELSE IF radix = 0 THEN 10 ELSE radix
      z     == DigitPrefix(Unsigned(IF strip THEN SubSeq(s, 3, Len(s)) ELSE s), R)
  IN CASE radix # 0 /\ (radix < 2 \/ radix > 36) -> NotANumber
       [] R \notin {8, 10, 16} -> NotImplemented
       [] z = <<>> -> NotANumber
       [] OTHER -> Negated(Magnitude(z, R), SignOf(s))

\* parseInt with an int for its radix, 0 when there is none.  White space is
\* not skipped, and only three radices are implemented.
ParseInt(s, radix) ==
  LET bare  == Unsigned(s)
      strip == radix \in {0, 16} /\ HasPrefix(bare)
      R     == IF strip THEN 16 ELSE IF radix = 0 THEN 10 ELSE radix
      z     == DigitPrefix(IF strip THEN SubSeq(bare, 3, Len(bare)) ELSE bare, R)
  IN CASE radix # 0 /\ (radix < 2 \/ radix > 36) -> NotANumber
       [] R \notin {8, 10, 16} -> NotImplemented
       [] z = <<>> -> NotANumber
       [] OTHER -> Negated(Magnitude(z, R), SignOf(s))

-----------------------------------------------------------------------------
(***************************************************************************)
(* parseInt as ECMAScript defines it: white space, a sign, a prefix, and   *)
(* the value of the longest run of digits, each weighted by its place.     *)
(* (Zero has no sign here, and none in an int.)                            *)
(***************************************************************************)
RECURSIVE Trimmed(_), SumTo(_, _, _)
Trimmed(s) == IF s # <<>> /\ s[1] = " " THEN Trimmed(Tail(s)) ELSE s
SumTo(z, R, n) ==
  IF n = 0 THEN 0 ELSE DigitValue(z[n], R) * R ^ (Len(z) - n) + SumTo(z, R, n - 1)

ParseIntES6(s, radix) ==
  LET t    == Trimmed(s)
      bare == Unsigned(t)
      hex  == radix \in {0, 16} /\ HexPrefix(bare)
      R    == IF hex THEN 16 ELSE IF radix = 0 THEN 10 ELSE radix
      rest == IF hex THEN SubSeq(bare, 3, Len(bare)) ELSE bare
      runs == {n \in 0..Len(rest) : \A i \in 1..n : IsDigit(rest[i], R)}
      n    == CHOOSE m \in runs : \A k \in runs : k <= m
  IN IF radix \notin {0} \cup 2..36 \/ n = 0 THEN NotANumber
     ELSE SumTo(SubSeq(rest, 1, n), R, n) * SignOf(t)
=============================================================================
