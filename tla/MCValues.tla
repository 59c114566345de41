------------------------------ MODULE MCValues ------------------------------
(***************************************************************************)
(* Compares what the runtime computes over values with ECMAScript: the     *)
(* equality relations, conversions and operators over every pair of        *)
(* representative values, numerals over short texts and small integers.    *)
(* Each property names the operands on which the build is known to differ. *)
(***************************************************************************)
EXTENDS Invocation

CONSTANTS MaxText  \* bound on the texts read as numerals

VARIABLES x, y, text, radix, number, call
vars == <<x, y, text, radix, number, call>>

Numbers == {PosZero, NegZero, Denormal, One, Five, Half, NegFrac, Large, Big, Infinity, NaN, NegNaN}
Strings == {StrA, StrEmpty, Str("5"), Str(" 5"), Str("5 "), Str("inf")}
Plains  == {ObjA, ObjB, FunF, FunBound, FunSym, ArrEmpty, ArrFive, ArrTwo, IterA}
Representatives ==
  Numbers \cup Strings \cup Plains \cup Programmed \cup {Undefined, Null, True, False, SymA, DateFive}

Characters == {" ", "-", "0", "7", "9", "x", "F"}
Texts      == UNION {[1..n -> Characters] : n \in 0..MaxText}
Radices    == {0, 2, 8, 10, 16, 37}

Givens == {<<>>, <<Five>>, <<ObjA, One>>, <<Undefined, One, Half>>}
Binds  == UNION {[1..n -> Givens] : n \in 0..2}
Items  == {<<>>, <<Five>>, <<One, Half>>}
Lists  == [kind: {"array", "arguments"}, items: Items] \cup {List("array", <<Hole, One>>)}
            \cup {List(kind, <<>>) : kind \in {"undefined", "primitive", "object"}}
CallOf(base, binds, how, this, list) ==
  [base |-> base, binds |-> binds, how |-> how, this |-> this, list |-> list]
NoCall == CallOf(Code("f"), <<>>, "invoke", Undefined, List("arguments", <<>>))
Calls  ==
  {CallOf(b, bs, how, t, l) : b \in {Code("f"), Proxy, Other}, bs \in Binds, how \in {"call", "invoke"},
                              t \in {Undefined, Five, ObjA}, l \in [kind: {"arguments"}, items: Items]}
    \cup {CallOf(b, bs, "apply", t, l) : b \in {Code("f"), Proxy, Other}, bs \in Binds,
                                         t \in {Undefined, Five, ObjA}, l \in Lists}

Init ==
  /\ x = Undefined /\ y = Undefined /\ text = <<>> /\ radix = 0 /\ number = 0
  /\ call = NoCall
PickValues ==
  /\ x' \in Representatives /\ y' \in Representatives
  /\ UNCHANGED <<text, radix, number, call>>
PickText ==
  /\ text' \in Texts /\ radix' \in Radices
  /\ UNCHANGED <<x, y, number, call>>
PickNumber ==
  /\ number' \in -(IntMax + 1)..IntMax
  /\ UNCHANGED <<x, y, text, radix, call>>
PickCall ==
  /\ call' \in Calls
  /\ UNCHANGED <<x, y, text, radix, number>>
\* a choice is made once
Next == Init /\ (PickValues \/ PickText \/ PickNumber \/ PickCall)
Spec == Init /\ [][Next]_vars

-----------------------------------------------------------------------------
Near(u, v) == IsNumber(u) /\ IsNumber(v) /\ (SameNumber(u, v) \/ u.tag = v.tag)

(***************************************************************************)
(* The pairs on which the build is known to differ: two numbers that       *)
(* denote the same number with different high words (the zeros, the NaNs), *)
(* two that share a high word but differ (a denormal and zero), and, for   *)
(* SameValue, zero with itself.                                            *)
(***************************************************************************)
Excepted(u, v) == Near(u, v) /\ u # v

\* Outside the excepted pairs SameValue, SameValueZero and === of ejs-ops.c
\* are ECMAScript's, but the first two have no answer for a symbol and another
\* object.
EqualityAgrees ==
  /\ ~Excepted(x, y) /\ ~IsZero(x) =>
       (IsSymbol(x) /\ IsObject(y) <=> OpSameValue(x, y) # Plain(Truth(SameValueES6(x, y))))
  /\ ~Excepted(x, y) =>
       (IsSymbol(x) /\ IsObject(y) <=> OpSameValueZero(x, y) # Plain(Truth(SameValueZeroES6(x, y))))
  /\ ~Excepted(x, y) => (StrictEq(x, y) <=> StrictEqES6(x, y))

-----------------------------------------------------------------------------
\* What ToNumber gets wrong: null ends the process, strtod reads "inf" and
\* not "5 ", a symbol is NaN, a date answers its time, and the methods of
\* no object are called.
BadNumber == {Null, Str("inf"), Str("5 "), SymA, DateFive} \cup Programmed
\* What ToString gets wrong: six digits, -0, the sign of what is above 200,
\* symbols, and objects that answer with @@toPrimitive or with no string.
BadString == {NegZero, Denormal, Large, Big, SymA, ObjP, ObjBadP, ObjNone}
\* What has no int: C leaves the conversion of the number undefined.
BadInt == BadNumber \cup {Infinity, NegNaN, Big}

\* A conversion answers what ECMAScript says, after the same calls of
\* JavaScript, for exactly the values that are not named above.
ConversionsAgree ==
  /\ x \in BadNumber <=> ToNumber(x) # ToNumberES6(x)
  /\ x \in BadString <=> ToString(x) # ToStringES6(x)
  /\ x \in BadInt    <=> ToInteger(x) # ToInt32ES6(x)
  /\ (IsNumber(x) /\ IsNaN(x)) <=> (ToEJSBool(x) # ToBooleanES6(x))
  /\ x = Null <=> TypeOf(x) # TypeOfES6(x)
  /\ IsSymbol(x) <=> ToObject(x) # ToObjectES6(x)
  /\ x = Big <=> NumberIsInteger(x) # Plain(Truth(IsIntegerES6(x)))
  /\ x \notin BadNumber =>
       /\ IsNaNOf(x) = Then(ToNumberES6(x), LAMBDA n : Plain(Truth(NumberIsNaN(n))))
       /\ IsFiniteOf(x) = Then(ToNumberES6(x), LAMBDA n : Plain(Truth(NumberIsFinite(n))))
       /\ (x \notin BadInt /\ NumberToInteger(x).op = "floor") =>
            ToInteger(x) = Plain(IntegerPart(NumberToInteger(x).l))

Numeric(v) == v \notin BadNumber

\* Whether + concatenates is asked of the operands: it may be wrong when an
\* object's primitive is a string and no operand is, and an object is
\* converted twice, the second time for its string, when an operand is one.
Adds(u, v)    == {u, v} \subseteq (Representatives \ (BadNumber \cup Plains \cup Strings)) \cup {ObjN, ObjNone, ObjP, ObjBadP}
Concats(u, v) == (IsString(u) \/ IsString(v)) /\ {u, v} \cap (Programmed \cup BadString) = {}

\* An operator is defined where its left operand has the type it asks for.
\* There it performs ECMAScript's operation on the operands ECMAScript
\* converts, after the same calls.
ArithmeticAgrees ==
  /\ Numeric(x) => /\ OpNeg(x) = NumericES6("neg", x, x)
                   /\ OpPlus(x) = ToNumberES6(x)
                   /\ IsIterator(x) <=> OpPlusPlus(x) # NumericES6("add", x, One)
                   /\ IsIterator(x) <=> OpMinusMinus(x) # NumericES6("sub", x, One)
  /\ (Numeric(x) /\ Numeric(y)) =>
       /\ OpSub(x, y) = NumericES6("sub", x, y)
       /\ (IsNumber(x) \/ IsNumber(y)) => OpMult(x, y) = NumericES6("mult", x, y)
       /\ IsNumber(x) => OpDiv(x, y) = NumericES6("div", x, y)
  /\ (IsNumber(x) /\ IsNumber(y)) => OpMod(x, y) = NumericES6("mod", x, y)
  /\ {x, y} \cap BadInt = {} =>
       /\ OpBitwiseNot(x) = BitwiseES6("not", x, x)
       /\ OpBitwise("xor", x, y) = BitwiseES6("xor", x, y)
       /\ (IsNumber(x) /\ IsNumber(y) /\ NaN \notin {x, y} /\ y # NegFrac) =>
            /\ OpShift("rsh", x, y) = BitwiseES6("rsh", x, y)
            /\ x # NegFrac => OpShift("ursh", x, y) = BitwiseES6("ursh", x, y)
  /\ (Adds(x, y) \/ Concats(x, y)) => OpAdd(x, y) = AddES6(x, y)

\* The pairs on which == differs: what converts to +0 with -0, a denormal
\* with it, and the strings that ToNumber misreads.
LikeZero == {PosZero, False, StrEmpty, ArrEmpty}
LooseExcepted(u, v) ==
  \/ u = Denormal /\ v \in LikeZero
  \/ \E z \in LikeZero : {u, v} = {NegZero, z}
  \/ {u, v} \in {{Str("5 "), Five}, {Str("5 "), ObjN}, {Str("inf"), Infinity}}

\* instanceof knows no bound function, and that a symbol is no object for the
\* prototype of a function only after it has looked at one prototype of x.
InstanceExcepted(u, v) ==
  v = FunBound \/ (v = FunSym /\ IsObjectES6(u) /\ Prototypes(u) = {})

\* == is ECMAScript's on exactly the other pairs, and so is instanceof but for
\* its own.  A relation asks for a
\* number or a string on its left, and what to compare with depends on it.
ComparisonsAgree ==
  /\ LooseExcepted(x, y) <=> OpEq(x, y) # EqES6(x, y)
  /\ (IsNumber(x) /\ Numeric(y)) => OpRelational("lt", x, y) = RelationalES6("lt", x, y)
  /\ (IsString(x) /\ (IsString(y) \/ y \in Plains)) => OpRelational("lt", x, y) = RelationalES6("lt", x, y)
  /\ InstanceExcepted(x, y) <=> OpInstanceOf(x, y) # InstanceOfES6(x, y)
  /\ (IsString(x) /\ ~IsSymbol(y)) => OpIn(x, y) = IF IsObjectES6(y) THEN Outcome("has", y, x) ELSE Aborted

\* Every operator of ejs-ops.c does what ECMAScript asks of it, after the same
\* calls of JavaScript, outside the operands named above.
OperatorsAgree == EqualityAgrees /\ ArithmeticAgrees /\ ComparisonsAgree

-----------------------------------------------------------------------------
\* A primitive this becomes an object on the way through a bound function or
\* where the runtime invokes, apply without a list included.
Boxed(c) ==
  /\ IsFunctionObject(c.base)
  /\ IsNumber(ThisES6(c))
  /\ \/ c.binds # <<>> /\ c.list.kind \notin {"primitive", "object"}
     \/ c.how = "invoke" \/ c.list.kind = "undefined"

\* What else is known to differ: call and apply trust what they are called
\* on, apply passes holes on, and needs a length.
CallExcepted(c) ==
  \/ Boxed(c)
  \/ c.how = "apply" /\ IsFunctionObject(c.base) /\ (c.list.kind = "object" \/ Hole \in {c.list.items[i] : i \in DOMAIN c.list.items})
  \/ c.how = "call" /\ c.binds = <<>> /\ ~IsFunctionObject(c.base)
  \/ c.how = "apply" /\ c.binds = <<>> /\ c.base = Proxy /\ c.list.kind \notin {"undefined", "primitive"}
  \/ c.how = "apply" /\ c.binds # <<>> /\ c.base = Proxy /\ c.list.kind = "object"

\* Through any chain of bind, call and apply a function gets the this and the
\* arguments ECMAScript gives it, and its arguments object says so, on exactly
\* the calls that are not named above.
CallsAgree ==
  /\ CallExcepted(call) <=> Reached(call) # ReachedES6(call)
  /\ LET args == ArgumentsES6(call)
     IN \A i \in -1..(Len(args) + 1) :
          /\ ArgumentsHas(args, i) <=> i + 1 \in DOMAIN args
          /\ i # Len(args) => ArgumentsGet(args, i) = Plain(IF i + 1 \in DOMAIN args THEN args[i + 1] ELSE Undefined)

-----------------------------------------------------------------------------
\* As many digits as an int can have.
Longest(i) == Len(Digits(IF i < 0 THEN -i ELSE i)) = Len(Digits(IntMax))

\* What NumberToString writes of an int parseInt reads back, except exactly that
\* a number above 200 is written with a sign, and that one of the most digits
\* is written over the end of the buffer.  parseInt reads what ECMAScript reads
\* where its radix is implemented, no white space is in front, and a prefix is
\* followed by something, up to the largest int exactly.
NumeralsAgree ==
  /\ number > 200 \/ Longest(number) <=> ParseInt(NumeralOf(number), 10) # number
  /\ (radix # 2 /\ Trimmed(text) = text /\ ~(Len(Unsigned(text)) = 2 /\ HexPrefix(Unsigned(text)))) =>
       LET n == ParseIntES6(text, radix)
       IN  ParseInt(text, radix) =
             IF n # NotANumber /\ (n > IntMax \/ n < -IntMax) THEN Overflow ELSE n
=============================================================================
