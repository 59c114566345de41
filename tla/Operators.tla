----------------------------- MODULE Operators -----------------------------
(***************************************************************************)
(* The conversions and the operators of ejs-ops.c, beside those of         *)
(* ECMAScript that its comments quote.                                     *)
(*                                                                         *)
(* What an operator does is an outcome: the value it answers, or the C     *)
(* operation it performs and the two operands it performs it on, or the    *)
(* end of the process; and the methods of JavaScript objects it called on  *)
(* the way, in order.  Arithmetic on doubles is left uninterpreted: the    *)
(* runtime and ECMAScript agree on an operator if they perform the same    *)
(* operation on the same operands after the same calls.                    *)
(***************************************************************************)
EXTENDS Values, Numerals, Integers, Sequences
LOCAL INSTANCE FiniteSetsExt

Str(text) == Value("STRING", text)
StrObject == Str("[object Object]")

\* Objects by their methods: with both, with a string from the first, with
\* two that answer objects, with @@toPrimitive, with a bad @@toPrimitive.
ObjN    == Value("OBJECT", "valueOf 5, toString a")
ObjS    == Value("OBJECT", "valueOf a, toString 5")
ObjNone == Value("OBJECT", "valueOf and toString answer objects")
ObjP    == Value("OBJECT", "toPrimitive 1")
ObjBadP == Value("OBJECT", "toPrimitive answers an object")
FunF    == Value("OBJECT", "function F")
FunBound == Value("OBJECT", "bound function")
ArrEmpty == Value("OBJECT", "[]")
ArrFive  == Value("OBJECT", "[5]")
ArrTwo   == Value("OBJECT", "[5, 5]")
FunSym   == Value("OBJECT", "function whose prototype is a symbol")
ObjHas   == Value("OBJECT", "hasInstance answers a")
ObjHasNo == Value("OBJECT", "hasInstance answers 0")
IterA    == Value("OBJECT", "iterator")
Result   == Value("OBJECT", "result of next")
IterFive == Value("OBJECT", "iterator whose next answers 5")
DateFive == Value("OBJECT", "date 5")

IsObject(v) == v.tag = "OBJECT"
IsString(v) == v.tag = "STRING"
IsBoolean(v) == v.tag = "BOOLEAN"
IsMagic(v) == v.tag = "MAGIC"
IsFunction(v) == v \in {FunF, FunBound, FunSym}
IsCallable(v) == IsFunction(v)
IsArray(v) == v \in {ArrEmpty, ArrFive, ArrTwo}
IsIterator(v) == v \in {IterA, IterFive}  \* of a string, array, set or properties

\* The methods a conversion finds on an object or its prototypes, with
\* what they answer.  A symbol has no valueOf, its prototype no prototype.
Methods(o) ==
  CASE o = ObjN    -> [valueOf |-> Five, toString |-> StrA]
    [] o = ObjS    -> [valueOf |-> StrA, toString |-> Str("5")]
    [] o = ObjNone -> [valueOf |-> ObjA, toString |-> ObjA]
    [] o = ObjP    -> [toPrimitive |-> One, valueOf |-> Five, toString |-> StrA]
    [] o = ObjBadP -> [toPrimitive |-> ObjA, valueOf |-> Five, toString |-> StrA]
    [] o = ObjHas  -> [hasInstance |-> StrA, valueOf |-> o, toString |-> StrObject]
    [] o = ObjHasNo -> [hasInstance |-> PosZero, valueOf |-> o, toString |-> StrObject]
    [] o = IterA   -> [next |-> Result, valueOf |-> o, toString |-> StrObject]
    [] o = IterFive -> [next |-> Five, valueOf |-> o, toString |-> StrObject]
    [] o = SymA    -> [toString |-> Str("Symbol(A)")]
    [] o = ArrEmpty -> [valueOf |-> o, toString |-> StrEmpty]
    [] o = ArrFive -> [valueOf |-> o, toString |-> Str("5")]
    [] o = ArrTwo  -> [valueOf |-> o, toString |-> Str("5,5")]
    [] OTHER       -> [valueOf |-> o, toString |-> StrObject]

\* the methods that are the program's, not the library's
Programmed == {ObjN, ObjS, ObjNone, ObjP, ObjBadP, ObjHas, ObjHasNo, IterFive}

Outcome(op, l, r) == [op |-> op, l |-> l, r |-> r, calls |-> <<>>]
Plain(v) == Outcome("value", v, v)
Aborted   == Outcome("abort", Undefined, Undefined)
Undefinable == Outcome("undefined behaviour", Undefined, Undefined)

Before(calls, o) == [o EXCEPT !.calls = calls \o @]
Then(o, Next(_)) == IF o.op = "value" THEN Before(o.calls, Next(o.l)) ELSE o
Both(o, p, Next(_, _)) ==
  Then(o, LAMBDA l : Then(p, LAMBDA r : Next(l, r)))

Called(o, m) == IF o \in Programmed THEN <<<<o, m>>>> ELSE <<>>
Invoke(o, m) == Before(Called(o, m), Plain(Methods(o)[m]))

-----------------------------------------------------------------------------
(***************************************************************************)
(* Conversions.                                                            *)
(***************************************************************************)
\* The methods in the order of the hint; the first answer that is no
\* object ends the search.
OrdinaryToPrimitive(o, hint) ==
  LET names == SelectSeq(IF hint = "string" THEN <<"toString", "valueOf">> ELSE <<"valueOf", "toString">>,
                         LAMBDA m : m \in DOMAIN Methods(o))
      good  == {i \in DOMAIN names : ~IsObject(Methods(o)[names[i]])}
      calls(n) == IF o \in Programmed THEN [i \in 1..n |-> <<o, names[i]>>] ELSE <<>>
  IN IF good = {} THEN Before(calls(Len(names)), Aborted)
     ELSE Before(calls(Min(good)), Plain(Methods(o)[names[Min(good)]]))

ToPrimitive(v, hint) ==
  IF ~IsObject(v) THEN Plain(v)
  ELSE IF "toPrimitive" \in DOMAIN Methods(v)
  THEN Then(Invoke(v, "toPrimitive"), LAMBDA p : IF IsObject(p) THEN Aborted ELSE Plain(p))
  ELSE OrdinaryToPrimitive(v, hint)

Int32s == [t \in {"0", "1", "5", "201"} |-> CASE t = "0" -> 0 [] t = "1" -> 1 [] t = "5" -> 5 [] OTHER -> 201]
IsInt32(v) == v.val \in DOMAIN Int32s /\ ~IsNegZero(v)

\* snprintf with "%g": six digits
PercentG(v) ==
  CASE v = NegZero -> "-0" [] v = Denormal -> "4.94066e-324" [] v = Big -> "1.09951e+12" [] OTHER -> v.val

NumberToString(v) ==
  Str(CASE IsInt32(v) -> Text(NumeralOf(Int32s[v.val]))
        [] v = Infinity \/ IsNaN(v) -> v.val
        [] OTHER -> PercentG(v))

ToString(v) ==
  CASE IsMagic(v)  -> Plain(StrEmpty)
    [] IsNumber(v) -> Plain(NumberToString(v))
    [] IsString(v) -> Plain(v)
    [] IsObject(v) -> IF "toString" \in DOMAIN Methods(v) THEN Invoke(v, "toString") ELSE Plain(StrObject)
    [] OTHER       -> Plain(Str(v.val))

\* strtod over the whole string, which knows inf and no white space behind
Strtod(v) ==
  CASE v.val = ""    -> PosZero
    [] v.val \in {"5", " 5"} -> Five
    [] v.val = "1"   -> One
    [] v.val = "inf" -> Infinity
    [] OTHER         -> NaN

ElementsOf(a) == CASE a = ArrEmpty -> <<>> [] a = ArrFive -> <<Five>> [] a = ArrTwo -> <<Five, Five>>

RECURSIVE ToNumber(_)
ToNumber(v) ==
  CASE IsNumber(v)  -> Plain(v)
    [] IsBoolean(v) -> Plain(IF v = True THEN One ELSE PosZero)
    [] IsString(v)  -> Plain(Strtod(v))
    [] v = Undefined -> Plain(NaN)
    [] v = DateFive -> Plain(Five)
    [] IsArray(v)   -> CASE Len(ElementsOf(v)) = 0 -> Plain(PosZero)
                         [] Len(ElementsOf(v)) = 1 -> ToNumber(ElementsOf(v)[1])
                         [] OTHER -> Plain(NaN)
    [] IsObject(v)  -> Plain(NaN)
    [] OTHER        -> Aborted

\* The double an int64 is made of: 5.5 is first truncated by the abs of
\* ints, which has no answer beyond int32, nor has a NaN that is not _ejs_nan.
Truncated(v) ==
  CASE IsZero(v) \/ v = Denormal \/ v = Half -> Plain(PosZero)
    [] v = NegFrac -> Plain(Value("C0140000", "-5"))
    [] IsInt32(v)  -> Plain(v)
    [] OTHER       -> Undefinable

ToInteger(v) == Then(ToNumber(v), LAMBDA n : IF n = NaN THEN Plain(PosZero) ELSE Truncated(n))

\* A conversion that forgets the empty string.
ToEJSBoolNoEmpty(v) ==
  CASE v \in {Null, Undefined} -> FALSE
    [] IsBoolean(v) -> v = True
    [] IsNumber(v)  -> ~IsZero(v)
    [] OTHER        -> TRUE

\* (A magic value, which no program holds, stops the process.)
ToEJSBool(v) ==
  CASE v \in {Null, Undefined} -> FALSE
    [] IsBoolean(v) -> v = True
    [] IsNumber(v)  -> ~IsZero(v)
    [] IsString(v)  -> v # StrEmpty
    [] OTHER        -> TRUE

ToObject(v) ==
  CASE IsBoolean(v) \/ IsNumber(v) \/ IsString(v) -> Outcome("wrapper", v, v)
    [] v \in {Undefined, Null} -> Aborted
    [] OTHER -> Plain(v)

TypeOf(v) ==
  CASE v = Null -> "null" [] IsBoolean(v) -> "boolean" [] IsString(v) -> "string" [] IsSymbol(v) -> "symbol"
    [] IsNumber(v) -> "number" [] v = Undefined -> "undefined" [] IsFunction(v) -> "function" [] OTHER -> "object"

IsFinite(n) == ~IsNaN(n) /\ n # Infinity
IsNaNOf(v) == Then(ToNumber(v), LAMBDA n : Plain(Truth(IsNaN(n))))
IsFiniteOf(v) == Then(ToNumber(v), LAMBDA n : Plain(Truth(IsFinite(n))))

\* The functions of Number, which convert nothing.
NumberIsNaN(v) == IsNumber(v) /\ IsNaN(v)
NumberIsFinite(v) == IsNumber(v) /\ IsFinite(v)
NumberIsInteger(v) ==
  IF NumberIsFinite(v) THEN Then(ToInteger(v), LAMBDA n : Plain(Truth(NumEq(n, v)))) ELSE Plain(False)
\* the first of the class that converts: NaN is 0, infinity stays
NumberToInteger(v) ==
  Then(ToNumber(v), LAMBDA n :
    IF IsNaN(n) THEN Plain(PosZero) ELSE IF IsZero(n) \/ n = Infinity THEN Plain(n) ELSE Outcome("floor", n, n))

-----------------------------------------------------------------------------
(***************************************************************************)
(* Operators.                                                              *)
(***************************************************************************)
OnNumber(op, v) == Then(ToNumber(v), LAMBDA n : Outcome(op, n, n))
OnNumbers(op, x, y) == Both(ToNumber(x), ToNumber(y), LAMBDA l, r : Outcome(op, l, r))

OpNeg(v) == OnNumber("neg", v)
OpPlus(v) == ToNumber(v)
OpNot(v) == Plain(Truth(~ToEJSBool(v)))

\* An iterator is moved instead: its next is called with 1 or -1 and must
\* answer an object, which is the answer.
IteratorNext(it, step) ==
  Before(<<<<it, "next", step>>>>,
         IF IsObject(Methods(it).next) THEN Plain(Methods(it).next) ELSE Aborted)
OpPlusPlus(v) ==
  IF IsIterator(v) THEN IteratorNext(v, 1)
  ELSE Then(ToNumber(v), LAMBDA n : Outcome("add", n, One))
OpMinusMinus(v) ==
  IF IsIterator(v) THEN IteratorNext(v, -1)
  ELSE Then(ToNumber(v), LAMBDA n : Outcome("sub", n, One))
OpBitwiseNot(v) == Then(ToInteger(v), LAMBDA n : Outcome("not", n, n))

\* Both are made primitive, but whether to concatenate is asked of the
\* operands, which are then converted a second time.
OpAdd(x, y) ==
  Both(ToPrimitive(x, "default"), ToPrimitive(y, "default"), LAMBDA l, r :
    IF IsString(x) \/ IsString(y)
    THEN Both(ToString(x), ToString(y), LAMBDA s, t : Outcome("concat", s, t))
    ELSE OnNumbers("add", l, r))

OpSub(x, y) == OnNumbers("sub", x, y)
OpMult(x, y) == IF IsNumber(x) \/ IsNumber(y) THEN OnNumbers("mult", x, y) ELSE Aborted
OpDiv(x, y) == IF IsNumber(x) THEN OnNumbers("div", x, y) ELSE Aborted
OpMod(x, y) == IF IsNumber(x) /\ IsNumber(y) THEN Outcome("mod", x, y) ELSE Aborted

OpBitwise(op, x, y) == Both(ToInteger(x), ToInteger(y), LAMBDA l, r : Outcome(op, l, r))

\* The casts of a double to int and to unsigned int; a negative number has
\* no value of the second.
Cast(v) == IF v \in {NegFrac, NaN} THEN Undefinable ELSE Truncated(v)
OpShift(op, x, y) ==
  IF ~IsNumber(x) \/ ~IsNumber(y) THEN Aborted
  ELSE Both(IF op \in {"rsh", "lsh"} THEN IF IsNaN(x) THEN Undefinable ELSE Truncated(x) ELSE Cast(x), Cast(y),
            LAMBDA l, r : Outcome(op, l, r))

\* A left operand decides how to compare; an answer of toString that is not
\* a string is read as the object of one.
OpRelational(op, x, y) ==
  CASE IsNumber(x) -> Then(ToNumber(y), LAMBDA n : Outcome(op, x, n))
    [] IsString(x) -> Then(ToString(y), LAMBDA s : IF IsString(s) THEN Outcome(op, x, s) ELSE Undefinable)
    [] OTHER       -> Aborted

OpSameValue(x, y)     == IF SameAborts(x, y) THEN Aborted ELSE Plain(Truth(SameValue(x, y)))
OpSameValueZero(x, y) == IF SameAborts(x, y) THEN Aborted ELSE Plain(Truth(SameValueZero(x, y)))

RECURSIVE OpEqNoSwap(_, _)
\* A comparison that does not convert a boolean on the right.
OpEqNoSwap(x, y) ==
  CASE x.tag = y.tag -> Plain(Truth(StrictEq(x, y)))
    [] {x, y} = {Null, Undefined} -> Plain(True)
    [] IsNumber(x) /\ IsString(y) -> Then(ToNumber(y), LAMBDA n : OpEqNoSwap(x, n))
    [] IsString(x) /\ IsNumber(y) -> Then(ToNumber(x), LAMBDA n : OpEqNoSwap(n, y))
    [] IsBoolean(x) -> Then(ToNumber(x), LAMBDA n : OpEqNoSwap(n, y))
    [] (IsString(x) \/ IsNumber(x)) /\ IsObject(y) -> Then(ToPrimitive(y, "default"), LAMBDA p : OpEqNoSwap(x, p))
    [] IsObject(x) /\ (IsString(y) \/ IsNumber(y)) -> Then(ToPrimitive(x, "default"), LAMBDA p : OpEqNoSwap(p, y))
    [] OTHER -> Plain(False)

RECURSIVE OpEq(_, _)
OpEq(x, y) ==
  CASE x.tag = y.tag -> Plain(Truth(StrictEq(x, y)))
    [] {x, y} = {Null, Undefined} -> Plain(True)
    [] IsNumber(x) /\ IsString(y) -> Then(ToNumber(y), LAMBDA n : OpEq(x, n))
    [] IsString(x) /\ IsNumber(y) -> Then(ToNumber(x), LAMBDA n : OpEq(n, y))
    [] x.tag # y.tag /\ IsBoolean(x) -> Then(ToNumber(x), LAMBDA n : OpEq(n, y))
    [] ~IsBoolean(x) /\ IsBoolean(y) -> Then(ToNumber(y), LAMBDA n : OpEq(x, n))
    [] (IsString(x) \/ IsNumber(x)) /\ IsObject(y) -> Then(ToPrimitive(y, "default"), LAMBDA p : OpEq(x, p))
    [] IsObject(x) /\ (IsString(y) \/ IsNumber(y)) -> Then(ToPrimitive(x, "default"), LAMBDA p : OpEq(p, y))
    [] OTHER -> Plain(False)

\* The prototypes of an object, and the "prototype" of a function.
PrototypeOf(o) ==
  CASE o = ObjN -> ObjA [] o = ObjS -> ObjB [] o = ObjNone -> ObjN [] OTHER -> Null
Prototypes(o) ==
  LET one == PrototypeOf(o) two == PrototypeOf(one) IN {one, two} \ {Null}
PrototypeProperty(c) == CASE c = FunF -> ObjA [] c = FunSym -> SymA [] OTHER -> Undefined

OrdinaryHasInstance(c, o) ==
  CASE c = FunBound -> Aborted
    [] ~IsObject(o) -> Plain(False)
    [] ~IsObject(PrototypeProperty(c)) -> Aborted
    [] \E p \in Prototypes(o) : SameAborts(PrototypeProperty(c), p) -> Aborted
    [] OTHER -> Plain(Truth(\E p \in Prototypes(o) : SameValue(PrototypeProperty(c), p)))

\* What @@hasInstance of c answers, made a boolean; without one c is asked for
\* its prototype.
OpInstanceOf(o, c) ==
  IF ~IsObject(c) THEN Aborted
  ELSE IF "hasInstance" \in DOMAIN Methods(c)
  THEN Then(Invoke(c, "hasInstance"), LAMBDA r : Plain(Truth(ToEJSBool(r))))
  ELSE IF IsCallable(c) THEN OrdinaryHasInstance(c, o) ELSE Aborted
OpIn(x, o) == IF IsObject(o) THEN Outcome("has", o, x) ELSE Aborted

-----------------------------------------------------------------------------
(***************************************************************************)
(* The conversions and the operators as ECMAScript defines them.           *)
(***************************************************************************)
NumeralES6(v) ==
  CASE v.val = "0" -> "0" [] v = Denormal -> "5e-324" [] OTHER -> v.val

\* a StringNumericLiteral, with white space around it
StringNumber(v) ==
  CASE v.val = ""     -> PosZero
    [] v.val \in {"5", " 5", "5 "} -> Five
    [] v.val = "1"    -> One
    [] OTHER          -> NaN

ToPrimitiveES6(v, hint) == IF IsSymbol(v) THEN Plain(v) ELSE ToPrimitive(v, hint)

RECURSIVE ToNumberES6(_)
ToNumberES6(v) ==
  CASE IsNumber(v)   -> Plain(v)
    [] v = Undefined -> Plain(NaN)
    [] v \in {Null, False} -> Plain(PosZero)
    [] v = True      -> Plain(One)
    [] IsString(v)   -> Plain(StringNumber(v))
    [] IsSymbol(v)   -> Aborted
    [] OTHER         -> Then(ToPrimitiveES6(v, "number"), ToNumberES6)

RECURSIVE ToStringES6(_)
ToStringES6(v) ==
  CASE IsNumber(v) -> Plain(Str(NumeralES6(v)))
    [] IsString(v) -> Plain(v)
    [] IsSymbol(v) -> Aborted
    [] IsObject(v) -> Then(ToPrimitiveES6(v, "string"), ToStringES6)
    [] OTHER       -> Plain(Str(v.val))

ToBooleanES6(v) ==
  ~(v \in {Undefined, Null, False, StrEmpty} \/ (IsNumber(v) /\ (IsZero(v) \/ IsNaN(v))))

\* sign(n) * floor(abs(n)); ToInt32 then wraps, and has 0 for what is not finite
IntegerPart(n) ==
  CASE IsZero(n) \/ n \in {Denormal, Half} -> PosZero
    [] n = NegFrac -> Value("C0140000", "-5")
    [] OTHER -> n
ToInt32ES6(v) ==
  Then(ToNumberES6(v), LAMBDA n :
    Plain(IF IsNaN(n) \/ n \in {Infinity, Big} THEN PosZero ELSE IntegerPart(n)))

ToObjectES6(v) ==
  CASE v \in {Undefined, Null} -> Aborted [] IsObject(v) /\ ~IsSymbol(v) -> Plain(v) [] OTHER -> Outcome("wrapper", v, v)

IsIntegerES6(v) == v.val \in {"0", "1", "5", "201", "1099511627776"} /\ IsNumber(v)

TypeOfES6(v) == IF v = Null THEN "object" ELSE TypeOf(v)

-----------------------------------------------------------------------------
NumericES6(op, x, y) == Both(ToNumberES6(x), ToNumberES6(y), LAMBDA l, r : Outcome(op, l, r))
BitwiseES6(op, x, y) == Both(ToInt32ES6(x), ToInt32ES6(y), LAMBDA l, r : Outcome(op, l, r))

AddES6(x, y) ==
  Both(ToPrimitiveES6(x, "default"), ToPrimitiveES6(y, "default"), LAMBDA l, r :
    IF IsString(l) \/ IsString(r)
    THEN Both(ToStringES6(l), ToStringES6(r), LAMBDA s, t : Outcome("concat", s, t))
    ELSE NumericES6("add", l, r))

RelationalES6(op, x, y) ==
  Both(ToPrimitiveES6(x, "number"), ToPrimitiveES6(y, "number"), LAMBDA l, r :
    IF IsString(l) /\ IsString(r) THEN Outcome(op, l, r) ELSE NumericES6(op, l, r))

IsObjectES6(v) == IsObject(v) /\ ~IsSymbol(v)

OrdinaryHasInstanceES6(c, o) ==
  CASE ~IsObjectES6(o) -> Plain(False)
    [] ~IsObjectES6(PrototypeProperty(c)) -> Aborted
    [] OTHER -> Plain(Truth(PrototypeProperty(c) \in Prototypes(o)))

BoundTarget == FunF  \* of FunBound
InstanceOfES6(o, c) ==
  CASE ~IsObjectES6(c) -> Aborted
    [] "hasInstance" \in DOMAIN Methods(c) ->
         Then(Invoke(c, "hasInstance"), LAMBDA r : Plain(Truth(ToBooleanES6(r))))
    [] ~IsFunction(c) -> Aborted
    [] OTHER -> OrdinaryHasInstanceES6(IF c = FunBound THEN BoundTarget ELSE c, o)

SameTypeES6(x, y) == x.tag = y.tag \/ (IsNumber(x) /\ IsNumber(y))

RECURSIVE EqES6(_, _)
EqES6(x, y) ==
  CASE SameTypeES6(x, y) -> Plain(Truth(StrictEqES6(x, y)))
    [] {x, y} = {Null, Undefined} -> Plain(True)
    [] IsNumber(x) /\ IsString(y) -> Then(ToNumberES6(y), LAMBDA n : EqES6(x, n))
    [] IsString(x) /\ IsNumber(y) -> Then(ToNumberES6(x), LAMBDA n : EqES6(n, y))
    [] ~SameTypeES6(x, y) /\ IsBoolean(x) -> Then(ToNumberES6(x), LAMBDA n : EqES6(n, y))
    [] ~IsBoolean(x) /\ IsBoolean(y) -> Then(ToNumberES6(y), LAMBDA n : EqES6(x, n))
    [] (IsString(x) \/ IsNumber(x)) /\ IsObjectES6(y) -> Then(ToPrimitiveES6(y, "default"), LAMBDA p : EqES6(x, p))
    [] IsObjectES6(x) /\ (IsString(y) \/ IsNumber(y)) -> Then(ToPrimitiveES6(x, "default"), LAMBDA p : EqES6(p, y))
    [] OTHER -> Plain(False)
=============================================================================
